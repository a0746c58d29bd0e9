--------------------- MODULE NetworkTrafficAlertProofs ---------------------
(***************************************************************************)
(* Theorems about the traffic alerts (NetworkTrafficAlert), for any        *)
(* interfaces, rule lists, rates and number of refreshes.  evaluate() runs *)
(* the rules one after the other; most of what follows is what one rule    *)
(* does to the state of its target, that it touches no other, and that the *)
(* loop keeps it.                                                          *)
(***************************************************************************)
EXTENDS NetworkTrafficAlert, SubsequencesProofs

(* The states of the rules, and what a rule makes of them.                 *)

Runtimes ==
    [confirmed : BOOLEAN, count : Nat, streak : Int, emission : Int,
     source : Names \cup {NoName}]
Runs == UNION {[some -> Runtimes] : some \in SUBSET Targets}
Statuses == {"Disabled", "InterfaceUnavailable", "WaitingForBaseline", "Below", "Pending",
             "Exceeded", "Cooldown", "Recovered"}
Progress ==
    [run : Runs, active : [Names -> Severities], pushed : SUBSET (Targets \X Severities),
     statuses : Seq(Statuses)]
Entries == [rate : Rates \cup {NoRate}, name : Names]
Known == UNION {[some -> Entries] : some \in SUBSET Targets}

\* An identity without a state has a fresh one.
Own(run, i) == IF i \in DOMAIN run THEN run[i] ELSE Fresh

LEMMA FreshFacts ==
    /\ Fresh \in Runtimes /\ ~ Fresh.confirmed /\ Fresh.count = 0 /\ Fresh.emission = Never
    /\ Fresh.source = NoName
  BY DEF Fresh, Runtimes, Never, NoName

\* The state of an identity is a state.
LEMMA OwnType ==
    ASSUME NEW run \in Runs, NEW i \in Targets
    PROVE  /\ Own(run, i) \in Runtimes
           /\ Own(run, i).confirmed => i \in DOMAIN run
  BY FreshFacts DEF Own, Runs

\* Storing the state of one identity leaves the others as they are.
LEMMA RunFacts ==
    ASSUME NEW run \in Runs, NEW i \in Targets, NEW rt \in Runtimes
    PROVE  /\ With(run, i, rt) \in Runs /\ Own(With(run, i, rt), i) = rt
           /\ \A j \in Targets \ {i} : Own(With(run, i, rt), j) = Own(run, j)
  <1> DEFINE more == With(run, i, rt)
  <1>1. /\ DOMAIN more = {i} \cup DOMAIN run /\ more[i] = rt
        /\ \A j \in DOMAIN run \ {i} : more[j] = run[j]
        /\ more = [j \in DOMAIN more |-> more[j]]
    BY DEF With
  <1>2. DOMAIN run \in SUBSET Targets /\ \A j \in DOMAIN run : run[j] \in Runtimes
    BY DEF Runs
  <1> HIDE DEF more
  <1>3. more \in [{i} \cup DOMAIN run -> Runtimes] /\ {i} \cup DOMAIN run \in SUBSET Targets
    BY <1>1, <1>2
  <1>4. more \in Runs
    BY <1>3 DEF Runs
  <1> QED
    BY <1>1, <1>4 DEF Own, more

\* So does erasing it.
LEMMA LessFacts ==
    ASSUME NEW run \in Runs, NEW i \in Targets
    PROVE  /\ Without(run, i) \in Runs /\ Own(Without(run, i), i) = Fresh
           /\ \A j \in Targets \ {i} : Own(Without(run, i), j) = Own(run, j)
  <1>1. DOMAIN run \in SUBSET Targets /\ \A j \in DOMAIN run : run[j] \in Runtimes
    BY DEF Runs
  <1> DEFINE less == Without(run, i)
  <1>2. less \in [DOMAIN run \ {i} -> Runtimes] /\ DOMAIN run \ {i} \in SUBSET Targets
    BY <1>1 DEF Without
  <1>3. less \in Runs
    BY <1>2 DEF Runs
  <1> QED
    BY <1>3 DEF Own, Without

\* Time passes for every state alike.
LEMMA AgedFacts ==
    ASSUME NEW run \in Runs, NEW dt \in Nat
    PROVE  /\ Aged(run, dt) \in Runs
           /\ \A i \in Targets :
                 LET rt == Own(run, i)
                     old == Own(Aged(run, dt), i)
                 IN /\ old.confirmed = rt.confirmed /\ old.count = rt.count
                    /\ old.source = rt.source /\ old.emission = Older(rt.emission, dt)
  <1>0. MaxAge \in Int
    BY TrafficAlertConstants
  <1>1. DOMAIN run \in SUBSET Targets /\ \A j \in DOMAIN run : run[j] \in Runtimes
    BY DEF Runs
  <1> DEFINE aged(rt) == [rt EXCEPT !.streak = Older(@, dt), !.emission = Older(@, dt)]
  <1>2. \A rt \in Runtimes : /\ aged(rt) \in Runtimes
                             /\ aged(rt).confirmed = rt.confirmed /\ aged(rt).count = rt.count
                             /\ aged(rt).source = rt.source
                             /\ aged(rt).emission = Older(rt.emission, dt)
    <2>1. ASSUME NEW rt \in Runtimes
          PROVE  Older(rt.streak, dt) \in Int /\ Older(rt.emission, dt) \in Int
      <3>1. rt.streak \in Int /\ rt.emission \in Int
        BY DEF Runtimes
      <3> QED
        BY <1>0, <3>1 DEF Older
    <2> QED
      BY <2>1 DEF Runtimes
  <1>3. Aged(run, dt) = [j \in DOMAIN run |-> aged(run[j])]
    BY DEF Aged
  <1> HIDE DEF aged
  <1>4. Aged(run, dt) \in [DOMAIN run -> Runtimes]
    BY <1>1, <1>2, <1>3
  <1>5. Aged(run, dt) \in Runs
    BY <1>1, <1>4 DEF Runs
  <1>6. Older(Fresh.emission, dt) = Fresh.emission
    BY FreshFacts DEF Older
  <1> QED
    BY <1>1, <1>2, <1>3, <1>5, <1>6 DEF Own

\* What a rule finds in the tick.
Watched(rule, now) == rule.enabled /\ rule.target \in DOMAIN now
Measured(rule, now) == Watched(rule, now) /\ now[rule.target].rate # NoRate
Breach(rule, now) == Measured(rule, now) /\ now[rule.target].rate >= rule.threshold
UnderFloor(rule, now) ==
    Measured(rule, now) /\ 10 * now[rule.target].rate < 9 * rule.threshold

\* What it may make of the state of its target.
Waits(rt, new, rule, now) ==
    /\ new.confirmed = rt.confirmed /\ new.source = rt.source /\ new.emission = rt.emission
    /\ ~ rt.confirmed =>
          \/ new.count = 0
          \/ ~ Measured(rule, now) /\ new.count = rt.count
          \/ Breach(rule, now) /\ new.count = rt.count + 1
Raised(rt, new, rule, now) ==
    /\ ~ rt.confirmed /\ new.confirmed /\ Breach(rule, now)
    /\ new.source = now[rule.target].name
    /\ rule.mode = "Samples" => rt.count + 1 >= rule.hold
    /\ rule.notify => new.emission = 0
Recovers(rt, new, rule, now) ==
    /\ rt.confirmed /\ ~ new.confirmed /\ new.count = 0 /\ UnderFloor(rule, now)
Repeats(rt, new, rule, now) ==
    /\ rt.confirmed /\ new.confirmed /\ new.source = rt.source /\ new.emission = 0
    /\ rule.notify /\ ~ Cooling(rt, rule)

Announced(st, rule, severity) == [st EXCEPT !.pushed = @ \cup {<<rule.target, severity>>}]

\* What it may do to all that evaluate() has done so far.
Done(st, res, rule, now) ==
    \E new \in Runtimes, status \in Statuses :
       LET i == rule.target
           rt == Own(st.run, i)
       IN \/ /\ Waits(rt, new, rule, now)
             /\ res = Report(st, i, new, status)
          \/ /\ Raised(rt, new, rule, now)
             /\ res = Report(Emit(st, rule, rule.severity, now[i].name), i, new, status)
          \/ /\ Recovers(rt, new, rule, now)
             /\ res = Report(Emit(st, rule, "Normal", now[i].name), i, new, status)
          \/ /\ Repeats(rt, new, rule, now)
             /\ res = Report(Announced(st, rule, rule.severity), i, new, status)

LEMMA RuleFacts ==
    ASSUME NEW rule \in Rule
    PROVE  /\ rule.target \in Targets /\ rule.threshold \in Nat /\ rule.hold \in Nat
           /\ rule.cooldown \in Nat /\ rule.severity \in {"Warning", "Critical"}
           /\ rule.mode \in {"Samples", "Duration"}
           /\ rule.notify \in BOOLEAN /\ rule.enabled \in BOOLEAN /\ rule.repeat \in BOOLEAN
  BY TrafficAlertConstants DEF Rule

LEMMA EntryFacts ==
    ASSUME NEW now \in Known, NEW i \in DOMAIN now
    PROVE  now[i].rate \in Int /\ now[i].name \in Names /\ i \in Targets
  <1>1. now[i] \in Entries /\ i \in Targets
    BY DEF Known
  <1>2. Rates \cup {NoRate} \subseteq Int
    BY TrafficAlertConstants DEF NoRate
  <1> QED
    BY <1>1, <1>2 DEF Entries

LEMMA NeverFacts == Never \in Int
  BY DEF Never

\* A state with some fields changed.
Counted(rt, n, t) == [rt EXCEPT !.count = n, !.streak = t]
Opened(rt, n, t) == [rt EXCEPT !.confirmed = TRUE, !.source = n, !.emission = t]
Renewed(rt) == [rt EXCEPT !.emission = 0]

LEMMA CountedFacts ==
    ASSUME NEW rt \in Runtimes, NEW n \in Nat, NEW t \in Int
    PROVE  /\ Counted(rt, n, t) \in Runtimes
           /\ Counted(rt, n, t).confirmed = rt.confirmed
           /\ Counted(rt, n, t).source = rt.source
           /\ Counted(rt, n, t).emission = rt.emission
           /\ Counted(rt, n, t).count = n
  BY DEF Runtimes, Counted

LEMMA OpenedFacts ==
    ASSUME NEW rt \in Runtimes, NEW n \in Names, NEW t \in Int
    PROVE  /\ Opened(rt, n, t) \in Runtimes /\ Opened(rt, n, t).confirmed
           /\ Opened(rt, n, t).source = n /\ Opened(rt, n, t).emission = t
  BY DEF Runtimes, Opened

LEMMA RenewedFacts ==
    ASSUME NEW rt \in Runtimes
    PROVE  /\ Renewed(rt) \in Runtimes /\ Renewed(rt).confirmed = rt.confirmed
           /\ Renewed(rt).source = rt.source /\ Renewed(rt).emission = 0
  BY DEF Runtimes, Renewed

\* A violation counts one more, or none under a Duration rule.
LEMMA ViolatedFacts ==
    ASSUME NEW rt \in Runtimes, NEW rule
    PROVE  LET next == Violated(rt, rule)
           IN /\ next \in Runtimes /\ next.confirmed = rt.confirmed
              /\ next.source = rt.source /\ next.emission = rt.emission
              /\ next.count = IF rule.mode = "Samples" THEN rt.count + 1 ELSE 0
  <1>1. rt.count \in Nat /\ rt.streak \in Int
    BY DEF Runtimes
  <1>2. CASE rule.mode = "Samples"
    <2>1. Violated(rt, rule) = Counted(rt, rt.count + 1, Never)
      BY <1>2 DEF Violated, Counted
    <2>2. rt.count + 1 \in Nat
      BY <1>1
    <2>3. /\ Counted(rt, rt.count + 1, Never) \in Runtimes
          /\ Counted(rt, rt.count + 1, Never).confirmed = rt.confirmed
          /\ Counted(rt, rt.count + 1, Never).source = rt.source
          /\ Counted(rt, rt.count + 1, Never).emission = rt.emission
          /\ Counted(rt, rt.count + 1, Never).count = rt.count + 1
      BY Zenon, <2>2, NeverFacts, CountedFacts
    <2> QED
      BY Zenon, <1>2, <2>1, <2>3
  <1>3. CASE rule.mode # "Samples"
    <2> DEFINE streak == IF rt.streak = Never THEN 0 ELSE rt.streak
    <2>1. Violated(rt, rule) = Counted(rt, 0, streak)
      BY <1>3 DEF Violated, Counted
    <2>2. streak \in Int /\ 0 \in Nat
      BY <1>1
    <2> HIDE DEF streak
    <2>3. /\ Counted(rt, 0, streak) \in Runtimes /\ Counted(rt, 0, streak).confirmed = rt.confirmed
          /\ Counted(rt, 0, streak).source = rt.source /\ Counted(rt, 0, streak).emission = rt.emission
          /\ Counted(rt, 0, streak).count = 0
      BY Zenon, <2>2, CountedFacts
    <2> QED
      BY Zenon, <1>3, <2>1, <2>3
  <1> QED
    BY <1>2, <1>3

\* Outside an episode a rule waits or raises.
LEMMA UnconfirmedDoes ==
    ASSUME NEW st, NEW rule \in Rule, NEW now \in Known, Measured(rule, now),
           NEW rt \in Runtimes, rt = Own(st.run, rule.target), ~ rt.confirmed
    PROVE  LET i == rule.target
           IN Done(st, Unconfirmed(st, rule, rt, now[i].rate, now[i].name), rule, now)
  <1> DEFINE i == rule.target
             rate == now[i].rate
             source == now[i].name
             next == Violated(rt, rule)
             res == Unconfirmed(st, rule, rt, rate, source)
  <1>1. /\ i \in DOMAIN now /\ rate \in Int /\ source \in Names /\ rule.threshold \in Int
        /\ rule.hold \in Nat
    BY RuleFacts, EntryFacts DEF Measured, Watched
  <1>2. CASE rate < rule.threshold
    <2> DEFINE new == Counted(rt, 0, Never)
    <2>1. /\ new \in Runtimes /\ new.confirmed = rt.confirmed /\ new.source = rt.source
          /\ new.emission = rt.emission /\ new.count = 0
      BY Zenon, NeverFacts, CountedFacts, 0 \in Nat
    <2>2. res = Report(st, i, new, "Below")
      BY <1>2 DEF Unconfirmed, Counted
    <2> HIDE DEF new, res
    <2>3. Waits(rt, new, rule, now)
      BY Zenon, <2>1 DEF Waits
    <2> QED
      BY Zenon, <2>1, <2>2, <2>3 DEF Done, Statuses, res
  <1>3. CASE ~ (rate < rule.threshold)
    <2>1. Breach(rule, now)
      BY <1>1, <1>3 DEF Breach
    <2>2. /\ next \in Runtimes /\ next.confirmed = rt.confirmed /\ next.source = rt.source
          /\ next.emission = rt.emission
          /\ next.count = IF rule.mode = "Samples" THEN rt.count + 1 ELSE 0
      BY ViolatedFacts
    <2>3. CASE ~ Ripe(next, rule)
      <3>1. res = Report(st, i, next, "Pending")
        BY <1>3, <2>3 DEF Unconfirmed
      <3> HIDE DEF next, res
      <3>2. next.count = 0 \/ next.count = rt.count + 1
        BY Zenon, <2>2
      <3>3. Waits(rt, next, rule, now)
        BY Zenon, <2>1, <2>2, <3>2 DEF Waits
      <3> QED
        BY Zenon, <2>2, <3>1, <3>3 DEF Done, Statuses, res
    <2>4. CASE Ripe(next, rule)
      <3> DEFINE emission == IF rule.notify THEN 0 ELSE next.emission
                 new == Opened(next, source, emission)
      <3>1. res = Report(Emit(st, rule, rule.severity, source), i, new, "Exceeded")
        BY <1>3, <2>4 DEF Unconfirmed, Opened
      <3>2. rule.mode = "Samples" => rt.count + 1 >= rule.hold
        BY <2>2, <2>4 DEF Ripe
      <3> HIDE DEF next, res
      <3>4. emission \in Int /\ (rule.notify => emission = 0)
        <4>1. next.emission \in Int
          BY <2>2 DEF Runtimes
        <4> QED
          BY <4>1
      <3> HIDE DEF new, emission
      <3>6. /\ new \in Runtimes /\ new.confirmed /\ new.source = source
            /\ rule.notify => new.emission = 0
        <4>1. next \in Runtimes /\ source \in Names
          BY <1>1, <2>2
        <4> HIDE DEF source
        <4>2. /\ Opened(next, source, emission) \in Runtimes
              /\ Opened(next, source, emission).confirmed
              /\ Opened(next, source, emission).source = source
              /\ Opened(next, source, emission).emission = emission
          BY <4>1, <3>4, OpenedFacts
        <4> QED
          BY Zenon, <3>4, <4>2 DEF new
      <3>5. Raised(rt, new, rule, now)
        BY Zenon, <2>1, <3>2, <3>6 DEF Raised
      <3> QED
        BY Zenon, <3>1, <3>6, <3>5 DEF Done, Statuses, res
    <2> QED
      BY <2>3, <2>4
  <1> QED
    BY <1>2, <1>3

\* In an episode it waits, recovers or announces again.
LEMMA ConfirmedDoes ==
    ASSUME NEW st, NEW rule \in Rule, NEW now \in Known, Measured(rule, now),
           NEW rt \in Runtimes, rt = Own(st.run, rule.target), rt.confirmed
    PROVE  LET i == rule.target
           IN Done(st, Confirmed(st, rule, rt, now[i].rate, now[i].name), rule, now)
  <1> DEFINE i == rule.target
             rate == now[i].rate
             source == now[i].name
             res == Confirmed(st, rule, rt, rate, source)
  <1>1. /\ i \in DOMAIN now /\ rate \in Int /\ source \in Names /\ rule.threshold \in Int
    BY RuleFacts, EntryFacts DEF Measured, Watched
  <1>2. CASE BelowFloor(rate, rule)
    <2> DEFINE new == [Fresh EXCEPT !.source = rt.source]
    <2>1. new \in Runtimes /\ ~ new.confirmed /\ new.count = 0
      <3>1. rt.source \in Names \cup {NoName}
        BY DEF Runtimes
      <3> QED
        BY <3>1, FreshFacts DEF Runtimes
    <2>2. UnderFloor(rule, now)
      BY <1>2 DEF UnderFloor, BelowFloor
    <2>3. res = Report(Emit(st, rule, "Normal", source), i, new, "Recovered")
      BY <1>2 DEF Confirmed
    <2> HIDE DEF new, res
    <2>4. Recovers(rt, new, rule, now)
      BY Zenon, <2>1, <2>2 DEF Recovers
    <2> QED
      BY Zenon, <2>1, <2>3, <2>4 DEF Done, Statuses, res
  <1>3. CASE /\ ~ BelowFloor(rate, rule)
             /\ rate < rule.threshold \/ ~rule.repeat \/ ~rule.notify \/ Cooling(rt, rule)
    <2>1. \E status \in Statuses : res = Report(st, i, rt, status)
      <3>1. res = Report(st, i, rt, "Exceeded") \/ res = Report(st, i, rt, "Cooldown")
        BY Zenon, <1>3 DEF Confirmed
      <3> QED
        BY Zenon, <3>1 DEF Statuses
    <2>2. Waits(rt, rt, rule, now)
      BY Zenon DEF Waits
    <2> HIDE DEF res
    <2> QED
      BY Zenon, <2>1, <2>2 DEF Done, Statuses, res
  <1>4. CASE /\ ~ BelowFloor(rate, rule) /\ ~ (rate < rule.threshold)
             /\ rule.repeat /\ rule.notify /\ ~ Cooling(rt, rule)
    <2> DEFINE new == Renewed(rt)
    <2>1. new \in Runtimes /\ new.confirmed = rt.confirmed /\ new.source = rt.source
          /\ new.emission = 0
      BY Zenon, RenewedFacts
    <2>2. res = Report(Announced(st, rule, rule.severity), i, new, "Exceeded")
      BY Zenon, <1>4 DEF Confirmed, Announced, Renewed
    <2> HIDE DEF new, res
    <2>3. Repeats(rt, new, rule, now)
      BY Zenon, <1>4, <2>1 DEF Repeats
    <2> QED
      BY Zenon, <2>1, <2>2, <2>3 DEF Done, Statuses, res
  <1> QED
    BY Zenon, <1>2, <1>3, <1>4

\* Every path through one round of the loop is one of those, or forgets the state.
LEMMA EvaluatedDoes ==
    ASSUME NEW st \in Progress, NEW rule \in Rule, NEW now \in Known
    PROVE  LET res == Evaluated(st, rule, now)
           IN \/ /\ ~ Watched(rule, now)
                 /\ \E status \in Statuses : res = Forget(st, rule.target, status)
              \/ Watched(rule, now) /\ Done(st, res, rule, now)
  <1> DEFINE i == rule.target
             rt == Own(st.run, i)
             res == Evaluated(st, rule, now)
  <1>1. rt \in Runtimes /\ Runtime(st, i) = rt
    BY RuleFacts, OwnType DEF Progress, Runtime, Own
  <1>2. CASE ~ Watched(rule, now)
    <2>1. res = Forget(st, i, "Disabled") \/ res = Forget(st, i, "InterfaceUnavailable")
      BY Zenon, <1>2 DEF Watched, Evaluated
    <2> QED
      BY Zenon, <1>2, <2>1 DEF Statuses
  <1>3. CASE Watched(rule, now) /\ ~ Measured(rule, now)
    <2>1. \E status \in Statuses : res = Report(st, i, rt, status)
      <3>1. \/ res = Report(st, i, rt, "Exceeded")
            \/ res = Report(st, i, rt, "WaitingForBaseline")
        BY Zenon, <1>1, <1>3 DEF Watched, Measured, Evaluated
      <3> QED
        BY Zenon, <3>1 DEF Statuses
    <2>2. Waits(rt, rt, rule, now)
      BY Zenon, <1>3 DEF Waits
    <2> HIDE DEF res
    <2> QED
      BY Zenon, <1>1, <1>3, <2>1, <2>2 DEF Done, Statuses, res
  <1>4. CASE Measured(rule, now)
    <2>1. Watched(rule, now) /\ now[i].rate # NoRate
      BY <1>4 DEF Measured
    <2> HIDE DEF rt
    <2>2. CASE rt.confirmed
      <3>1. res = Confirmed(st, rule, rt, now[i].rate, now[i].name)
        BY Zenon, <1>1, <2>1, <2>2 DEF Watched, Evaluated
      <3> HIDE DEF res
      <3>2. Done(st, res, rule, now)
        BY Zenon, <1>1, <1>4, <2>2, <3>1, ConfirmedDoes DEF rt
      <3> QED
        BY Zenon, <2>1, <3>2 DEF res
    <2>3. CASE ~ rt.confirmed
      <3>1. res = Unconfirmed(st, rule, rt, now[i].rate, now[i].name)
        BY Zenon, <1>1, <2>1, <2>3 DEF Watched, Evaluated
      <3> HIDE DEF res
      <3>2. Done(st, res, rule, now)
        BY Zenon, <1>1, <1>4, <2>3, <3>1, UnconfirmedDoes DEF rt
      <3> QED
        BY Zenon, <2>1, <3>2 DEF res
    <2> QED
      BY <2>2, <2>3
  <1> QED
    BY <1>2, <1>3, <1>4 DEF Measured

\* What evaluate() has done, after each of the things it does.
LEMMA ReportFacts ==
    ASSUME NEW st \in Progress, NEW i \in Targets, NEW rt \in Runtimes, NEW status \in Statuses
    PROVE  /\ Report(st, i, rt, status) \in Progress
           /\ Report(st, i, rt, status).run = With(st.run, i, rt)
           /\ Report(st, i, rt, status).active = st.active
           /\ Report(st, i, rt, status).pushed = st.pushed
  <1>1. With(st.run, i, rt) \in Runs
    BY RunFacts DEF Progress
  <1>2. Append(st.statuses, status) \in Seq(Statuses)
    BY AppendProperties DEF Progress
  <1> DEFINE run == With(st.run, i, rt)
             all == Append(st.statuses, status)
  <1>3. Report(st, i, rt, status) = [st EXCEPT !.run = run, !.statuses = all]
    BY DEF Report
  <1> HIDE DEF run, all
  <1> QED
    BY <1>1, <1>2, <1>3 DEF Progress, run, all

LEMMA ForgetFacts ==
    ASSUME NEW st \in Progress, NEW i \in Targets, NEW status \in Statuses,
           Own(st.run, i).confirmed => Own(st.run, i).source \in Names
    PROVE  /\ Forget(st, i, status) \in Progress
           /\ Forget(st, i, status).run = Without(st.run, i)
           /\ Forget(st, i, status).active = Cleared(st.active, Own(st.run, i))
           /\ Forget(st, i, status).pushed = st.pushed
  <1>1. Without(st.run, i) \in Runs
    BY LessFacts DEF Progress
  <1>2. Append(st.statuses, status) \in Seq(Statuses)
    BY AppendProperties DEF Progress
  <1> DEFINE run == Without(st.run, i)
             all == Append(st.statuses, status)
             rt == Own(st.run, i)
             subjects == Cleared(st.active, rt)
  <1>3. Forget(st, i, status) = [st EXCEPT !.run = run, !.active = subjects, !.statuses = all]
    BY DEF Forget, Runtime, Own
  <1>4. subjects \in [Names -> Severities]
    <2>1. st.active \in [Names -> Severities] /\ "Normal" \in Severities
      BY DEF Progress, Severities
    <2> HIDE DEF rt
    <2>2. CASE rt.confirmed
      <3>1. subjects = [st.active EXCEPT ![rt.source] = "Normal"]
        BY Zenon, <2>2 DEF Cleared
      <3> QED
        BY <2>1, <3>1
    <2>3. CASE ~ rt.confirmed
      <3>1. subjects = st.active
        BY Zenon, <2>3 DEF Cleared
      <3> QED
        BY Zenon, <2>1, <3>1
    <2> QED
      BY <2>2, <2>3
  <1> HIDE DEF run, all, subjects
  <1> QED
    BY <1>1, <1>2, <1>3, <1>4 DEF Progress, run, all, subjects

Sent(st, rule, severity) ==
    IF rule.notify THEN st.pushed \cup {<<rule.target, severity>>} ELSE st.pushed

Marked(st, source, severity) == [st.active EXCEPT ![source] = severity]

LEMMA EmitFacts ==
    ASSUME NEW st \in Progress, NEW rule \in Rule, NEW severity \in Severities,
           NEW source \in Names
    PROVE  /\ Emit(st, rule, severity, source) \in Progress
           /\ Emit(st, rule, severity, source).run = st.run
           /\ Emit(st, rule, severity, source).active = Marked(st, source, severity)
           /\ Emit(st, rule, severity, source).pushed = Sent(st, rule, severity)
  <1> DEFINE announced == IF rule.notify THEN st.pushed \cup {<<rule.target, severity>>}
                          ELSE st.pushed
             subjects == [st.active EXCEPT ![source] = severity]
  <1>1. announced \in SUBSET (Targets \X Severities) /\ subjects \in [Names -> Severities]
    BY RuleFacts DEF Progress
  <1>2. Emit(st, rule, severity, source) = [st EXCEPT !.active = subjects, !.pushed = announced]
    BY DEF Emit, Progress
  <1> HIDE DEF announced, subjects
  <1> QED
    BY <1>1, <1>2 DEF Progress, Sent, Marked, announced, subjects

LEMMA AnnouncedFacts ==
    ASSUME NEW st \in Progress, NEW rule \in Rule
    PROVE  /\ Announced(st, rule, rule.severity) \in Progress
           /\ Announced(st, rule, rule.severity).run = st.run
           /\ Announced(st, rule, rule.severity).active = st.active
           /\ Announced(st, rule, rule.severity).pushed =
                 st.pushed \cup {<<rule.target, rule.severity>>}
  <1>1. rule.target \in Targets /\ rule.severity \in Severities
    BY RuleFacts DEF Severities
  <1>2. st.pushed \cup {<<rule.target, rule.severity>>} \in SUBSET (Targets \X Severities)
    BY <1>1 DEF Progress
  <1> QED
    BY <1>2 DEF Announced, Progress

-----------------------------------------------------------------------------
(* The dashboard.                                                          *)

\* Names do not change, and no two interfaces have the same.
NamesLast ==
    ~ CanRename /\ \A i, j \in Targets : FirstName[i] = FirstName[j] => i = j

Named(now) == \A i \in DOMAIN now : now[i].name = FirstName[i]

\* The subjects with an alert are those of the confirmed episodes.
Shown(run, subjects) ==
    /\ \A i \in Targets : Own(run, i).confirmed => Own(run, i).source = FirstName[i]
    /\ \A n \in Names :
          subjects[n] # "Normal" <=>
             \E i \in Targets : Own(run, i).confirmed /\ Own(run, i).source = n

\* A change of one interface's episode and of its name's alert together keeps the dashboard.
LEMMA ShownAfter ==
    ASSUME NamesLast,
           NEW run \in Runs, NEW subjects \in [Names -> Severities], Shown(run, subjects),
           NEW more \in Runs, NEW after \in [Names -> Severities], NEW i \in Targets,
           \A j \in Targets \ {i} : Own(more, j) = Own(run, j),
           \A n \in Names \ {FirstName[i]} : after[n] = subjects[n],
           Own(more, i).confirmed => Own(more, i).source = FirstName[i],
           after[FirstName[i]] # "Normal" <=> Own(more, i).confirmed
    PROVE  Shown(more, after)
  <1>1. ASSUME NEW j \in Targets, Own(more, j).confirmed
        PROVE  Own(more, j).source = FirstName[j]
    BY Zenon, <1>1 DEF Shown
  <1>2. ASSUME NEW n \in Names
        PROVE  after[n] # "Normal" <=>
                  \E j \in Targets : Own(more, j).confirmed /\ Own(more, j).source = n
    <2>1. CASE n = FirstName[i]
      <3>1. ASSUME NEW j \in Targets, Own(more, j).confirmed, Own(more, j).source = n
            PROVE  j = i
        BY Zenon, <1>1, <2>1, <3>1 DEF NamesLast
      <3> QED
        BY Zenon, <1>1, <2>1, <3>1
    <2>2. CASE n # FirstName[i]
      <3>1. after[n] = subjects[n]
        BY Zenon, <2>2
      <3>2. ASSUME NEW j \in Targets, Own(more, j).confirmed, Own(more, j).source = n
            PROVE  j # i
        BY Zenon, <2>2, <3>2
      <3>3. ASSUME NEW j \in Targets, Own(run, j).confirmed, Own(run, j).source = n
            PROVE  j # i
        BY Zenon, <2>2, <3>3 DEF Shown
      <3>4. subjects[n] # "Normal" <=>
               \E j \in Targets : Own(run, j).confirmed /\ Own(run, j).source = n
        BY Zenon DEF Shown
      <3>5. ASSUME NEW j \in Targets, Own(run, j).confirmed, Own(run, j).source = n
            PROVE  Own(more, j) = Own(run, j)
        <4>1. j # i
          BY Zenon, <3>3, <3>5
        <4> QED
          BY <4>1
      <3>6. ASSUME NEW j \in Targets, Own(more, j).confirmed, Own(more, j).source = n
            PROVE  Own(more, j) = Own(run, j)
        <4>1. j # i
          BY Zenon, <3>2, <3>6
        <4> QED
          BY <4>1
      <3>7. (\E j \in Targets : Own(run, j).confirmed /\ Own(run, j).source = n) =>
               \E j \in Targets : Own(more, j).confirmed /\ Own(more, j).source = n
        BY Zenon, <3>5
      <3>8. (\E j \in Targets : Own(more, j).confirmed /\ Own(more, j).source = n) =>
               \E j \in Targets : Own(run, j).confirmed /\ Own(run, j).source = n
        BY Zenon, <3>6
      <3> QED
        BY Zenon, <3>1, <3>4, <3>7, <3>8
    <2> QED
      BY <2>1, <2>2
  <1> QED
    BY Zenon, <1>1, <1>2 DEF Shown

LEMMA ReportShows ==
    ASSUME NamesLast,
           NEW st \in Progress, Shown(st.run, st.active), NEW i \in Targets,
           NEW new \in Runtimes, NEW status \in Statuses,
           NEW mid \in Progress, mid.run = st.run,
           \A n \in Names \ {FirstName[i]} : mid.active[n] = st.active[n],
           new.confirmed => new.source = FirstName[i],
           mid.active[FirstName[i]] # "Normal" <=> new.confirmed
    PROVE  /\ Report(mid, i, new, status) \in Progress
           /\ Shown(Report(mid, i, new, status).run, Report(mid, i, new, status).active)
  <1> DEFINE res == Report(mid, i, new, status)
  <1>1. /\ res \in Progress /\ res.run = With(st.run, i, new) /\ res.active = mid.active
    BY ReportFacts
  <1> HIDE DEF res
  <1>2. /\ st.run \in Runs /\ st.active \in [Names -> Severities]
        /\ res.run \in Runs /\ res.active \in [Names -> Severities]
    BY <1>1 DEF Progress
  <1>3. /\ Own(res.run, i) = new /\ \A j \in Targets \ {i} : Own(res.run, j) = Own(st.run, j)
    BY <1>1, <1>2, RunFacts
  <1>4. Shown(res.run, res.active)
    BY <1>1, <1>2, <1>3, ShownAfter
  <1> QED
    BY <1>1, <1>4 DEF res

\* One rule keeps the dashboard.
LEMMA EvaluatedShows ==
    ASSUME NamesLast,
           NEW st \in Progress, NEW rule \in Rule, NEW now \in Known, Named(now),
           Shown(st.run, st.active), NEW res, res = Evaluated(st, rule, now)
    PROVE  res \in Progress /\ Shown(res.run, res.active)
  <1> DEFINE i == rule.target
             rt == Own(st.run, i)
             name1 == FirstName[i]
  <1>1. /\ i \in Targets /\ name1 \in Names /\ rule.severity \in Severities
        /\ rule.severity # "Normal" /\ "Normal" \in Severities
        /\ st.run \in Runs /\ st.active \in [Names -> Severities]
        /\ st.active[name1] # "Normal" <=> rt.confirmed
        /\ rt.confirmed => rt.source = name1
    <2>1. i \in Targets /\ name1 \in Names /\ rule.severity \in {"Warning", "Critical"}
      BY RuleFacts, TrafficAlertConstants
    <2>2. rt.confirmed => rt.source = name1
      BY Zenon, <2>1 DEF Shown
    <2>3. ASSUME NEW j \in Targets, Own(st.run, j).confirmed, Own(st.run, j).source = name1
          PROVE  j = i
      <3>1. FirstName[j] = FirstName[i]
        BY Zenon, <2>3 DEF Shown
      <3> QED
        BY Zenon, <2>1, <3>1 DEF NamesLast
    <2>4. st.active[name1] # "Normal" <=> rt.confirmed
      BY Zenon, <2>1, <2>2, <2>3 DEF Shown
    <2> HIDE DEF i, rt, name1
    <2> QED
      BY <2>1, <2>2, <2>4 DEF Severities, Progress
  <1> HIDE DEF rt, name1, i
  <1>2. CASE /\ ~ Watched(rule, now)
             /\ \E status \in Statuses : res = Forget(st, rule.target, status)
    <2>1. PICK status \in Statuses : res = Forget(st, i, status)
      BY <1>2 DEF i
    <2>2. /\ res \in Progress /\ res.run = Without(st.run, i)
          /\ res.active = Cleared(st.active, rt)
      <3>1. rt.confirmed => rt.source \in Names
        BY Zenon, <1>1
      <3> QED
        <4>1. i \in Targets /\ (Own(st.run, i).confirmed => Own(st.run, i).source \in Names)
          BY Zenon, <1>1, <3>1 DEF rt
        <4>2. /\ Forget(st, i, status) \in Progress
              /\ Forget(st, i, status).run = Without(st.run, i)
              /\ Forget(st, i, status).active = Cleared(st.active, Own(st.run, i))
          BY Zenon, <4>1, ForgetFacts
        <4> QED
          BY Zenon, <2>1, <4>2 DEF rt
    <2>3. /\ Own(res.run, i) = Fresh /\ \A j \in Targets \ {i} : Own(res.run, j) = Own(st.run, j)
      BY <1>1, <2>2, LessFacts
    <2>4. /\ res.run \in Runs /\ res.active \in [Names -> Severities]
      BY <2>2 DEF Progress
    <2>5. /\ \A n \in Names \ {name1} : res.active[n] = st.active[n]
          /\ res.active[name1] = "Normal"
      <3>1. CASE rt.confirmed
        <4>1. res.active = [st.active EXCEPT ![name1] = "Normal"]
          BY Zenon, <1>1, <2>2, <3>1 DEF Cleared
        <4> QED
          BY <1>1, <4>1
      <3>2. CASE ~ rt.confirmed
        <4>1. res.active = st.active
          BY Zenon, <2>2, <3>2 DEF Cleared
        <4> QED
          BY Zenon, <1>1, <3>2, <4>1
      <3> QED
        BY <3>1, <3>2
    <2>6. ~ Own(res.run, i).confirmed
      BY Zenon, <2>3, FreshFacts
    <2>7. Shown(res.run, res.active)
      BY <1>1, <2>3, <2>4, <2>5, <2>6, ShownAfter DEF name1
    <2> QED
      BY <2>2, <2>7
  <1>3. CASE Watched(rule, now) /\ Done(st, res, rule, now)
    <2>1. i \in DOMAIN now /\ now[i].name = name1
      BY <1>3 DEF Watched, Named, i, name1
    <2>2. PICK new \in Runtimes, status \in Statuses :
             \/ /\ Waits(rt, new, rule, now)
                /\ res = Report(st, i, new, status)
             \/ /\ Raised(rt, new, rule, now)
                /\ res = Report(Emit(st, rule, rule.severity, name1), i, new, status)
             \/ /\ Recovers(rt, new, rule, now)
                /\ res = Report(Emit(st, rule, "Normal", name1), i, new, status)
             \/ /\ Repeats(rt, new, rule, now)
                /\ res = Report(Announced(st, rule, rule.severity), i, new, status)
      BY <1>3, <2>1 DEF Done, rt, i
    <2>4. CASE Waits(rt, new, rule, now) /\ res = Report(st, i, new, status)
      <3>1. /\ new.confirmed => new.source = name1
            /\ st.active[name1] # "Normal" <=> new.confirmed
        BY Zenon, <1>1, <2>4 DEF Waits
      <3>2. st.run = st.run /\ \A n \in Names \ {name1} : st.active[n] = st.active[n]
        OBVIOUS
      <3> QED
        BY Zenon, <1>1, <2>4, <3>1, <3>2, ReportShows DEF name1
    <2>5. CASE /\ Raised(rt, new, rule, now)
               /\ res = Report(Emit(st, rule, rule.severity, name1), i, new, status)
      <3> DEFINE sent == Emit(st, rule, rule.severity, name1)
      <3>1. /\ sent \in Progress /\ sent.run = st.run
            /\ sent.active = Marked(st, name1, rule.severity)
        <4>1. rule.severity \in Severities /\ "Normal" \in Severities /\ name1 \in Names
          BY <1>1
        <4> QED
          BY Zenon, <4>1, EmitFacts
      <3> HIDE DEF sent
      <3>2. sent.active[name1] # "Normal" /\ \A n \in Names \ {name1} : sent.active[n] = st.active[n]
        BY <1>1, <3>1 DEF Marked
      <3>3. new.confirmed /\ new.source = name1
        BY Zenon, <2>1, <2>5 DEF Raised, i
      <3>4. /\ new.confirmed => new.source = name1
            /\ sent.active[name1] # "Normal" <=> new.confirmed
        BY Zenon, <3>2, <3>3
      <3>5. Report(sent, i, new, status) = res
        BY <2>5 DEF sent
      <3> QED
        BY Zenon, <1>1, <3>1, <3>2, <3>4, <3>5, ReportShows DEF name1
    <2>6. CASE /\ Recovers(rt, new, rule, now)
               /\ res = Report(Emit(st, rule, "Normal", name1), i, new, status)
      <3> DEFINE sent == Emit(st, rule, "Normal", name1)
      <3>1. /\ sent \in Progress /\ sent.run = st.run
            /\ sent.active = Marked(st, name1, "Normal")
        <4>1. rule.severity \in Severities /\ "Normal" \in Severities /\ name1 \in Names
          BY <1>1
        <4> QED
          BY Zenon, <4>1, EmitFacts
      <3> HIDE DEF sent
      <3>2. sent.active[name1] = "Normal" /\ \A n \in Names \ {name1} : sent.active[n] = st.active[n]
        BY <1>1, <3>1 DEF Marked
      <3>3. ~ new.confirmed
        BY Zenon, <2>6 DEF Recovers
      <3>4. /\ new.confirmed => new.source = name1
            /\ sent.active[name1] # "Normal" <=> new.confirmed
        BY Zenon, <3>2, <3>3
      <3>5. Report(sent, i, new, status) = res
        BY <2>6 DEF sent
      <3> QED
        BY Zenon, <1>1, <3>1, <3>2, <3>4, <3>5, ReportShows DEF name1
    <2>7. CASE /\ Repeats(rt, new, rule, now)
               /\ res = Report(Announced(st, rule, rule.severity), i, new, status)
      <3> DEFINE sent == Announced(st, rule, rule.severity)
      <3>1. sent \in Progress /\ sent.run = st.run /\ sent.active = st.active
        BY Zenon, AnnouncedFacts
      <3> HIDE DEF sent
      <3>2. \A n \in Names \ {name1} : sent.active[n] = st.active[n]
        BY Zenon, <3>1
      <3>3. /\ new.confirmed => new.source = name1
            /\ sent.active[name1] # "Normal" <=> new.confirmed
        BY Zenon, <1>1, <2>7, <3>1 DEF Repeats
      <3>5. Report(sent, i, new, status) = res
        BY <2>7 DEF sent
      <3> QED
        BY Zenon, <1>1, <3>1, <3>2, <3>3, <3>5, ReportShows DEF name1
    <2> QED
      BY Zenon, <2>2, <2>4, <2>5, <2>6, <2>7
  <1> QED
    BY Zenon, <1>2, <1>3, EvaluatedDoes

Told(announced, i) == \E severity \in {"Warning", "Critical"} : <<i, severity>> \in announced

Sourced(run) == \A i \in Targets : Own(run, i).confirmed => Own(run, i).source \in Names

\* What a rule makes of the state of its target, and whether it announces it.
Outcome(rt, new, told, rule, now) ==
    \/ ~ Watched(rule, now) /\ new = Fresh /\ ~ told
    \/ /\ Watched(rule, now)
       /\ \/ Waits(rt, new, rule, now) /\ ~ told
          \/ Raised(rt, new, rule, now) /\ (told => rule.notify)
          \/ Recovers(rt, new, rule, now) /\ ~ told
          \/ Repeats(rt, new, rule, now)

LEMMA ToldFacts ==
    ASSUME NEW announced, NEW i, NEW severity
    PROVE  /\ ~ Told(announced, i) /\ severity = "Normal" =>
                 ~ Told(announced \cup {<<i, severity>>}, i)
           /\ \A j : j # i => (Told(announced \cup {<<i, severity>>}, j) <=> Told(announced, j))
  <1>1. \A j, other : <<j, other>> \in announced \cup {<<i, severity>>} <=>
                         <<j, other>> \in announced \/ (j = i /\ other = severity)
    OBVIOUS
  <1>2. "Normal" # "Warning" /\ "Normal" # "Critical"
    OBVIOUS
  <1> QED
    BY Zenon, <1>1, <1>2 DEF Told

\* A rule changes its target's state and nothing else of the states and announcements.
LEMMA EvaluatedIsLocal ==
    ASSUME NEW st \in Progress, NEW rule \in Rule, NEW now \in Known, Sourced(st.run),
           NEW res, res = Evaluated(st, rule, now)
    PROVE  /\ res \in Progress /\ Sourced(res.run)
           /\ \A j \in Targets \ {rule.target} :
                 /\ Own(res.run, j) = Own(st.run, j)
                 /\ Told(res.pushed, j) <=> Told(st.pushed, j)
           /\ ~ Told(st.pushed, rule.target) =>
                 Outcome(Own(st.run, rule.target), Own(res.run, rule.target),
                         Told(res.pushed, rule.target), rule, now)
  <1> DEFINE i == rule.target
             rt == Own(st.run, i)
  <1>1. /\ i \in Targets /\ rule.severity \in Severities /\ "Normal" \in Severities
        /\ st.run \in Runs /\ rt \in Runtimes
    BY RuleFacts, OwnType DEF Severities, Progress
  <1>2. rt.confirmed => rt.source \in Names
    BY Zenon, <1>1 DEF Sourced
  <1> HIDE DEF rt
  <1>3. ASSUME NEW new \in Runtimes, new.confirmed => new.source \in Names,
               res.run \in Runs, Own(res.run, i) = new,
               \A j \in Targets \ {i} : Own(res.run, j) = Own(st.run, j)
        PROVE  Sourced(res.run)
    <2>1. ASSUME NEW j \in Targets, Own(res.run, j).confirmed
          PROVE  Own(res.run, j).source \in Names
      <3>1. CASE j = i
        BY Zenon, <1>3, <2>1, <3>1
      <3>2. CASE j # i
        <4>1. Own(res.run, j) = Own(st.run, j)
          BY <1>3, <3>2
        <4> QED
          BY Zenon, <2>1, <4>1 DEF Sourced
      <3> QED
        BY <3>1, <3>2
    <2> QED
      BY Zenon, <2>1 DEF Sourced
  <1>4. CASE /\ ~ Watched(rule, now)
             /\ \E status \in Statuses : res = Forget(st, rule.target, status)
    <2>1. PICK status \in Statuses : res = Forget(st, i, status)
      BY <1>4
    <2>2. res \in Progress /\ res.run = Without(st.run, i) /\ res.pushed = st.pushed
      <3>1. i \in Targets /\ (Own(st.run, i).confirmed => Own(st.run, i).source \in Names)
        BY Zenon, <1>1, <1>2 DEF rt
      <3>2. /\ Forget(st, i, status) \in Progress
            /\ Forget(st, i, status).run = Without(st.run, i)
            /\ Forget(st, i, status).pushed = st.pushed
        BY Zenon, <3>1, ForgetFacts
      <3> QED
        BY Zenon, <2>1, <3>2
    <2>3. /\ Own(res.run, i) = Fresh /\ \A j \in Targets \ {i} : Own(res.run, j) = Own(st.run, j)
          /\ res.run \in Runs
      BY <1>1, <2>2, LessFacts
    <2>4. Sourced(res.run)
      BY Zenon, <1>3, <2>3, FreshFacts
    <2>5. ~ Told(st.pushed, i) => Outcome(rt, Own(res.run, i), Told(res.pushed, i), rule, now)
      BY Zenon, <1>4, <2>2, <2>3 DEF Outcome
    <2>6. \A j \in Targets \ {i} : Told(res.pushed, j) <=> Told(st.pushed, j)
      BY Zenon, <2>2
    <2> QED
      BY Zenon, <2>2, <2>3, <2>4, <2>5, <2>6 DEF rt
  <1>5. CASE Watched(rule, now) /\ Done(st, res, rule, now)
    <2> DEFINE source == now[i].name
    <2>1. source \in Names
      BY <1>5, EntryFacts DEF Watched
    <2> HIDE DEF source
    <2>2. PICK new \in Runtimes, status \in Statuses :
             \/ /\ Waits(rt, new, rule, now)
                /\ res = Report(st, i, new, status)
             \/ /\ Raised(rt, new, rule, now)
                /\ res = Report(Emit(st, rule, rule.severity, source), i, new, status)
             \/ /\ Recovers(rt, new, rule, now)
                /\ res = Report(Emit(st, rule, "Normal", source), i, new, status)
             \/ /\ Repeats(rt, new, rule, now)
                /\ res = Report(Announced(st, rule, rule.severity), i, new, status)
      BY Zenon, <1>5 DEF Done, rt, source
    <2>3. ASSUME NEW mid \in Progress, mid.run = st.run, res = Report(mid, i, new, status),
                 new.confirmed => new.source \in Names,
                 \A j \in Targets \ {i} : Told(mid.pushed, j) <=> Told(st.pushed, j),
                 ~ Told(st.pushed, i) => Outcome(rt, new, Told(mid.pushed, i), rule, now)
          PROVE  /\ res \in Progress /\ Sourced(res.run)
                 /\ \A j \in Targets \ {i} :
                       /\ Own(res.run, j) = Own(st.run, j)
                       /\ Told(res.pushed, j) <=> Told(st.pushed, j)
                 /\ ~ Told(st.pushed, i) =>
                       Outcome(rt, Own(res.run, i), Told(res.pushed, i), rule, now)
      <3>1. /\ res \in Progress /\ res.run = With(st.run, i, new) /\ res.pushed = mid.pushed
        BY <1>1, <2>3, ReportFacts
      <3>2. /\ Own(res.run, i) = new /\ \A j \in Targets \ {i} : Own(res.run, j) = Own(st.run, j)
            /\ res.run \in Runs
        BY <1>1, <3>1, RunFacts
      <3>3. Sourced(res.run)
        BY Zenon, <1>3, <2>3, <3>2
      <3> QED
        BY Zenon, <2>3, <3>1, <3>2, <3>3
    <2>4. CASE Waits(rt, new, rule, now) /\ res = Report(st, i, new, status)
      <3>1. /\ new.confirmed => new.source \in Names
            /\ ~ Told(st.pushed, i) => Outcome(rt, new, Told(st.pushed, i), rule, now)
        BY Zenon, <1>2, <1>5, <2>4 DEF Waits, Outcome
      <3> QED
        BY Zenon, <2>3, <2>4, <3>1 DEF rt
    <2>5. CASE /\ Raised(rt, new, rule, now)
               /\ res = Report(Emit(st, rule, rule.severity, source), i, new, status)
      <3> DEFINE sent == Emit(st, rule, rule.severity, source)
      <3>1. sent \in Progress /\ sent.run = st.run /\ sent.pushed = Sent(st, rule, rule.severity)
        BY Zenon, <1>1, <2>1, EmitFacts
      <3>2. res = Report(sent, i, new, status)
        BY <2>5
      <3> HIDE DEF sent
      <3>3. new.confirmed => new.source \in Names
        BY Zenon, <2>1, <2>5 DEF Raised, source
      <3>4. /\ \A j \in Targets \ {i} : Told(sent.pushed, j) <=> Told(st.pushed, j)
            /\ ~ Told(st.pushed, i) /\ Told(sent.pushed, i) => rule.notify
        <4>1. CASE rule.notify
          <5>1. sent.pushed = st.pushed \cup {<<i, rule.severity>>}
            BY Zenon, <3>1, <4>1 DEF Sent
          <5>2. ASSUME NEW j \in Targets \ {i} PROVE Told(sent.pushed, j) <=> Told(st.pushed, j)
            <6>1. j # i
              BY <5>2
            <6>2. Told(st.pushed \cup {<<i, rule.severity>>}, j) <=> Told(st.pushed, j)
              BY Zenon, <6>1, ToldFacts
            <6> QED
              BY <5>1, <6>2
          <5> QED
            BY Zenon, <4>1, <5>2
        <4>2. CASE ~ rule.notify
          <5>1. sent.pushed = st.pushed
            BY Zenon, <3>1, <4>2 DEF Sent
          <5> QED
            BY Zenon, <5>1
        <4> QED
          BY <4>1, <4>2
      <3>5. ~ Told(st.pushed, i) => Outcome(rt, new, Told(sent.pushed, i), rule, now)
        BY Zenon, <1>5, <2>5, <3>4 DEF Outcome
      <3> QED
        BY Zenon, <2>3, <3>1, <3>2, <3>3, <3>4, <3>5 DEF rt
    <2>6. CASE /\ Recovers(rt, new, rule, now)
               /\ res = Report(Emit(st, rule, "Normal", source), i, new, status)
      <3> DEFINE sent == Emit(st, rule, "Normal", source)
      <3>1. sent \in Progress /\ sent.run = st.run /\ sent.pushed = Sent(st, rule, "Normal")
        BY Zenon, <1>1, <2>1, EmitFacts
      <3>2. res = Report(sent, i, new, status)
        BY <2>6
      <3> HIDE DEF sent
      <3>3. new.confirmed => new.source \in Names
        BY Zenon, <2>6 DEF Recovers
      <3>4. /\ \A j \in Targets \ {i} : Told(sent.pushed, j) <=> Told(st.pushed, j)
            /\ ~ Told(st.pushed, i) => ~ Told(sent.pushed, i)
        <4>1. CASE rule.notify
          <5>1. sent.pushed = st.pushed \cup {<<i, "Normal">>}
            BY Zenon, <3>1, <4>1 DEF Sent
          <5>2. ASSUME NEW j \in Targets \ {i} PROVE Told(sent.pushed, j) <=> Told(st.pushed, j)
            <6>1. j # i
              BY <5>2
            <6>2. Told(st.pushed \cup {<<i, "Normal">>}, j) <=> Told(st.pushed, j)
              BY Zenon, <6>1, ToldFacts
            <6> QED
              BY <5>1, <6>2
          <5>3. ~ Told(st.pushed, i) => ~ Told(sent.pushed, i)
            BY Zenon, <5>1, ToldFacts
          <5> QED
            BY Zenon, <5>2, <5>3
        <4>2. CASE ~ rule.notify
          <5>1. sent.pushed = st.pushed
            BY Zenon, <3>1, <4>2 DEF Sent
          <5> QED
            BY Zenon, <5>1
        <4> QED
          BY <4>1, <4>2
      <3>5. ~ Told(st.pushed, i) => Outcome(rt, new, Told(sent.pushed, i), rule, now)
        BY Zenon, <1>5, <2>6, <3>4 DEF Outcome
      <3> QED
        BY Zenon, <2>3, <3>1, <3>2, <3>3, <3>4, <3>5 DEF rt
    <2>7. CASE /\ Repeats(rt, new, rule, now)
               /\ res = Report(Announced(st, rule, rule.severity), i, new, status)
      <3> DEFINE sent == Announced(st, rule, rule.severity)
      <3>1. /\ sent \in Progress /\ sent.run = st.run
            /\ sent.pushed = st.pushed \cup {<<i, rule.severity>>}
        BY Zenon, AnnouncedFacts
      <3>2. res = Report(sent, i, new, status)
        BY <2>7
      <3> HIDE DEF sent
      <3>3. new.confirmed => new.source \in Names
        BY Zenon, <1>2, <2>7 DEF Repeats
      <3>4. ASSUME NEW j \in Targets \ {i} PROVE Told(sent.pushed, j) <=> Told(st.pushed, j)
        <4>1. j # i
          BY <3>4
        <4>2. Told(st.pushed \cup {<<i, rule.severity>>}, j) <=> Told(st.pushed, j)
          BY Zenon, <4>1, ToldFacts
        <4> QED
          BY <3>1, <4>2
      <3>5. Outcome(rt, new, Told(sent.pushed, i), rule, now)
        BY Zenon, <1>5, <2>7 DEF Outcome
      <3> QED
        BY Zenon, <2>3, <3>1, <3>2, <3>3, <3>4, <3>5 DEF rt
    <2> QED
      BY Zenon, <2>2, <2>4, <2>5, <2>6, <2>7
  <1> QED
    BY Zenon, <1>4, <1>5, EvaluatedDoes

\* What evaluate() has done after each rule, inside V.
EvaluationOf(V, begin, now) ==
    \E run \in [0 .. Len(rules) -> V] :
       /\ run[0] = begin /\ run[Len(rules)] = Evaluation(begin, now)
       /\ \A k \in DOMAIN rules : run[k] = Evaluated(run[k - 1], rules[k], now)

\* The rules run one after the other.
LEMMA EvaluationRuns ==
    ASSUME NEW V, NEW begin \in V, NEW now, rules \in Seq(Rule),
           \A st \in V, k \in DOMAIN rules : Evaluated(st, rules[k], now) \in V
    PROVE  EvaluationOf(V, begin, now)
  <1> DEFINE n == Len(rules)
             body == [k \in 1 .. n |-> [st \in V |-> Evaluated(st, rules[k], now)]]
             step(f, k) == IF k = 0 THEN begin ELSE Evaluated(f[k - 1], rules[k], now)
             chosen == CHOOSE f : f = [k \in 0 .. n |-> step(f, k)]
  <1>1. n \in Nat /\ DOMAIN rules = 1 .. n
    BY LenProperties
  <1>2. Evaluation(begin, now) = chosen[n]
    BY DEF Evaluation
  <1>3. body \in [1 .. n -> [V -> V]]
    BY <1>1
  <1>4. PICK run \in [0 .. n -> V] : run[0] = begin /\ \A k \in 1 .. n : run[k] = body[k][run[k - 1]]
    <2> HIDE DEF n, body
    <2>1. LoopOf(n, V, begin, body)
      BY <1>1, <1>3, LoopRuns
    <2> QED
      BY Zenon, <2>1 DEF LoopOf
  <1>5. \A k \in 1 .. n : run[k] = Evaluated(run[k - 1], rules[k], now)
    <2> HIDE DEF n
    <2>1. \A k \in 1 .. n : k - 1 \in 0 .. n
      BY <1>1
    <2> QED
      BY <1>4, <2>1
  <1>6. run = [k \in 0 .. n |-> step(run, k)]
    <2> HIDE DEF n
    <2>1. \A k \in 0 .. n : run[k] = step(run, k)
      <3>1. \A k \in 0 .. n : k # 0 => k \in 1 .. n
        BY <1>1
      <3> QED
        BY <1>4, <1>5, <3>1
    <2> QED
      BY <1>4, <2>1
  <1>7. chosen = [k \in 0 .. n |-> step(chosen, k)]
    <2> HIDE DEF n, step
    <2> QED
      BY Zenon, <1>6
  <1>8. \A k \in 0 .. n : chosen[k] = step(chosen, k)
    <2> HIDE DEF n, step, chosen
    <2> QED
      BY <1>7
  <1>9. \A k \in 0 .. n : chosen[k] = run[k]
    <2> DEFINE same == {k \in 0 .. n : chosen[k] = run[k]}
    <2> HIDE DEF n, chosen
    <2>1. 0 \in same
      BY <1>1, <1>4, <1>8
    <2>2. ASSUME NEW k \in 1 .. n, k - 1 \in same PROVE k \in same
      <3>1. k \in 0 .. n /\ k # 0 /\ chosen[k - 1] = run[k - 1]
        BY <1>1, <2>2
      <3>2. chosen[k] = Evaluated(chosen[k - 1], rules[k], now)
        BY <1>8, <3>1
      <3> QED
        BY <1>5, <3>1, <3>2
    <2> HIDE DEF same
    <2>3. 0 .. n \subseteq same
      BY <1>1, <2>1, <2>2, LoopKeeps
    <2> QED
      BY <2>3 DEF same
  <1>10. chosen[n] = run[n]
    <2> HIDE DEF n, chosen
    <2> QED
      BY <1>1, <1>9
  <1> HIDE DEF chosen, body
  <1> QED
    BY <1>1, <1>2, <1>4, <1>5, <1>10 DEF EvaluationOf

Ruled(run) ==
    \A i \in Targets : Own(run, i).confirmed => \E k \in DOMAIN rules : rules[k].target = i

\* Every confirmed episode has its rule, and the alert of its name is active.
ShownInv ==
    /\ rules \in RuleSets /\ name = FirstName
    /\ tick \in Known /\ Named(tick) /\ present \subseteq Targets
    /\ states \in Runs /\ active \in [Names -> Severities]
    /\ Shown(states, active) /\ Ruled(states)

LEMMA RulesFacts ==
    ASSUME rules \in RuleSets
    PROVE  /\ rules \in Seq(Rule) /\ \A k \in DOMAIN rules : rules[k] \in Rule
           /\ \A j, k \in DOMAIN rules : rules[j].target = rules[k].target => j = k
  <1>1. rules \in Seq(Rule) /\ \A j, k \in DOMAIN rules : rules[j].target = rules[k].target => j = k
    BY Zenon, TrafficAlertConstants
  <1> QED
    BY <1>1, ElementOfSeq

LEMMA NothingFacts ==
    /\ Nothing \in Runs /\ Nothing \in Known /\ DOMAIN Nothing = {}
    /\ \A i : Own(Nothing, i) = Fresh
  <1>1. Nothing \in [{} -> Runtimes] /\ Nothing \in [{} -> Entries] /\ DOMAIN Nothing = {}
    BY DEF Nothing
  <1> QED
    BY <1>1 DEF Runs, Known, Own

LEMMA RecordedFacts ==
    ASSUME tick \in Known, NEW seen \in SUBSET Targets, NEW called \in [Targets -> Names],
           NEW measured \in [seen -> Rates \cup {NoRate}]
    PROVE  /\ Recorded(measured, called) \in Known
           /\ DOMAIN Recorded(measured, called) = seen \cup DOMAIN tick
           /\ \A i \in seen : /\ Recorded(measured, called)[i].rate = measured[i]
                              /\ Recorded(measured, called)[i].name = called[i]
           /\ \A i \in DOMAIN tick \ seen : Recorded(measured, called)[i] = tick[i]
  <1>1. DOMAIN tick \in SUBSET Targets /\ \A i \in DOMAIN tick : tick[i] \in Entries
    BY DEF Known
  <1>2. \A i \in seen : [rate |-> measured[i], name |-> called[i]] \in Entries
    BY DEF Entries
  <1> DEFINE now == Recorded(measured, called)
  <1>3. /\ DOMAIN now = seen \cup DOMAIN tick /\ now = [i \in DOMAIN now |-> now[i]]
        /\ \A i \in seen : now[i] = [rate |-> measured[i], name |-> called[i]]
        /\ \A i \in DOMAIN tick \ seen : now[i] = tick[i]
    BY DEF Recorded
  <1> HIDE DEF now
  <1>4. \A i \in DOMAIN now : now[i] \in Entries
    BY <1>1, <1>2, <1>3
  <1>5. now \in Known
    <2>1. now \in [DOMAIN now -> Entries] /\ DOMAIN now \in SUBSET Targets
      BY <1>1, <1>3, <1>4
    <2> QED
      BY <2>1 DEF Known
  <1> QED
    BY <1>3, <1>5 DEF now

\* What evaluate() starts with.
Begin(dt) == [run |-> Aged(states, dt), active |-> active, pushed |-> {}, statuses |-> << >>]

LEMMA BeginFacts ==
    ASSUME states \in Runs, active \in [Names -> Severities], NEW dt \in Nat
    PROVE  /\ Begin(dt) \in Progress /\ Begin(dt).run = Aged(states, dt)
           /\ Begin(dt).active = active /\ Begin(dt).pushed = {}
  <1>1. Aged(states, dt) \in Runs
    BY AgedFacts
  <1> QED
    BY <1>1 DEF Begin, Progress

\* What a refresh does.
LEMMA RefreshDoes ==
    ASSUME Refresh
    PROVE  \E seen \in IF CanVanish THEN SUBSET Targets ELSE {present},
              called \in IF CanRename THEN [Targets -> Names] ELSE {name},
              dt \in Elapsed :
           \E measured \in [seen -> Rates \cup {NoRate}] :
              /\ present' = seen /\ name' = called /\ tick' = Recorded(measured, called)
              /\ states' = Evaluation(Begin(dt), tick').run
              /\ active' = Evaluation(Begin(dt), tick').active
              /\ pushed' = Evaluation(Begin(dt), tick').pushed
              /\ above' = [i \in Targets |->
                    IF i \notin seen \/ RuleOn(i) = {} THEN 0
                    ELSE IF measured[i] = NoRate THEN above[i]
                    ELSE IF \E rule \in RuleOn(i) : measured[i] >= rule.threshold
                    THEN IF above[i] > MaxAge THEN above[i] ELSE above[i] + 1 ELSE 0]
              /\ rules' = rules /\ edits' = edits
  <1>1. PICK seen \in IF CanVanish THEN SUBSET Targets ELSE {present},
             called \in IF CanRename THEN [Targets -> Names] ELSE {name},
             dt \in Elapsed :
        \E measured \in [seen -> Rates \cup {NoRate}] :
           LET now == Recorded(measured, called)
               end == Evaluation([run |-> Aged(states, dt), active |-> active,
                                  pushed |-> {}, statuses |-> << >>], now)
           IN  /\ \A i, j \in seen : called[i] = called[j] => i = j
               /\ present' = seen /\ name' = called /\ tick' = now
               /\ states' = end.run /\ active' = end.active
               /\ pushed' = end.pushed /\ statuses' = end.statuses
               /\ above' = [i \in Targets |->
                     IF i \notin seen \/ RuleOn(i) = {} THEN 0
                     ELSE IF measured[i] = NoRate THEN above[i]
                     ELSE IF \E rule \in RuleOn(i) : measured[i] >= rule.threshold
                     THEN IF above[i] > MaxAge THEN above[i] ELSE above[i] + 1 ELSE 0]
               /\ beat' = 1 - beat
               /\ UNCHANGED <<rules, edits>>
    BY Zenon DEF Refresh
  <1>2. PICK measured \in [seen -> Rates \cup {NoRate}] :
           /\ present' = seen /\ name' = called /\ tick' = Recorded(measured, called)
           /\ states' = Evaluation(Begin(dt), Recorded(measured, called)).run
           /\ active' = Evaluation(Begin(dt), Recorded(measured, called)).active
           /\ pushed' = Evaluation(Begin(dt), Recorded(measured, called)).pushed
           /\ above' = [i \in Targets |->
                 IF i \notin seen \/ RuleOn(i) = {} THEN 0
                 ELSE IF measured[i] = NoRate THEN above[i]
                 ELSE IF \E rule \in RuleOn(i) : measured[i] >= rule.threshold
                 THEN IF above[i] > MaxAge THEN above[i] ELSE above[i] + 1 ELSE 0]
           /\ UNCHANGED <<rules, edits>>
    BY Zenon, <1>1 DEF Begin
  <1>3. rules' = rules /\ edits' = edits
    BY <1>2
  <1> QED
    BY Zenon, <1>2, <1>3

LEMMA ShownSourced ==
    ASSUME NEW run, NEW subjects, Shown(run, subjects)
    PROVE  Sourced(run)
  BY TrafficAlertConstants DEF Shown, Sourced

LEMMA InitShown == Init => ShownInv
  <1> SUFFICES ASSUME Init PROVE ShownInv
    OBVIOUS
  <1>1. /\ rules \in RuleSets /\ name = FirstName /\ tick = Nothing /\ present \subseteq Targets
        /\ states = Nothing /\ active = [n \in Names |-> "Normal"]
    BY DEF Init
  <1>2. active \in [Names -> Severities] /\ \A n \in Names : active[n] = "Normal"
    BY <1>1 DEF Severities
  <1>3. \A i : ~ Own(states, i).confirmed
    BY <1>1, NothingFacts, FreshFacts
  <1>4. Shown(states, active) /\ Ruled(states)
    BY Zenon, <1>2, <1>3 DEF Shown, Ruled
  <1> QED
    BY <1>1, <1>2, <1>4, NothingFacts DEF ShownInv, Named

LEMMA AgedShows ==
    ASSUME NEW run \in Runs, NEW subjects, NEW dt \in Nat, Shown(run, subjects), Ruled(run)
    PROVE  Shown(Aged(run, dt), subjects) /\ Ruled(Aged(run, dt))
  <1>1. \A i \in Targets : /\ Own(Aged(run, dt), i).confirmed = Own(run, i).confirmed
                           /\ Own(Aged(run, dt), i).source = Own(run, i).source
    BY AgedFacts
  <1>2. Shown(Aged(run, dt), subjects)
    <2>1. ASSUME NEW i \in Targets, Own(Aged(run, dt), i).confirmed
          PROVE  Own(Aged(run, dt), i).source = FirstName[i]
      <3>1. Own(run, i).confirmed
        BY <1>1, <2>1
      <3>2. Own(run, i).source = FirstName[i]
        BY Zenon, <3>1 DEF Shown
      <3> QED
        BY <1>1, <3>2
    <2>2. ASSUME NEW n \in Names, NEW i \in Targets
          PROVE  Own(Aged(run, dt), i).confirmed /\ Own(Aged(run, dt), i).source = n <=>
                    Own(run, i).confirmed /\ Own(run, i).source = n
      BY <1>1
    <2> QED
      BY Zenon, <2>1, <2>2 DEF Shown
  <1>3. Ruled(Aged(run, dt))
    BY <1>1 DEF Ruled
  <1> QED
    BY <1>2, <1>3

\* The loop keeps the dashboard.
LEMMA RulesShow ==
    ASSUME NamesLast, ShownInv, NEW dt \in Nat, NEW now \in Known, Named(now)
    PROVE  /\ Evaluation(Begin(dt), now) \in Progress
           /\ Shown(Evaluation(Begin(dt), now).run, Evaluation(Begin(dt), now).active)
           /\ Ruled(Evaluation(Begin(dt), now).run)
  <1> DEFINE V == {st \in Progress : Shown(st.run, st.active) /\ Ruled(st.run)}
             begin == Begin(dt)
  <1>1. /\ states \in Runs /\ active \in [Names -> Severities]
        /\ Shown(states, active) /\ Ruled(states)
        /\ rules \in Seq(Rule) /\ \A k \in DOMAIN rules : rules[k] \in Rule
    BY Zenon, RulesFacts DEF ShownInv
  <1>2. begin \in V
    <2>1. begin \in Progress /\ begin.run = Aged(states, dt) /\ begin.active = active
      BY <1>1, BeginFacts
    <2>2. Shown(Aged(states, dt), active) /\ Ruled(Aged(states, dt))
      BY <1>1, AgedShows
    <2> HIDE DEF begin
    <2> QED
      BY <2>1, <2>2
  <1>3. ASSUME NEW st \in V, NEW k \in DOMAIN rules
        PROVE  Evaluated(st, rules[k], now) \in V
    <2> DEFINE res == Evaluated(st, rules[k], now)
               rule == rules[k]
    <2>1. st \in Progress /\ Shown(st.run, st.active) /\ Ruled(st.run) /\ rule \in Rule
      BY <1>1
    <2>2. Sourced(st.run)
      BY Zenon, <2>1, ShownSourced
    <2>3. res \in Progress /\ Shown(res.run, res.active)
      BY Zenon, <2>1, EvaluatedShows
    <2>4. \A j \in Targets \ {rule.target} : Own(res.run, j) = Own(st.run, j)
      <3> HIDE DEF rule
      <3>1. res = Evaluated(st, rule, now)
        BY DEF rule
      <3> HIDE DEF res
      <3> QED
        BY Zenon, <2>1, <2>2, <3>1, EvaluatedIsLocal
    <2> HIDE DEF res
    <2>5. Ruled(res.run)
      <3>1. ASSUME NEW i \in Targets, Own(res.run, i).confirmed
            PROVE  \E m \in DOMAIN rules : rules[m].target = i
        <4>1. CASE i = rule.target
          BY <4>1
        <4>2. CASE i # rule.target
          <5>1. Own(st.run, i).confirmed
            BY <2>4, <3>1, <4>2
          <5> QED
            BY <2>1, <5>1 DEF Ruled
        <4> QED
          BY <4>1, <4>2
      <3> QED
        BY <3>1 DEF Ruled
    <2>6. res \in V
      BY <2>3, <2>5
    <2> QED
      BY <2>6 DEF res
  <1> HIDE DEF V, begin
  <1>4. PICK run \in [0 .. Len(rules) -> V] : run[Len(rules)] = Evaluation(begin, now)
    <2>1. EvaluationOf(V, begin, now)
      BY <1>1, <1>2, <1>3, EvaluationRuns
    <2> QED
      BY Zenon, <2>1 DEF EvaluationOf
  <1>5. Len(rules) \in 0 .. Len(rules)
    <2>1. Len(rules) \in Nat
      BY <1>1, LenProperties
    <2> QED
      BY <2>1
  <1>6. Evaluation(begin, now) \in V
    BY <1>4, <1>5
  <1> QED
    BY <1>6 DEF V, begin

LEMMA RefreshShows ==
    ASSUME NamesLast, ShownInv, Refresh
    PROVE  ShownInv'
  <1>1. /\ rules \in RuleSets /\ name = FirstName /\ tick \in Known /\ Named(tick)
        /\ present \subseteq Targets /\ ~ CanRename
    BY Zenon DEF ShownInv, NamesLast
  <1>2. PICK seen \in IF CanVanish THEN SUBSET Targets ELSE {present},
             called \in IF CanRename THEN [Targets -> Names] ELSE {name},
             dt \in Elapsed :
        \E measured \in [seen -> Rates \cup {NoRate}] :
           /\ present' = seen /\ name' = called /\ tick' = Recorded(measured, called)
           /\ states' = Evaluation(Begin(dt), tick').run
           /\ active' = Evaluation(Begin(dt), tick').active
           /\ rules' = rules
    BY Zenon, RefreshDoes
  <1>3. PICK measured \in [seen -> Rates \cup {NoRate}] :
           /\ present' = seen /\ name' = called /\ tick' = Recorded(measured, called)
           /\ states' = Evaluation(Begin(dt), tick').run
           /\ active' = Evaluation(Begin(dt), tick').active
           /\ rules' = rules
    BY Zenon, <1>2
  <1>4. /\ seen \in SUBSET Targets /\ called = FirstName /\ FirstName \in [Targets -> Names]
        /\ dt \in Nat
    BY <1>1, TrafficAlertConstants
  <1>5. tick' \in Known /\ Named(tick')
    <2>1. /\ tick' \in Known /\ DOMAIN tick' = seen \cup DOMAIN tick
          /\ \A i \in seen : tick'[i].name = called[i]
          /\ \A i \in DOMAIN tick \ seen : tick'[i] = tick[i]
      <3>1. /\ Recorded(measured, called) \in Known
            /\ DOMAIN Recorded(measured, called) = seen \cup DOMAIN tick
            /\ \A i \in seen : Recorded(measured, called)[i].name = called[i]
            /\ \A i \in DOMAIN tick \ seen : Recorded(measured, called)[i] = tick[i]
        <4>1. tick \in Known /\ seen \in SUBSET Targets /\ called \in [Targets -> Names]
          BY Zenon, <1>1, <1>4
        <4> QED
          BY Zenon, <4>1, RecordedFacts
      <3> QED
        BY <1>3, <3>1
    <2>2. ASSUME NEW i \in DOMAIN tick' PROVE tick'[i].name = FirstName[i]
      <3>1. CASE i \in seen
        BY <1>4, <2>1, <3>1
      <3>2. CASE i \in DOMAIN tick \ seen
        BY <1>1, <2>1, <3>2 DEF Named
      <3> QED
        BY <2>1, <3>1, <3>2
    <2> QED
      BY <2>1, <2>2 DEF Named
  <1> DEFINE end == Evaluation(Begin(dt), tick')
  <1>6. end \in Progress /\ Shown(end.run, end.active) /\ Ruled(end.run)
    BY Zenon, <1>4, <1>5, RulesShow
  <1>7. states' = end.run /\ active' = end.active
    BY <1>3
  <1> HIDE DEF end
  <1>8. states' \in Runs /\ active' \in [Names -> Severities]
    BY <1>6, <1>7 DEF Progress
  <1>9. Shown(states', active')
    BY <1>6, <1>7
  <1>10. Ruled(states')
    BY <1>6, <1>7
  <1>11. Ruled(states)'
    BY <1>3, <1>10 DEF Ruled
  <1> QED
    BY <1>1, <1>3, <1>4, <1>5, <1>8, <1>9, <1>11 DEF ShownInv

\* New rules start without episodes and without their alerts.
LEMMA SetRulesShows ==
    ASSUME ShownInv, NEW next \in RuleSets, SetRules(next)
    PROVE  ShownInv'
  <1>1. /\ active' = [n \in Names |-> IF HasEpisode(n) THEN "Normal" ELSE active[n]]
        /\ rules' = next /\ states' = Nothing /\ present' = present /\ name' = name /\ tick' = tick
    BY DEF SetRules
  <1>2. ASSUME NEW n \in Names, active[n] # "Normal" PROVE HasEpisode(n)
    <2>1. PICK i \in Targets : Own(states, i).confirmed /\ Own(states, i).source = n
      BY Zenon, <1>2 DEF ShownInv, Shown
    <2>2. PICK k \in DOMAIN rules : rules[k].target = i
      BY Zenon, <2>1 DEF ShownInv, Ruled
    <2>3. i \in DOMAIN states /\ Own(states, i) = states[i]
      <3>1. states \in Runs
        BY DEF ShownInv
      <3>2. i \in DOMAIN states
        BY <2>1, <3>1, OwnType
      <3> QED
        BY Zenon, <3>2 DEF Own
    <2>4. rules[k] \in ToSet(rules)
      BY DEF ToSet
    <2>5. /\ rules[k].target \in DOMAIN states
          /\ states[rules[k].target].confirmed /\ states[rules[k].target].source = n
      BY Zenon, <2>1, <2>2, <2>3
    <2> QED
      BY Zenon, <2>4, <2>5 DEF HasEpisode
  <1>3. \A n \in Names : active'[n] = "Normal"
    BY <1>1, <1>2
  <1>4. active' \in [Names -> Severities]
    <2>1. active' = [n \in Names |-> "Normal"]
      BY <1>1, <1>3
    <2> QED
      BY <2>1 DEF Severities
  <1>5. \A i : ~ Own(states', i).confirmed
    BY <1>1, NothingFacts, FreshFacts
  <1>6. Shown(states', active') /\ Ruled(states)'
    BY Zenon, <1>3, <1>5 DEF Shown, Ruled
  <1> QED
    BY <1>1, <1>4, <1>6, NothingFacts DEF ShownInv, Named

\* The alerts of the dashboard are exactly the confirmed episodes, for every set of
\* interfaces, rule list and measurement: a rule edit, a disabled rule, a gap in the
\* measurement or a recovery neither leaves a phantom alert nor loses one, while interfaces
\* keep their names.
THEOREM DashboardIsOfEpisodes ==
    ASSUME NamesLast
    PROVE  Spec => []DashboardShowsEpisodes
  <1>1. Init => ShownInv
    BY InitShown
  <1>2. ShownInv /\ [Next]_vars => ShownInv'
    <2> SUFFICES ASSUME ShownInv, [Next]_vars PROVE ShownInv'
      OBVIOUS
    <2>1. CASE Refresh
      BY <2>1, RefreshShows
    <2>2. CASE \E next \in RuleSets : SetRules(next)
      BY <2>2, SetRulesShows
    <2>3. CASE UNCHANGED vars
      BY <2>3 DEF vars, ShownInv, Shown, Ruled, Named, Own
    <2> QED
      BY Zenon, <2>1, <2>2, <2>3 DEF Next
  <1>3. ShownInv => DashboardShowsEpisodes
    <2> SUFFICES ASSUME ShownInv PROVE DashboardShowsEpisodes
      OBVIOUS
    <2>1. states \in Runs /\ Shown(states, active)
      BY DEF ShownInv
    <2>2. ASSUME NEW i \in Targets, NEW n
          PROVE  Own(states, i).confirmed /\ Own(states, i).source = n <=>
                    InEpisode(i) /\ states[i].source = n
      <3>1. i \notin DOMAIN states => ~ Own(states, i).confirmed
        BY <2>1, OwnType
      <3> QED
        BY Zenon, <3>1 DEF Own, InEpisode
    <2>3. ASSUME NEW n \in Names
          PROVE  active[n] # "Normal" <=> \E i \in Targets : InEpisode(i) /\ states[i].source = n
      <3>1. active[n] # "Normal" <=>
               \E i \in Targets : Own(states, i).confirmed /\ Own(states, i).source = n
        BY Zenon, <2>1 DEF Shown
      <3> QED
        BY Zenon, <2>2, <3>1
    <2> QED
      BY <2>3 DEF DashboardShowsEpisodes
  <1> QED
    BY <1>1, <1>2, <1>3, PTL DEF Spec

-----------------------------------------------------------------------------
(* Episodes and the measurements.                                          *)

Local(st, res, rule, now) ==
    /\ res \in Progress /\ Sourced(res.run)
    /\ \A j \in Targets \ {rule.target} :
          /\ Own(res.run, j) = Own(st.run, j)
          /\ Told(res.pushed, j) <=> Told(st.pushed, j)
    /\ ~ Told(st.pushed, rule.target) =>
          Outcome(Own(st.run, rule.target), Own(res.run, rule.target),
                  Told(res.pushed, rule.target), rule, now)

LEMMA EvaluatedLocally ==
    ASSUME NEW st \in Progress, NEW rule \in Rule, NEW now \in Known, Sourced(st.run),
           NEW res, res = Evaluated(st, rule, now)
    PROVE  Local(st, res, rule, now)
  BY Zenon, EvaluatedIsLocal DEF Local

\* What evaluate() makes of one identity is what its one rule does.
LEMMA RulesReach ==
    ASSUME rules \in RuleSets, states \in Runs, active \in [Names -> Severities],
           NEW dt \in Nat, NEW now \in Known, Sourced(Aged(states, dt)),
           NEW end, end = Evaluation(Begin(dt), now)
    PROVE  /\ end \in Progress /\ Sourced(end.run)
           /\ \A i \in Targets :
                 /\ (\A k \in DOMAIN rules : rules[k].target # i) =>
                       Own(end.run, i) = Own(Aged(states, dt), i) /\ ~ Told(end.pushed, i)
                 /\ \A k \in DOMAIN rules : rules[k].target = i =>
                       Outcome(Own(Aged(states, dt), i), Own(end.run, i), Told(end.pushed, i),
                               rules[k], now)
  <1> DEFINE V == {st \in Progress : Sourced(st.run)}
             begin == Begin(dt)
             n == Len(rules)
  <1>1. /\ rules \in Seq(Rule) /\ \A k \in DOMAIN rules : rules[k] \in Rule
        /\ \A j, k \in DOMAIN rules : rules[j].target = rules[k].target => j = k
        /\ n \in Nat /\ DOMAIN rules = 1 .. n
    <2>1. /\ rules \in Seq(Rule) /\ \A k \in DOMAIN rules : rules[k] \in Rule
          /\ \A j, k \in DOMAIN rules : rules[j].target = rules[k].target => j = k
      BY Zenon, RulesFacts
    <2> QED
      BY <2>1, LenProperties
  <1>2. begin \in V /\ begin.run = Aged(states, dt) /\ ~ \E i : Told(begin.pushed, i)
    <2>1. begin \in Progress /\ begin.run = Aged(states, dt) /\ begin.pushed = {}
      BY BeginFacts
    <2> HIDE DEF begin
    <2>2. \A i : ~ Told(begin.pushed, i)
      BY <2>1 DEF Told
    <2> QED
      BY <2>1, <2>2
  <1>3. ASSUME NEW st \in V, NEW k \in DOMAIN rules
        PROVE  /\ Evaluated(st, rules[k], now) \in V
               /\ \A j \in Targets \ {rules[k].target} :
                     /\ Own(Evaluated(st, rules[k], now).run, j) = Own(st.run, j)
                     /\ Told(Evaluated(st, rules[k], now).pushed, j) <=> Told(st.pushed, j)
               /\ ~ Told(st.pushed, rules[k].target) =>
                     Outcome(Own(st.run, rules[k].target),
                             Own(Evaluated(st, rules[k], now).run, rules[k].target),
                             Told(Evaluated(st, rules[k], now).pushed, rules[k].target),
                             rules[k], now)
    <2> DEFINE rule == rules[k]
               res == Evaluated(st, rule, now)
    <2>1. st \in Progress /\ rule \in Rule /\ Sourced(st.run)
      BY <1>1
    <2> HIDE DEF rule
    <2>2. res = Evaluated(st, rule, now)
      OBVIOUS
    <2> HIDE DEF res
    <2>3. /\ res \in Progress /\ Sourced(res.run)
          /\ \A j \in Targets \ {rule.target} :
                /\ Own(res.run, j) = Own(st.run, j)
                /\ Told(res.pushed, j) <=> Told(st.pushed, j)
          /\ ~ Told(st.pushed, rule.target) =>
                Outcome(Own(st.run, rule.target), Own(res.run, rule.target),
                        Told(res.pushed, rule.target), rule, now)
      <3>1. Local(st, res, rule, now)
        BY <2>1, <2>2, EvaluatedLocally
      <3> QED
        BY Zenon, <3>1 DEF Local
    <2>4. res \in V
      BY <2>3
    <2> QED
      BY Zenon, <2>3, <2>4 DEF res, rule
  <1> HIDE DEF V, begin, n
  <1>4. PICK run \in [0 .. n -> V] :
           /\ run[0] = begin /\ run[n] = end
           /\ \A k \in DOMAIN rules : run[k] = Evaluated(run[k - 1], rules[k], now)
    <2>1. EvaluationOf(V, begin, now)
      BY <1>1, <1>2, <1>3, EvaluationRuns
    <2>2. Evaluation(begin, now) = end
      BY DEF begin
    <2> QED
      BY Zenon, <2>1, <2>2 DEF EvaluationOf, n
  <1>5. end \in V
    BY <1>1, <1>4
  <1>6. ASSUME NEW i \in Targets, NEW own \in 1 .. n + 1,
               \A k \in DOMAIN rules : rules[k].target = i <=> k = own
        PROVE  /\ own = n + 1 =>
                     Own(end.run, i) = Own(Aged(states, dt), i) /\ ~ Told(end.pushed, i)
               /\ own # n + 1 =>
                     Outcome(Own(Aged(states, dt), i), Own(end.run, i), Told(end.pushed, i),
                             rules[own], now)
    <2> DEFINE Before(st) == Own(st.run, i) = Own(begin.run, i) /\ ~ Told(st.pushed, i)
               After(st) == Outcome(Own(begin.run, i), Own(st.run, i), Told(st.pushed, i),
                                    rules[own], now)
               S == {k \in 0 .. n : (k < own => Before(run[k])) /\ (k >= own => After(run[k]))}
    <2>1. 0 \in S
      <3>1. Before(run[0])
        BY Zenon, <1>2, <1>4
      <3> HIDE DEF Before, After
      <3> QED
        BY <1>1, <3>1
    <2>2. ASSUME NEW k \in 1 .. n, k - 1 \in S PROVE k \in S
      <3> DEFINE st == run[k - 1]
                 res == run[k]
      <3>1. /\ st \in V /\ res = Evaluated(st, rules[k], now) /\ k \in DOMAIN rules
            /\ k - 1 < own => Before(st)
            /\ k - 1 >= own => After(st)
        <4> HIDE DEF Before, After
        <4>1. k - 1 \in 0 .. n /\ k \in DOMAIN rules
          BY <1>1
        <4> QED
          BY <1>4, <2>2, <4>1
      <3> HIDE DEF st, res
      <3>2. CASE k # own
        <4>1. rules[k].target # i
          BY <1>6, <3>1, <3>2
        <4>2. i \in Targets \ {rules[k].target}
          BY <4>1
        <4>3. Own(res.run, i) = Own(st.run, i) /\ (Told(res.pushed, i) <=> Told(st.pushed, i))
          BY Zenon, <1>3, <3>1, <4>2
        <4>4. CASE k < own
          <5>1. Before(st)
            <6> HIDE DEF Before, After
            <6> QED
              BY <3>1, <4>4
          <5>2. Before(res)
            BY Zenon, <4>3, <5>1
          <5> HIDE DEF Before, After
          <5> QED
            BY <4>4, <5>2 DEF res
        <4>5. CASE k > own
          <5>1. After(st)
            <6> HIDE DEF Before, After
            <6> QED
              BY <3>1, <4>5
          <5>2. After(res)
            <6> HIDE DEF Before
            <6>1. Told(res.pushed, i) \/ ~ Told(res.pushed, i)
              OBVIOUS
            <6> QED
              BY Zenon, <4>3, <5>1 DEF Outcome
          <5> HIDE DEF Before, After
          <5> QED
            BY <4>5, <5>2 DEF res
        <4> QED
          BY <3>2, <4>4, <4>5
      <3>3. CASE k = own
        <4>1. Before(st)
          <5> HIDE DEF Before, After
          <5> QED
            BY <3>1, <3>3
        <4>2. rules[k].target = i
          BY Zenon, <1>6, <3>1, <3>3
        <4>3. Outcome(Own(st.run, i), Own(res.run, i), Told(res.pushed, i), rules[k], now)
          BY Zenon, <1>3, <3>1, <4>1, <4>2
        <4>4. After(res)
          BY Zenon, <3>3, <4>1, <4>3
        <4> HIDE DEF Before, After
        <4> QED
          BY <3>3, <4>4 DEF res
      <3> QED
        BY <3>2, <3>3
    <2> HIDE DEF S
    <2>3. 0 .. n \subseteq S
      BY <1>1, <2>1, <2>2, LoopKeeps
    <2>4. n \in S
      BY <1>1, <2>3
    <2>5. (n < own => Before(end)) /\ (n >= own => After(end))
      <3> HIDE DEF Before, After
      <3> QED
        BY <1>4, <2>4 DEF S
    <2>6. (own = n + 1 => Before(end)) /\ (own # n + 1 => After(end))
      <3> HIDE DEF Before, After
      <3> QED
        BY <1>1, <2>5
    <2> QED
      BY Zenon, <1>2, <2>6
  <1>7. ASSUME NEW i \in Targets, \A k \in DOMAIN rules : rules[k].target # i
        PROVE  Own(end.run, i) = Own(Aged(states, dt), i) /\ ~ Told(end.pushed, i)
    <2>1. n + 1 \in 1 .. n + 1 /\ \A k \in DOMAIN rules : rules[k].target = i <=> k = n + 1
      BY <1>1, <1>7
    <2> QED
      BY Zenon, <1>6, <2>1
  <1>8. ASSUME NEW i \in Targets, NEW k \in DOMAIN rules, rules[k].target = i
        PROVE  Outcome(Own(Aged(states, dt), i), Own(end.run, i), Told(end.pushed, i),
                       rules[k], now)
    <2>1. /\ k \in 1 .. n + 1 /\ k # n + 1
          /\ \A j \in DOMAIN rules : rules[j].target = i <=> j = k
      BY <1>1, <1>8
    <2> QED
      BY Zenon, <1>6, <2>1
  <1> QED
    BY <1>5, <1>7, <1>8 DEF V

\* No interface goes away, the time unit is at least the time between two refreshes,
\* and no remembered time or count reaches its bound before a rule is satisfied.
Unbroken ==
    /\ ~ CanVanish /\ Elapsed \subseteq {0, 1}
    /\ \A R \in RuleSets : \A k \in DOMAIN R : R[k].hold <= MaxAge + 1

HasRule(i) == \E k \in DOMAIN rules : rules[k].target = i

\* What is remembered of an identity is no more than was measured of it.
Tracked(i) ==
    LET rt == Own(states, i)
    IN /\ ~ HasRule(i) => ~ rt.confirmed /\ rt.count = 0
       /\ rt.confirmed => /\ i \in DOMAIN tick
                          /\ \A k \in DOMAIN rules : rules[k].target = i => rules[k].enabled
       /\ ~ rt.confirmed => rt.count <= above[i] \/ above[i] > MaxAge
       /\ rt.confirmed /\ Told(pushed, i) => rt.emission = 0

MeasuredInv ==
    /\ rules \in RuleSets /\ edits \in Nat /\ above \in [Targets -> Nat]
    /\ tick \in Known /\ name \in [Targets -> Names]
    /\ DOMAIN tick \subseteq present /\ present \subseteq Targets
    /\ states \in Runs /\ active \in [Names -> Severities] /\ Sourced(states)
    /\ \A i \in Targets : Tracked(i)


LEMMA InitMeasured == Init => MeasuredInv
  <1> SUFFICES ASSUME Init PROVE MeasuredInv
    OBVIOUS
  <1>1. /\ rules \in RuleSets /\ name = FirstName /\ tick = Nothing /\ present \subseteq Targets
        /\ states = Nothing /\ active = [n \in Names |-> "Normal"] /\ edits = 0
        /\ above = [i \in Targets |-> 0]
    BY DEF Init
  <1>2. /\ active \in [Names -> Severities] /\ above \in [Targets -> Nat] /\ edits \in Nat
        /\ name \in [Targets -> Names]
    BY <1>1, TrafficAlertConstants DEF Severities
  <1>3. \A i \in Targets : /\ ~ Own(states, i).confirmed /\ Own(states, i).count = 0
                           /\ above[i] = 0
    BY <1>1, NothingFacts, FreshFacts
  <1>4. Sourced(states)
    BY Zenon, <1>3 DEF Sourced
  <1>5. ASSUME NEW i \in Targets PROVE Tracked(i)
    <2>1. Own(states, i).count <= above[i]
      BY <1>3
    <2> QED
      BY Zenon, <1>3, <1>5, <2>1 DEF Tracked
  <1> QED
    BY <1>1, <1>2, <1>4, <1>5, NothingFacts DEF MeasuredInv

\* What a refresh does to one identity.
Advance(i, dt) ==
    LET rt == Own(states, i)
        aged == Own(Aged(states, dt), i)
        new == Own(states', i)
    IN /\ aged.confirmed = rt.confirmed /\ aged.count = rt.count
       /\ aged.emission = Older(rt.emission, dt)
       /\ ~ HasRule(i) => new = aged /\ ~ Told(pushed', i)
       /\ \A k \in DOMAIN rules : rules[k].target = i =>
             Outcome(aged, new, Told(pushed', i), rules[k], tick')

\* What it does to the count of measured violations.
Counts(i) ==
    /\ i \in DOMAIN tick' /\ tick'[i].rate = NoRate /\ HasRule(i) => above'[i] = above[i]
    /\ \A k \in DOMAIN rules : rules[k].target = i /\ Breach(rules[k], tick') =>
          above'[i] > MaxAge \/ above'[i] = above[i] + 1

Kept ==
    /\ rules' = rules /\ edits' = edits /\ above' \in [Targets -> Nat]
    /\ tick' \in Known /\ name' \in [Targets -> Names]
    /\ DOMAIN tick \subseteq DOMAIN tick' /\ DOMAIN tick' \subseteq present'
    /\ present' \subseteq Targets
    /\ states' \in Runs /\ active' \in [Names -> Severities] /\ Sourced(states')

LEMMA RefreshAdvances ==
    ASSUME Unbroken, MeasuredInv, Refresh
    PROVE  Kept /\ \E dt \in {0, 1} : \A i \in Targets : Advance(i, dt) /\ Counts(i)
  <1>1. /\ rules \in RuleSets /\ tick \in Known /\ name \in [Targets -> Names]
        /\ DOMAIN tick \subseteq present /\ present \subseteq Targets
        /\ above \in [Targets -> Nat]
        /\ states \in Runs /\ active \in [Names -> Severities] /\ Sourced(states)
        /\ ~ CanVanish /\ Elapsed \subseteq {0, 1}
    BY Zenon DEF MeasuredInv, Unbroken
  <1>2. PICK seen \in IF CanVanish THEN SUBSET Targets ELSE {present},
             called \in IF CanRename THEN [Targets -> Names] ELSE {name},
             dt \in Elapsed :
           \E measured \in [seen -> Rates \cup {NoRate}] :
              /\ present' = seen /\ name' = called /\ tick' = Recorded(measured, called)
              /\ states' = Evaluation(Begin(dt), tick').run
              /\ active' = Evaluation(Begin(dt), tick').active
              /\ pushed' = Evaluation(Begin(dt), tick').pushed
              /\ above' = [i \in Targets |->
                    IF i \notin seen \/ RuleOn(i) = {} THEN 0
                    ELSE IF measured[i] = NoRate THEN above[i]
                    ELSE IF \E rule \in RuleOn(i) : measured[i] >= rule.threshold
                    THEN IF above[i] > MaxAge THEN above[i] ELSE above[i] + 1 ELSE 0]
              /\ rules' = rules /\ edits' = edits
    BY Zenon, RefreshDoes
  <1>3. /\ seen = present /\ called \in [Targets -> Names] /\ dt \in {0, 1} /\ dt \in Nat
    BY <1>1
  <1>4. PICK measured \in [seen -> Rates \cup {NoRate}] :
              /\ present' = seen /\ name' = called /\ tick' = Recorded(measured, called)
              /\ states' = Evaluation(Begin(dt), tick').run
              /\ active' = Evaluation(Begin(dt), tick').active
              /\ pushed' = Evaluation(Begin(dt), tick').pushed
              /\ above' = [i \in Targets |->
                    IF i \notin seen \/ RuleOn(i) = {} THEN 0
                    ELSE IF measured[i] = NoRate THEN above[i]
                    ELSE IF \E rule \in RuleOn(i) : measured[i] >= rule.threshold
                    THEN IF above[i] > MaxAge THEN above[i] ELSE above[i] + 1 ELSE 0]
              /\ rules' = rules /\ edits' = edits
    BY Zenon, <1>2
  <1>5. /\ tick' \in Known /\ DOMAIN tick' = seen
        /\ \A i \in seen : tick'[i].rate = measured[i]
    <2>1. /\ Recorded(measured, called) \in Known
          /\ DOMAIN Recorded(measured, called) = seen \cup DOMAIN tick
          /\ \A i \in seen : Recorded(measured, called)[i].rate = measured[i]
      <3>1. tick \in Known /\ seen \in SUBSET Targets /\ called \in [Targets -> Names]
        BY <1>1, <1>3
      <3> QED
        BY Zenon, <3>1, RecordedFacts
    <2> QED
      BY <1>1, <1>3, <1>4, <2>1
  <1>6. \A i \in Targets : RuleOn(i) = {} <=> ~ HasRule(i)
    BY DEF RuleOn, HasRule
  <1>7. \A i \in Targets, k \in DOMAIN rules : rules[k].target = i => rules[k] \in RuleOn(i)
    BY DEF RuleOn
  <1>8. /\ above' \in [Targets -> Nat]
        /\ \A i \in Targets :
              above'[i] = IF i \notin seen \/ RuleOn(i) = {} THEN 0
                          ELSE IF measured[i] = NoRate THEN above[i]
                          ELSE IF \E rule \in RuleOn(i) : measured[i] >= rule.threshold
                          THEN IF above[i] > MaxAge THEN above[i] ELSE above[i] + 1 ELSE 0
    <2> DEFINE count(i) == IF i \notin seen \/ RuleOn(i) = {} THEN 0
                          ELSE IF measured[i] = NoRate THEN above[i]
                          ELSE IF \E rule \in RuleOn(i) : measured[i] >= rule.threshold
                          THEN IF above[i] > MaxAge THEN above[i] ELSE above[i] + 1 ELSE 0
    <2>1. \A i \in Targets : count(i) \in Nat
      BY <1>1
    <2>2. above' = [i \in Targets |-> count(i)]
      BY Zenon, <1>4
    <2> HIDE DEF count
    <2>3. above' \in [Targets -> Nat] /\ \A i \in Targets : above'[i] = count(i)
      BY <2>1, <2>2
    <2> QED
      BY Zenon, <2>3 DEF count
  <1>9. ASSUME NEW i \in Targets PROVE Counts(i)
    <2>1. ASSUME i \in DOMAIN tick', tick'[i].rate = NoRate, HasRule(i)
          PROVE  above'[i] = above[i]
      BY <1>5, <1>6, <1>8, <2>1
    <2>2. ASSUME NEW k \in DOMAIN rules, rules[k].target = i, Breach(rules[k], tick')
          PROVE  above'[i] > MaxAge \/ above'[i] = above[i] + 1
      <3>1. /\ i \in DOMAIN tick' /\ tick'[i].rate # NoRate
            /\ tick'[i].rate >= rules[k].threshold
        BY <2>2 DEF Breach, Measured, Watched
      <3>2. /\ i \in seen /\ measured[i] # NoRate /\ measured[i] >= rules[k].threshold
            /\ rules[k] \in RuleOn(i)
        BY <1>5, <1>7, <2>2, <3>1
      <3>3. above'[i] = IF above[i] > MaxAge THEN above[i] ELSE above[i] + 1
        BY <1>8, <3>2
      <3> QED
        BY <3>3
    <2> QED
      BY Zenon, <2>1, <2>2 DEF Counts
  <1>10. \A i \in Targets : /\ Own(Aged(states, dt), i).confirmed = Own(states, i).confirmed
                            /\ Own(Aged(states, dt), i).count = Own(states, i).count
                            /\ Own(Aged(states, dt), i).source = Own(states, i).source
                            /\ Own(Aged(states, dt), i).emission = Older(Own(states, i).emission, dt)
    BY <1>1, <1>3, AgedFacts
  <1>11. Sourced(Aged(states, dt))
    <2>1. ASSUME NEW i \in Targets, Own(Aged(states, dt), i).confirmed
          PROVE  Own(Aged(states, dt), i).source \in Names
      <3>1. Own(states, i).confirmed
        BY <1>10, <2>1
      <3>2. Own(states, i).source \in Names
        BY Zenon, <1>1, <3>1 DEF Sourced
      <3> QED
        BY <1>10, <3>2
    <2> QED
      BY Zenon, <2>1 DEF Sourced
  <1> DEFINE end == Evaluation(Begin(dt), tick')
  <1>12. states' = end.run /\ active' = end.active /\ pushed' = end.pushed
    BY <1>4
  <1>13. end = Evaluation(Begin(dt), tick')
    OBVIOUS
  <1> HIDE DEF end
  <1>14. end \in Progress /\ Sourced(end.run)
    BY <1>1, <1>3, <1>5, <1>11, <1>13, RulesReach
  <1>15. ASSUME NEW i \in Targets PROVE Advance(i, dt)
    <2>1. /\ (\A k \in DOMAIN rules : rules[k].target # i) =>
                Own(end.run, i) = Own(Aged(states, dt), i) /\ ~ Told(end.pushed, i)
          /\ \A k \in DOMAIN rules : rules[k].target = i =>
                Outcome(Own(Aged(states, dt), i), Own(end.run, i), Told(end.pushed, i),
                        rules[k], tick')
      BY <1>1, <1>3, <1>5, <1>11, <1>13, RulesReach
    <2> QED
      BY Zenon, <1>10, <1>12, <2>1 DEF Advance, HasRule
  <1>16. Kept
    <2>1. states' \in Runs /\ active' \in [Names -> Severities] /\ Sourced(states')
      BY <1>12, <1>14 DEF Progress
    <2> QED
      BY <1>1, <1>3, <1>4, <1>5, <1>8, <2>1 DEF Kept
  <1> QED
    BY Zenon, <1>3, <1>9, <1>15, <1>16

\* One rule, one refresh: what was remembered, rt, was measured ...
Stepping(rule, now, rt, aged, new, told, n, m, dt) ==
    /\ aged.confirmed = rt.confirmed /\ aged.count = rt.count
    /\ aged.emission = Older(rt.emission, dt)
    /\ Outcome(aged, new, told, rule, now)
    /\ rt.confirmed => rule.target \in DOMAIN now /\ rule.enabled
    /\ ~ rt.confirmed => rt.count <= n \/ n > MaxAge
    /\ rule.target \in DOMAIN now /\ now[rule.target].rate = NoRate => m = n
    /\ Breach(rule, now) => m > MaxAge \/ m = n + 1

\* ... and so is what is remembered now.
Stepped(rule, now, rt, aged, new, told, n, m, dt) ==
    /\ new.confirmed => rule.target \in DOMAIN now /\ rule.enabled
    /\ ~ new.confirmed => new.count <= m \/ m > MaxAge
    /\ new.confirmed /\ told => new.emission = 0
    /\ ~ rt.confirmed /\ new.confirmed /\ rule.mode = "Samples" => m > MaxAge \/ m >= rule.hold
    /\ rt.confirmed /\ ~ new.confirmed => UnderFloor(rule, now)
    /\ rt.confirmed /\ told /\ rt.emission = 0 => rule.cooldown <= 1

LEMMA RuleStep ==
    ASSUME NEW rule \in Rule, NEW now \in Known, NEW rt \in Runtimes, NEW aged \in Runtimes,
           NEW new \in Runtimes, NEW told, NEW n \in Nat, NEW m \in Nat, NEW dt \in {0, 1},
           Stepping(rule, now, rt, aged, new, told, n, m, dt)
    PROVE  Stepped(rule, now, rt, aged, new, told, n, m, dt)
  <1>a. /\ aged.confirmed = rt.confirmed /\ aged.count = rt.count
        /\ aged.emission = Older(rt.emission, dt)
        /\ Outcome(aged, new, told, rule, now)
        /\ rt.confirmed => rule.target \in DOMAIN now /\ rule.enabled
        /\ ~ rt.confirmed => rt.count <= n \/ n > MaxAge
        /\ rule.target \in DOMAIN now /\ now[rule.target].rate = NoRate => m = n
        /\ Breach(rule, now) => m > MaxAge \/ m = n + 1
    BY Zenon DEF Stepping
  <1>0. /\ MaxAge \in Nat /\ rule.hold \in Nat /\ rule.cooldown \in Nat
        /\ rt.count \in Nat /\ aged.count \in Nat /\ new.count \in Nat
        /\ aged.emission \in Int /\ rt.emission \in Int
    BY RuleFacts, TrafficAlertConstants DEF Runtimes
  <1> USE <1>0, <1>a
  <1>1. CASE ~ Watched(rule, now) /\ new = Fresh /\ ~ told
    <2>1. ~ new.confirmed /\ new.count = 0 /\ ~ rt.confirmed
      BY Zenon, <1>1, FreshFacts DEF Watched
    <2>2. new.count <= m
      BY <2>1
    <2> QED
      BY Zenon, <2>1, <2>2 DEF Stepped
  <1>2. CASE Watched(rule, now) /\ Waits(aged, new, rule, now) /\ ~ told
    <2>1. /\ new.confirmed = rt.confirmed
          /\ ~ rt.confirmed =>
                \/ new.count = 0
                \/ ~ Measured(rule, now) /\ new.count = aged.count
                \/ Breach(rule, now) /\ new.count = aged.count + 1
      BY Zenon, <1>2 DEF Waits
    <2>2. ~ Measured(rule, now) => m = n
      BY Zenon, <1>2 DEF Measured, Watched
    <2>3. ASSUME ~ rt.confirmed PROVE new.count <= m \/ m > MaxAge
      <3>1. CASE new.count = 0
        BY <3>1
      <3>2. CASE ~ Measured(rule, now) /\ new.count = aged.count
        <4>1. m = n
          BY Zenon, <2>2, <3>2
        <4> QED
          BY <2>3, <3>2, <4>1
      <3>3. CASE Breach(rule, now) /\ new.count = aged.count + 1
        <4>1. m > MaxAge \/ m = n + 1
          BY Zenon, <3>3
        <4> QED
          BY <2>3, <3>3, <4>1
      <3> QED
        BY Zenon, <2>1, <2>3, <3>1, <3>2, <3>3
    <2>4. new.confirmed => rule.target \in DOMAIN now /\ rule.enabled
      BY Zenon, <1>2 DEF Watched
    <2> QED
      BY Zenon, <1>2, <2>1, <2>3, <2>4 DEF Stepped
  <1>3. CASE Watched(rule, now) /\ Raised(aged, new, rule, now) /\ (told => rule.notify)
    <2>1. /\ ~ rt.confirmed /\ new.confirmed /\ Breach(rule, now)
          /\ rule.mode = "Samples" => aged.count + 1 >= rule.hold
          /\ told => new.emission = 0
          /\ rule.target \in DOMAIN now /\ rule.enabled
      BY Zenon, <1>3 DEF Raised, Watched
    <2>2. m > MaxAge \/ m = n + 1
      BY Zenon, <2>1
    <2>3. rt.count <= n \/ n > MaxAge
      BY Zenon, <2>1
    <2>4. rule.mode = "Samples" => m > MaxAge \/ m >= rule.hold
      BY <2>1, <2>2, <2>3
    <2> QED
      BY Zenon, <2>1, <2>4 DEF Stepped
  <1>4. CASE Watched(rule, now) /\ Recovers(aged, new, rule, now) /\ ~ told
    <2>1. rt.confirmed /\ ~ new.confirmed /\ new.count = 0 /\ UnderFloor(rule, now)
      BY Zenon, <1>4 DEF Recovers
    <2>2. new.count <= m
      BY <2>1
    <2> QED
      BY Zenon, <1>4, <2>1, <2>2 DEF Stepped
  <1>5. CASE Watched(rule, now) /\ Repeats(aged, new, rule, now)
    <2>1. /\ rt.confirmed /\ new.confirmed /\ new.emission = 0
          /\ rule.notify /\ ~ Cooling(aged, rule)
          /\ rule.target \in DOMAIN now /\ rule.enabled
      BY Zenon, <1>5 DEF Repeats, Watched
    <2>2. \/ ~ (rule.cooldown > 0) \/ aged.emission = Never
          \/ ~ (aged.emission < rule.cooldown)
      BY Zenon, <2>1 DEF Cooling
    <2>3. rt.emission = 0 => aged.emission \in {0, 1}
      BY DEF Older, Never
    <2>4. rt.emission = 0 => rule.cooldown <= 1
      BY <2>2, <2>3 DEF Never
    <2> QED
      BY Zenon, <2>1, <2>4 DEF Stepped
  <1> QED
    BY Zenon, <1>1, <1>2, <1>3, <1>4, <1>5 DEF Outcome

\* One identity, one refresh.
Measuring(i) ==
    /\ Tracked(i)'
    /\ ~ Own(states, i).confirmed /\ Own(states', i).confirmed =>
          \A k \in DOMAIN rules : rules[k].target = i /\ rules[k].mode = "Samples" =>
             above'[i] >= rules[k].hold
    /\ Own(states, i).confirmed =>
          \A k \in DOMAIN rules : rules[k].target = i =>
             /\ ~ Own(states', i).confirmed => UnderFloor(rules[k], tick')
             /\ Told(pushed, i) /\ Told(pushed', i) => rules[k].cooldown <= 1

LEMMA StepMeasures ==
    ASSUME Unbroken, MeasuredInv, Kept, NEW dt \in {0, 1},
           NEW i \in Targets, Advance(i, dt), Counts(i)
    PROVE  Measuring(i)
  <1> DEFINE rt == Own(states, i)
             aged == Own(Aged(states, dt), i)
             new == Own(states', i)
             told == Told(pushed', i)
             now == tick'
  <1>1. /\ rules \in RuleSets /\ above[i] \in Nat /\ above'[i] \in Nat /\ dt \in Nat
        /\ states \in Runs /\ states' \in Runs /\ now \in Known /\ rules' = rules
        /\ DOMAIN tick \subseteq DOMAIN now
    BY DEF MeasuredInv, Kept
  <1>2. rt \in Runtimes /\ new \in Runtimes /\ aged \in Runtimes
    <2>1. Aged(states, dt) \in Runs
      BY <1>1, AgedFacts
    <2> QED
      BY <1>1, <2>1, OwnType
  <1>3. /\ aged.confirmed = rt.confirmed /\ aged.count = rt.count
        /\ aged.emission = Older(rt.emission, dt)
        /\ ~ HasRule(i) => new = aged /\ ~ told
        /\ \A k \in DOMAIN rules : rules[k].target = i => Outcome(aged, new, told, rules[k], now)
    BY Zenon DEF Advance
  <1>4. /\ ~ HasRule(i) => ~ rt.confirmed /\ rt.count = 0
        /\ rt.confirmed => /\ i \in DOMAIN tick
                           /\ \A k \in DOMAIN rules : rules[k].target = i => rules[k].enabled
        /\ ~ rt.confirmed => rt.count <= above[i] \/ above[i] > MaxAge
        /\ rt.confirmed /\ Told(pushed, i) => rt.emission = 0
    BY Zenon DEF MeasuredInv, Tracked
  <1>5. HasRule(i)' <=> HasRule(i)
    BY <1>1 DEF HasRule
  <1> HIDE DEF rt, aged, new, told, now
  <1>6. CASE ~ HasRule(i)
    <2>1. ~ rt.confirmed /\ ~ new.confirmed /\ new.count = 0
      BY Zenon, <1>3, <1>4, <1>6
    <2>2. new.count <= above'[i]
      BY <1>1, <2>1
    <2>3. Tracked(i)'
      BY Zenon, <2>1, <2>2 DEF Tracked, new
    <2> QED
      BY Zenon, <2>1, <2>3 DEF Measuring, rt, new
  <1>7. CASE HasRule(i)
    <2>1. PICK k \in DOMAIN rules : rules[k].target = i
      BY Zenon, <1>7 DEF HasRule
    <2> DEFINE rule == rules[k]
    <2>2. rule \in Rule /\ rule.target = i /\ \A j \in DOMAIN rules : rules[j].target = i => j = k
      BY Zenon, <1>1, <2>1, RulesFacts
    <2>3. /\ Outcome(aged, new, told, rule, now)
          /\ rt.confirmed => rule.target \in DOMAIN now /\ rule.enabled
          /\ rule.target \in DOMAIN now /\ now[rule.target].rate = NoRate => above'[i] = above[i]
          /\ Breach(rule, now) => above'[i] > MaxAge \/ above'[i] = above[i] + 1
      <3>1. Outcome(aged, new, told, rule, now)
        BY Zenon, <1>3, <2>1
      <3>2. rt.confirmed => rule.target \in DOMAIN now /\ rule.enabled
        <4>1. i \in DOMAIN tick => i \in DOMAIN now
          BY <1>1
        <4> QED
          BY Zenon, <1>4, <2>1, <4>1
      <3>3. rule.target \in DOMAIN now /\ now[rule.target].rate = NoRate => above'[i] = above[i]
        BY Zenon, <1>7, <2>1 DEF Counts, now
      <3>4. Breach(rule, now) => above'[i] > MaxAge \/ above'[i] = above[i] + 1
        BY Zenon, <2>1 DEF Counts, now
      <3> QED
        BY Zenon, <3>1, <3>2, <3>3, <3>4
    <2> HIDE DEF rule
    <2>4. /\ new.confirmed => rule.target \in DOMAIN now /\ rule.enabled
          /\ ~ new.confirmed => new.count <= above'[i] \/ above'[i] > MaxAge
          /\ new.confirmed /\ told => new.emission = 0
          /\ ~ rt.confirmed /\ new.confirmed /\ rule.mode = "Samples" =>
                above'[i] > MaxAge \/ above'[i] >= rule.hold
          /\ rt.confirmed /\ ~ new.confirmed => UnderFloor(rule, now)
          /\ rt.confirmed /\ told /\ rt.emission = 0 => rule.cooldown <= 1
      <3>1. Stepping(rule, now, rt, aged, new, told, above[i], above'[i], dt)
        BY Zenon, <1>3, <1>4, <2>3 DEF Stepping
      <3>2. Stepped(rule, now, rt, aged, new, told, above[i], above'[i], dt)
        BY <1>1, <1>2, <2>2, <3>1, RuleStep
      <3> QED
        BY Zenon, <3>2 DEF Stepped
    <2>5. Tracked(i)'
      <3>1. new.confirmed => /\ i \in DOMAIN now
                             /\ \A j \in DOMAIN rules : rules[j].target = i => rules[j].enabled
        BY Zenon, <2>2, <2>4 DEF rule
      <3>2. new.confirmed => /\ i \in DOMAIN now
                             /\ \A j \in DOMAIN rules' : rules'[j].target = i => rules'[j].enabled
        BY Zenon, <1>1, <3>1
      <3> QED
        BY Zenon, <1>5, <1>7, <2>4, <3>2 DEF Tracked, new, told, now
    <2>6. above'[i] > MaxAge => above'[i] >= rule.hold
      <3>1. rule.hold <= MaxAge + 1
        BY Zenon, <1>1, <2>1 DEF Unbroken, rule
      <3>2. rule.hold \in Nat /\ MaxAge \in Nat
        BY <2>2, RuleFacts, TrafficAlertConstants
      <3> QED
        BY <1>1, <3>1, <3>2
    <2>7. ~ rt.confirmed /\ new.confirmed =>
             \A j \in DOMAIN rules : rules[j].target = i /\ rules[j].mode = "Samples" =>
                above'[i] >= rules[j].hold
      BY Zenon, <2>2, <2>4, <2>6 DEF rule
    <2>8. rt.confirmed =>
             \A j \in DOMAIN rules : rules[j].target = i =>
                /\ ~ new.confirmed => UnderFloor(rules[j], now)
                /\ Told(pushed, i) /\ told => rules[j].cooldown <= 1
      BY Zenon, <1>4, <2>2, <2>4 DEF rule
    <2> QED
      BY Zenon, <2>5, <2>7, <2>8 DEF Measuring, rt, new, told, now
  <1> QED
    BY <1>6, <1>7

\* A refresh keeps the invariant and only takes episodes' steps.
LEMMA RefreshMeasures ==
    ASSUME Unbroken, MeasuredInv, Refresh
    PROVE  MeasuredInv' /\ \A i \in Targets : EpisodeStep(i)
  <1>1. Kept
    BY RefreshAdvances
  <1>2. PICK dt \in {0, 1} : \A i \in Targets : Advance(i, dt) /\ Counts(i)
    BY Zenon, RefreshAdvances
  <1>3. ASSUME NEW i \in Targets PROVE Measuring(i)
    BY <1>1, <1>2, StepMeasures
  <1>4. MeasuredInv'
    <2>1. /\ rules \in RuleSets /\ edits \in Nat /\ \A i \in Targets : Tracked(i)'
      BY Zenon, <1>3 DEF MeasuredInv, Measuring
    <2>2. \A i \in Targets : Tracked(i)'
      BY Zenon, <2>1
    <2> QED
      BY <1>1, <2>1 DEF MeasuredInv, Kept
  <1>5. ASSUME NEW i \in Targets PROVE EpisodeStep(i)
    <2>1. /\ ~ Own(states, i).confirmed /\ Own(states', i).confirmed =>
                \A k \in DOMAIN rules : rules[k].target = i /\ rules[k].mode = "Samples" =>
                   above'[i] >= rules[k].hold
          /\ Own(states, i).confirmed =>
                \A k \in DOMAIN rules : rules[k].target = i =>
                   /\ ~ Own(states', i).confirmed => UnderFloor(rules[k], tick')
                   /\ Told(pushed, i) /\ Told(pushed', i) => rules[k].cooldown <= 1
      BY Zenon, <1>3 DEF Measuring
    <2>2. (InEpisode(i) <=> Own(states, i).confirmed) /\ (InEpisode(i)' <=> Own(states', i).confirmed)
      <3>1. states \in Runs /\ states' \in Runs
        BY <1>1 DEF MeasuredInv, Kept
      <3>2. /\ i \notin DOMAIN states => ~ Own(states, i).confirmed
            /\ i \notin DOMAIN states' => ~ Own(states', i).confirmed
        BY <3>1, OwnType
      <3> QED
        BY Zenon, <3>2 DEF Own, InEpisode
    <2>3. (Alerted(i) <=> Told(pushed, i)) /\ (Alerted(i)' <=> Told(pushed', i))
      BY Zenon DEF Alerted, Told
    <2>4. ASSUME NEW rule \in RuleOn(i)
          PROVE  /\ Raises(i) /\ rule.mode = "Samples" => above'[i] >= rule.hold
                 /\ InEpisode(i) =>
                       /\ ~ InEpisode(i)' =>
                             tick'[i].rate # NoRate /\ 10 * tick'[i].rate < 9 * rule.threshold
                       /\ Alerted(i) /\ Alerted(i)' => rule.cooldown <= 1
      <3>1. PICK k \in DOMAIN rules : rules[k].target = i /\ rule = rules[k]
        BY DEF RuleOn
      <3>2. UnderFloor(rules[k], tick') =>
               tick'[i].rate # NoRate /\ 10 * tick'[i].rate < 9 * rule.threshold
        BY Zenon, <3>1 DEF UnderFloor, Measured
      <3> QED
        BY Zenon, <2>1, <2>2, <2>3, <3>1, <3>2 DEF Raises
    <2> QED
      BY Zenon, <2>4 DEF EpisodeStep
  <1> QED
    BY Zenon, <1>4, <1>5

LEMMA SetRulesMeasures ==
    ASSUME MeasuredInv, NEW next \in RuleSets, SetRules(next)
    PROVE  MeasuredInv' /\ \A i \in Targets : EpisodeStep(i)
  <1>1. /\ rules' = next /\ states' = Nothing /\ present' = present /\ name' = name /\ tick' = tick
        /\ above' = [i \in Targets |-> 0] /\ edits' = edits + 1
        /\ active' = [n \in Names |-> IF HasEpisode(n) THEN "Normal" ELSE active[n]]
    BY DEF SetRules
  <1>2. edits' \in Nat /\ edits' # edits
    BY <1>1 DEF MeasuredInv
  <1>3. \A i \in Targets : /\ ~ Own(states', i).confirmed /\ Own(states', i).count = 0
                           /\ above'[i] = 0 /\ ~ InEpisode(i)'
    BY <1>1, NothingFacts, FreshFacts DEF InEpisode
  <1>4. ASSUME NEW i \in Targets PROVE Tracked(i)'
    <2>1. Own(states', i).count <= above'[i]
      BY <1>3
    <2> QED
      BY Zenon, <1>3, <1>4, <2>1 DEF Tracked
  <1>5. Sourced(states')
    BY Zenon, <1>3 DEF Sourced
  <1>6. active' \in [Names -> Severities] /\ above' \in [Targets -> Nat]
    BY <1>1 DEF MeasuredInv, Severities
  <1>7. MeasuredInv'
    BY <1>1, <1>2, <1>4, <1>5, <1>6, NothingFacts DEF MeasuredInv
  <1> QED
    BY Zenon, <1>2, <1>3, <1>7 DEF EpisodeStep, Raises

\* For every set of rules and measurements: an episode starts only after as many measured
\* violations in a row as its rule asks for, ends only by a measured rate under the recovery
\* floor unless the rules are edited, and is not announced again before the cooldown is over,
\* while no interface is gone for good.
THEOREM EpisodesMeasured ==
    ASSUME Unbroken
    PROVE  Spec => EpisodesAreMeasured
  <1> DEFINE Steps == \A i \in Targets : EpisodeStep(i)
  <1>1. Init => MeasuredInv
    BY InitMeasured
  <1>2. MeasuredInv /\ [Next]_vars => MeasuredInv' /\ [Steps]_vars
    <2> SUFFICES ASSUME MeasuredInv, [Next]_vars PROVE MeasuredInv' /\ [Steps]_vars
      OBVIOUS
    <2> HIDE DEF Steps
    <2>1. CASE Refresh
      BY <2>1, RefreshMeasures DEF Steps
    <2>2. CASE \E next \in RuleSets : SetRules(next)
      BY <2>2, SetRulesMeasures DEF Steps
    <2>3. CASE UNCHANGED vars
      BY <2>3 DEF vars, MeasuredInv, Sourced, Tracked, HasRule, Own, Told
    <2> QED
      BY Zenon, <2>1, <2>2, <2>3 DEF Next
  <1> QED
    BY <1>1, <1>2, PTL DEF Spec, EpisodesAreMeasured
=============================================================================
