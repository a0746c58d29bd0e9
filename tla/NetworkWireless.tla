--------------------------- MODULE NetworkWireless ---------------------------
(***************************************************************************)
(* NetworkWirelessMonitor (network_wireless.cpp), fed with the snapshot of *)
(* the interfaces once per refresh: what is known of every wireless        *)
(* interface, a history of samples, the connection events confirmed by a   *)
(* debounce, the warnings raised from them, and the summary of the quality *)
(* that the pages show.                                                    *)
(*                                                                         *)
(* An optional value that is absent is outside the domain of a function.   *)
(* Roaming is left out: no observation names an access point               *)
(* (makeWirelessObservation).  Ages count from now: a sample of age 0 is   *)
(* of this update.                                                         *)
(***************************************************************************)
EXTENDS Integers, Sequences, FiniteSets, SequencesExt, FiniteSetsExt, TLC

CONSTANTS
    Radios,          \* identities of interfaces
    Snapshots,       \* sets of them that may be there at once
    Readings,        \* what the snapshot and the files may say of one
    Steps,           \* [steady, wall] time between two refreshes: the wall clock
                     \* also runs while the machine is suspended
    UnitSeconds,     \* seconds in a unit of that time
    WirelessRooms,   \* history sizes that may be configured
    MaxRadios,       \* kMaxTrackedWirelessInterfaces
    MaxLogged,       \* kMaxWirelessConnectionEvents
    Debounce,        \* kWirelessConnectionDebounceTicks
    ResetGap,        \* kWirelessConnectionResetGap, kWirelessQualityMaxGap
    MinValid,        \* kWirelessQualityMinValidSamples
    MinFactor,       \* kWirelessQualityMinFactorSamples
    MaxFeeds,        \* bound: updates
    MaxResizes       \* bound: changes of the history's size

Metrics == {"quality", "signal", "noise"}

\* native: a /wireless directory or an 802.11 link type; phy: what the phy80211 directory
\* gives ("nameless": its files may not be read, "denied": nor may it); files: the values of
\* /wireless; table: the columns of its row in /proc/net/wireless, none without a row.
ASSUME WirelessConstants ==
    /\ Snapshots \subseteq SUBSET Radios
    /\ \A r \in Readings :
          /\ r.native \in BOOLEAN /\ r.phy \in {"there", "nameless", "none", "denied"}
          /\ r.carrier \in {"on", "off", "hidden"}
          /\ DOMAIN r.files \subseteq Metrics /\ DOMAIN r.table \subseteq {"signal", "noise"}
          /\ r.files \in [DOMAIN r.files -> Int] /\ r.table \in [DOMAIN r.table -> Int]
    /\ \A s \in Steps : s.steady \in Nat \ {0} /\ s.wall \in Nat /\ s.wall >= s.steady
    /\ WirelessRooms \subseteq Nat \ {0} /\ {MaxRadios, MaxLogged, Debounce} \subseteq Nat \ {0}
    /\ {UnitSeconds, ResetGap, MinValid, MinFactor} \subseteq Nat \ {0}
    /\ MaxFeeds \in Nat /\ MaxResizes \in Nat

\* kWirelessConnectionDebounceTicks is 2: one observation confirms nothing.
ASSUME DebounceAssumption == Debounce > 1

VARIABLES
    radio,       \* tracked_
    warned,      \* the subjects of the AlertManager that are at Warning
    retained,    \* history_max_samples_
    feeds,       \* updates so far
    resizes

wirelessVars == <<radio, warned, retained, feeds, resizes>>

Least(a, b) == IF a < b THEN a ELSE b

NoValues == [m \in {} |-> 0]
NoRadios == [d \in {} |-> 0]

WirelessInit ==
    /\ radio = NoRadios /\ warned = {} /\ retained \in WirelessRooms
    /\ feeds = 0 /\ resizes = 0

-----------------------------------------------------------------------------
(* judgeWireless: one reading of an interface.                             *)

\* readWirelessProbe; between two probes its cached outcome.
ProbeOf(reading) ==
    [mac |-> reading.phy \in {"there", "nameless"}, ok |-> reading.phy \in {"there", "none"}]
CachedProbe(entry) == [mac |-> entry.mac, ok |-> entry.ok]

\* Probed anew: a new identity, a failed probe, or (due) a rename or the reread interval.
ProbeNow(known, entry, reading, due) ==
    IF ~ known \/ ~ entry.ok \/ due THEN ProbeOf(reading) ELSE CachedProbe(entry)

IsWireless(reading, probe) == reading.native \/ probe.mac

\* parseProcNetWirelessStats: a column may say that there was no measurement.
Invalid == -256
TableOf(row) == [m \in {column \in DOMAIN row : row[column] # Invalid} |-> row[m]]

\* The table is only asked when the snapshot has no value at all.
ValuesOf(reading) == IF reading.files # NoValues THEN reading.files ELSE TableOf(reading.table)

AssociationOf(carrier) ==
    CASE carrier = "on" -> "Associated" [] carrier = "off" -> "Disconnected" [] OTHER -> "Unknown"

PhyState(entry, probe) ==
    IF probe.mac THEN "Available"
    ELSE IF ~ probe.ok /\ entry.phy \in {"Available", "Stale"} THEN "Stale"
    ELSE "Unavailable"

NotWireless(entry, probe) ==
    [entry EXCEPT !.wireless = FALSE, !.mac = FALSE, !.ok = probe.ok, !.phy = "Unavailable",
                  !.values = NoValues, !.field = "Unavailable", !.association = "Unknown"]

\* A value that was not read is kept from before.
FilledFrom(new, old) ==
    [m \in DOMAIN new \cup DOMAIN old |-> IF m \in DOMAIN new THEN new[m] ELSE old[m]]

\* The field state is one for all values.
Judged(entry, reading, probe) ==
    IF ~ IsWireless(reading, probe) THEN NotWireless(entry, probe)
    ELSE LET values == FilledFrom(ValuesOf(reading), entry.values)
         IN [entry EXCEPT !.wireless = TRUE, !.mac = probe.mac, !.ok = probe.ok,
                          !.phy = PhyState(entry, probe), !.values = values,
                          !.field = IF ValuesOf(reading) # NoValues THEN "Available"
                                    ELSE IF values # NoValues THEN "Stale" ELSE "Unavailable",
                          !.association = AssociationOf(reading.carrier)]

-----------------------------------------------------------------------------
(* advanceWirelessConnectionTracker: an observation is an association or   *)
(* "Gone".  Ghosts: before, the observation before this one; silences, how *)
(* often a state was adopted without an event.                             *)

NoTracker == [confirmed |-> "none", associated |-> FALSE, pending |-> "none", remaining |-> 0,
              since |-> 0, before |-> "none", silences |-> 0]

\* The first observation, and the one after a gap, are adopted without an event.
Adopt(tracker, seen) ==
    [tracker EXCEPT !.confirmed = seen, !.associated = (seen = "Associated"),
                    !.pending = "none", !.since = 0, !.before = seen, !.silences = @ + 1]

\* classifyWirelessConnectionChange
EventType(tracker, seen) ==
    IF tracker.confirmed = "Gone" THEN "InterfaceAvailable"
    ELSE CASE seen = "Gone" -> "InterfaceUnavailable"
           [] seen = "Associated" -> IF tracker.associated THEN "Reconnected" ELSE "Associated"
           [] seen = "Disconnected" -> "Disassociated"
           [] OTHER -> "StateUnknown"

Recoveries == {"Associated", "Reconnected", "InterfaceAvailable"}

\* makeWirelessConnectionEvent; ghosts: twice, the update before saw the same, and silences.
EventOf(tracker, seen) ==
    [type |-> EventType(tracker, seen), from |-> tracker.confirmed, to |-> seen,
     twice |-> tracker.before = seen, silences |-> tracker.silences]

\* What is missing to confirm the candidate after this observation of it.
AlreadyHalfway(tracker, seen) ==
    IF tracker.pending # "none" THEN tracker.remaining - 1 ELSE Debounce - 1
Remaining(tracker, seen) ==
    IF tracker.pending = seen THEN tracker.remaining - 1 ELSE Debounce - 1

Advanced(tracker, seen) ==
    IF tracker.confirmed = "none" \/ tracker.since > ResetGap
    THEN [tracker |-> Adopt(tracker, seen), events |-> << >>]
    ELSE IF seen = tracker.confirmed
    THEN [tracker |-> [tracker EXCEPT !.pending = "none", !.since = 0, !.before = seen],
          events |-> << >>]
    ELSE IF Remaining(tracker, seen) > 0
    THEN [tracker |-> [tracker EXCEPT !.pending = seen, !.remaining = Remaining(tracker, seen),
                                      !.since = 0, !.before = seen],
          events |-> << >>]
    ELSE [tracker |-> [tracker EXCEPT !.confirmed = seen, !.pending = "none", !.since = 0,
                                      !.associated = @ \/ seen = "Associated",
                                      !.before = seen],
          events |-> <<EventOf(tracker, seen)>>]

-----------------------------------------------------------------------------
(* update: the interfaces of the snapshot, then those that are not in it.  *)

Newest(s, size) == SubSeq(s, IF Len(s) > size THEN Len(s) - size + 1 ELSE 1, Len(s))

NoRadio == [present |-> TRUE, wireless |-> FALSE, mac |-> FALSE, ok |-> TRUE, phy |-> "Unknown",
            values |-> NoValues, field |-> "Unknown", association |-> "Unknown",
            samples |-> << >>, events |-> << >>, tracker |-> NoTracker, first |-> feeds,
            said |-> "none", announced |-> "none", missing |-> 0]

SampleOf(entry) ==
    [age |-> 0, association |-> entry.association, valid |-> entry.field = "Available",
     values |-> IF entry.field = "Available"
                THEN [m \in DOMAIN entry.values \ {"noise"} |-> entry.values[m]] ELSE NoValues]

\* makeWirelessObservation, makeGoneObservation.
ObservationOf(entry, present) == IF present THEN entry.association ELSE "Gone"

\* The event, if there is one, is kept, and said in this update; ghost: announced, the type
\* of the last one.
Observed(entry, seen) ==
    LET next == Advanced(entry.tracker, seen)
    IN [entry EXCEPT !.tracker = next.tracker,
                     !.events = Newest(@ \o next.events, MaxLogged),
                     !.said = IF next.events = << >> THEN "none" ELSE Head(next.events).type,
                     !.announced = IF next.events = << >> THEN @ ELSE Head(next.events).type]

\* An interface of the snapshot.  One that is not wireless loses history and tracker.
Fed(known, entry, reading, due) ==
    LET next == Judged(entry, reading, ProbeNow(known, entry, reading, due))
    IN IF next.wireless
       THEN Observed([next EXCEPT !.samples = Newest(Append(@, SampleOf(next)), retained),
                                  !.present = TRUE, !.missing = 0], ObservationOf(next, TRUE))
       ELSE [next EXCEPT !.samples = << >>, !.events = << >>, !.tracker = NoTracker,
                         !.present = TRUE, !.missing = 0, !.announced = "none"]

\* One that is not in the snapshot is observed as gone, once.  Ghost: missing, the updates
\* without it that were not apart by a gap.
Missed(entry) ==
    IF entry.present
    THEN [Observed(entry, ObservationOf(entry, FALSE)) EXCEPT !.present = FALSE,
                                         !.missing = IF entry.tracker.since > ResetGap THEN 0 ELSE 1]
    ELSE [entry EXCEPT !.missing = IF @ \in {0, Debounce} \/ entry.tracker.since > ResetGap
                                   THEN @ ELSE @ + 1]

\* evictOverflow: the interfaces that are gone make room, those seen first before the others.
Evictions(entries) ==
    LET gone == {d \in DOMAIN entries : ~ entries[d].present}
        excess == Cardinality(DOMAIN entries) - MaxRadios
    IN {out \in SUBSET gone :
            /\ \/ excess <= 0 /\ out = {}
               \/ excess > 0 /\ Cardinality(out) = Least(excess, Cardinality(gone))
            /\ \A d \in out, e \in gone \ out : entries[d].first <= entries[e].first}

\* recordConnectionEvent; clearSubject of those that are not wireless or evicted.
KeptWarned(entries) ==
    (warned \ DOMAIN entries) \cup
    {d \in DOMAIN entries :
        entries[d].wireless /\ IF entries[d].said = "none" THEN d \in warned
                               ELSE entries[d].said \notin Recoveries}
Warned(entries) ==
    {d \in DOMAIN entries :
        entries[d].wireless /\ IF entries[d].said = "none" THEN d \in warned
                               ELSE entries[d].said \notin Recoveries}

\* Time passes between two refreshes.
AgedSamples(samples, step) ==
    [n \in DOMAIN samples |-> [samples[n] EXCEPT !.age = @ + step.steady]]
Aged(entries, step) ==
    [d \in DOMAIN entries |->
        [entries[d] EXCEPT
            !.samples = AgedSamples(@, step),
            !.tracker.since = IF @ > ResetGap \/ entries[d].tracker.confirmed = "none" THEN @
                              ELSE @ + step.wall,
            !.said = "none"]]

\* The interfaces of one snapshot are read alike: they only meet in evictOverflow.
WirelessUpdate ==
    /\ feeds < MaxFeeds /\ feeds' = feeds + 1
    /\ \E step \in Steps, found \in Snapshots, reading \in Readings, due \in BOOLEAN :
          LET old == Aged(radio, step)
              entries == [d \in DOMAIN old \cup found |->
                            IF d \notin found THEN Missed(old[d])
                            ELSE IF d \in DOMAIN old THEN Fed(TRUE, old[d], reading, due)
                            ELSE Fed(FALSE, NoRadio, reading, due)]
          IN \E out \in Evictions(entries) :
                /\ radio' = [d \in DOMAIN entries \ out |-> entries[d]]
                /\ warned' = Warned(radio')
    /\ UNCHANGED <<retained, resizes>>

\* /sys/class/net could not be read: everything that is known is kept as stale.
WirelessUnreadable ==
    /\ feeds < MaxFeeds /\ feeds' = feeds + 1
    /\ \E step \in Steps :
          LET old == Aged(radio, step)
          IN radio' = [d \in DOMAIN old |->
                 [old[d] EXCEPT !.field = IF @ = "Available" THEN "Stale" ELSE @,
                                !.phy = IF @ = "Available" THEN "Stale" ELSE @]]
    /\ UNCHANGED <<warned, retained, resizes>>

SetWirelessHistory(size) ==
    /\ resizes < MaxResizes /\ resizes' = resizes + 1
    /\ retained' = size
    /\ radio' = [d \in DOMAIN radio |-> [radio[d] EXCEPT !.samples = << >>, !.events = << >>]]
    /\ UNCHANGED <<warned, feeds>>

WirelessNext ==
    WirelessUpdate \/ WirelessUnreadable \/ \E size \in WirelessRooms : SetWirelessHistory(size)

WirelessSpec == WirelessInit /\ [][WirelessNext]_wirelessVars
-----------------------------------------------------------------------------
(* The summary of the retained samples that the pages and exports show.    *)

\* The sum of a list of numbers, made by a loop.
Summed(parts) ==
    LET upto[n \in 0 .. Len(parts)] == IF n = 0 THEN 0 ELSE upto[n - 1] + parts[n]
    IN upto[Len(parts)]

\* The whole part of the square root.
Root(x) == CHOOSE r \in 0 .. x : r * r <= x /\ x < (r + 1) * (r + 1)

\* summarizeWirelessHistory: what the samples that have a signal say of it.
SignalSummary(samples) ==
    LET heard == {n \in DOMAIN samples : "signal" \in DOMAIN samples[n].values}
        level(n) == samples[n].values["signal"]
        levels == {level(n) : n \in heard}
        count == Cardinality(heard)
        average == Summed([n \in DOMAIN samples |-> IF n \in heard THEN level(n) ELSE 0]) \div count
        variance == Summed([n \in DOMAIN samples |->
                        IF n \in heard THEN (level(n) - average) * (level(n) - average) ELSE 0]) \div count
    IN IF heard = {} THEN [count |-> 0]
       ELSE [count |-> count, current |-> level(Max(heard)), low |-> Min(levels),
             high |-> Max(levels), average |-> average, deviation |-> Root(variance)]

\* Between two samples the state is the one of the first, unless that is unknown or the
\* next came after a gap.
Elapsed(samples, n) == samples[n].age - samples[n + 1].age
StateAfter(samples, n) ==
    IF Elapsed(samples, n) > ResetGap THEN "Unknown" ELSE samples[n].association
SecondsIn(samples, state) ==
    Summed([n \in 1 .. Len(samples) - 1 |->
               IF StateAfter(samples, n) = state THEN Elapsed(samples, n) ELSE 0])

\* The loop over the samples: the run under way and the longest runs.
Longer(best, run) ==
    IF run.state = "Unknown" THEN best
    ELSE [best EXCEPT ![run.state] = IF run.time > @ THEN run.time ELSE @]
NoRun == [state |-> "Unknown", time |-> 0]
RunsThroughUnknown(samples, n, loop) ==
    LET state == StateAfter(samples, n)
    IN IF state \in {"Unknown", loop.run.state}
       THEN [loop EXCEPT !.run.time = @ + Elapsed(samples, n)]
       ELSE [best |-> Longer(loop.best, loop.run),
             run |-> [state |-> state, time |-> Elapsed(samples, n)]]
RunsAlong(samples, n, loop) ==
    LET state == StateAfter(samples, n)
    IN IF state = loop.run.state
       THEN [loop EXCEPT !.run.time = @ + Elapsed(samples, n)]
       ELSE [best |-> Longer(loop.best, loop.run),
             run |-> [state |-> state, time |-> Elapsed(samples, n)]]
NoTimes == [state \in {"Associated", "Disconnected"} |-> 0]
LongestRuns(samples) ==
    LET loop[n \in 0 .. Len(samples)] ==
            IF n < 2 THEN [best |-> NoTimes, run |-> NoRun] ELSE RunsAlong(samples, n - 1, loop[n - 1])
        last == loop[Len(samples)]
    IN Longer(last.best, last.run)

\* summarizeWirelessQuality, but its assessment.
Quality(entry) ==
    LET samples == entry.samples
        events(type) == Cardinality({n \in DOMAIN entry.events : entry.events[n].type = type})
    IN [valid |-> Cardinality({n \in DOMAIN samples : samples[n].valid}),
        signal |-> SignalSummary(samples),
        connected |-> SecondsIn(samples, "Associated"),
        disconnected |-> SecondsIn(samples, "Disconnected"),
        unobserved |-> SecondsIn(samples, "Unknown"),
        longest |-> LongestRuns(samples),
        disconnections |-> events("Disassociated"),
        unavailable |-> events("InterfaceUnavailable")]

\* assessWirelessStability: the [weight, value] of every factor, in hundredths; the factor of
\* roaming needs an access point.  A rate of ten disconnections an hour halves its factor.
Share(part, whole) == (100 * Least(part, whole)) \div whole
Factor(weight, value) == [weight |-> weight, value |-> value]
Absent == Factor(0, 0)
Factors(q) ==
    LET determined == UnitSeconds * (q.connected + q.disconnected)
    IN << \* continuity, disconnections, recovery, availability
          Factor(30, Share(UnitSeconds * q.connected, determined)),
          Factor(25, (100 * UnitSeconds * q.connected * 10)
                     \div (10 * determined + 3600 * q.disconnections)),
          Factor(10, 100 - Share(UnitSeconds * q.longest["Disconnected"], 60)),
          Factor(10, 100 - Share(q.unavailable, 3)),
          \* strength and variability of the signal
          IF q.signal.count < MinFactor THEN Absent
          ELSE Factor(15, IF q.signal.average < -90 THEN 0 ELSE Share(q.signal.average + 90, 60)),
          IF q.signal.count < 2 THEN Absent ELSE Factor(5, 100 - Share(q.signal.deviation, 6)) >>

\* computeWeightedScore: the weights of the factors that are there, scaled up.
Score(q) ==
    LET factors == Factors(q)
    IN Summed([n \in DOMAIN factors |-> factors[n].weight * factors[n].value])
       \div Summed([n \in DOMAIN factors |-> factors[n].weight])

\* Unknown without enough samples and time to tell.
Stability(q) ==
    IF q.valid < MinValid \/ UnitSeconds * (q.connected + q.disconnected) < 5 THEN "Unknown"
    ELSE IF Score(q) >= 80 THEN "Excellent" ELSE IF Score(q) >= 60 THEN "Good"
    ELSE IF Score(q) >= 40 THEN "Fair" ELSE "Poor"

-----------------------------------------------------------------------------
\* Every connection event of the history, and so every warning and popup from one, names a
\* change that two updates in a row saw, without a gap between them; and events follow
\* from each other, unless a state was adopted in between.
EventsAreConfirmed ==
    \A d \in DOMAIN radio :
        LET events == radio[d].events
        IN /\ \A n \in DOMAIN events : events[n].twice /\ events[n].from # events[n].to
           /\ \A n \in 2 .. Len(events) :
                 events[n].silences = events[n - 1].silences => events[n].from = events[n - 1].to

\* The dashboard has a wireless warning exactly of the interfaces the monitor still knows
\* as wireless and announced a loss of last: it survives neither eviction nor an interface
\* that is no longer wireless, and a new history does not lose it.
WarningsFollowEvents ==
    warned = {d \in DOMAIN radio : radio[d].announced \notin Recoveries \cup {"none"}}

\* The summary divides the time of the samples into connected, disconnected and unobserved,
\* its longest runs are the longest there are, and its grade follows the connection: never
\* better than fair without one, never worse than good with one throughout.
GradesFollowConnection ==
    \A d \in DOMAIN radio :
        LET samples == radio[d].samples
            q == Quality(radio[d])
        IN Len(samples) > 1 =>
           /\ q.connected + q.disconnected + q.unobserved = samples[1].age - Last(samples).age
           /\ \A state \in {"Associated", "Disconnected"} :
                 q.longest[state] = Max({time \in 0 .. samples[1].age :
                    \E m, n \in DOMAIN samples :
                        /\ m <= n /\ time = samples[m].age - samples[n].age
                        /\ \A k \in m .. n - 1 : StateAfter(samples, k) = state})
           /\ q.connected = 0 => Stability(q) \in {"Unknown", "Poor", "Fair"}
           /\ q.disconnected + q.disconnections + q.unavailable = 0 =>
                 Stability(q) \in {"Unknown", "Good", "Excellent"}

\* Violated.  "The interface must stay gone for the confirmation window before an "interface
\* unavailable" event is announced" (network_wireless.cpp:1783): it is observed as gone once,
\* so the window never ends and nothing is announced.
GoneIsAnnounced ==
    \A d \in DOMAIN radio :
        radio[d].wireless /\ radio[d].missing >= Debounce => radio[d].tracker.confirmed = "Gone"
=============================================================================
