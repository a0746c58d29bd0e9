----------------------- MODULE NetworkTrafficHistory -----------------------
(***************************************************************************)
(* NetworkTrafficHistory (network_traffic_history.cpp): once per refresh   *)
(* record() turns the kernel's cumulative counters into the rates of the   *)
(* window, keeps a baseline per interface, and appends to bounded series,  *)
(* of which only MaxSeries are kept.  Here a rate is the traffic of the    *)
(* window and a counter counts modulo Wrap.                                *)
(***************************************************************************)
EXTENDS Integers, Sequences, FiniteSets, FiniteSetsExt, Functions

CONSTANTS
    Ifaces,      \* identities, ordered as the snapshot orders interfaces
    Loopback,    \* the loopback interfaces among them
    Metrics,     \* the counters of an interface
    MaxSeries,   \* kMaxTrackedInterfaceSeries
    MaxSamples,  \* historyMaxSamples
    Wrap,        \* 2^64
    MaxTraffic   \* bound: units each counter may count in a behaviour

EmptyFunction == [i \in {} |-> 0]
All == 0                 \* kNetworkTrafficAllIdentity
NoRates == EmptyFunction \* no safe window

ASSUME TrafficConstants ==
    /\ Ifaces \subseteq Nat \ {All} /\ IsFiniteSet(Ifaces) /\ Loopback \subseteq Ifaces
    /\ MaxSeries \in Nat /\ MaxSamples \in Nat \ {0}
    /\ MaxTraffic \in Nat /\ Wrap \in Nat
    /\ Wrap > MaxTraffic /\ Wrap > MaxTraffic * Cardinality(Ifaces)  \* no sum overflows

VARIABLES
    passed,     \* external: units each counter has seen since boot
    epoch,      \* external: passed at the last reset of the counters
    up,         \* external: interfaces with a traffic entry in the next snapshot
    seen,       \* ghost: passed at the last record()
    beyond,     \* ghost: interfaces last recorded beyond the cap on series
    baselines,  \* baselines_
    rates,      \* last_tick_.rates
    totals,     \* series_: ring of the counters of each series, with the
                \* passed units of an interface, the members of the aggregate
    members,    \* aggregate_members_
    changed     \* the aggregate's membership_changed

vars == <<passed, epoch, up, seen, beyond, baselines, rates, totals, members, changed>>

Counter(i) == [m \in Metrics |-> passed[i][m] - epoch[i][m]]

Init ==
    /\ passed = [i \in Ifaces |-> [m \in Metrics |-> 0]] /\ epoch = passed
    /\ up \in SUBSET Ifaces /\ seen = passed
    /\ baselines = EmptyFunction /\ rates = EmptyFunction /\ totals = EmptyFunction
    /\ members = {} /\ changed = FALSE /\ beyond = {}

-----------------------------------------------------------------------------
\* deriveTrafficRates
Decreased(previous, current) == \E m \in Metrics : current[m] < previous[m]

DerivedRates(previous, current) ==
    IF Decreased(previous, current) THEN NoRates
    ELSE [m \in Metrics |-> (current[m] - previous[m]) % Wrap]

WindowRates(i) ==
    IF i \in DOMAIN baselines THEN DerivedRates(baselines[i], Counter(i)) ELSE NoRates

\* The aggregate sums what its members measured.
SumOver(S, f(_)) == MapThenSumSet(f, S)
AggregateRates(S) ==
    LET measured == {i \in S : WindowRates(i) # NoRates}
    IN  IF measured = {} THEN NoRates
        ELSE [m \in Metrics |-> SumOver(measured, LAMBDA i : WindowRates(i)[m])]

\* addSample on a ring of MaxSamples.
Added(ring, sample) ==
    Append(IF Len(ring) >= MaxSamples THEN Tail(ring) ELSE ring, sample)

Series == DOMAIN totals \ {All}

\* seriesOrCreate: newcomers are taken in order while the cap allows; the
\* series of vanished interfaces still count.
Admitted(i) ==
    Cardinality(Series) + Cardinality({j \in up \ Series : j < i}) < MaxSeries

Kept == (Series \cap up) \cup {i \in up \ Series : Admitted(i)}

Ring(k) == IF k \in DOMAIN totals THEN totals[k] ELSE << >>

Sample(k) == [total |-> Counter(k), passed |-> passed[k]]
AggregateSample(S) ==
    [total |-> [m \in Metrics |-> SumOver(S, LAMBDA i : Counter(i)[m])], of |-> S]

\* pruneHistory: only an interface with a series loses its baseline.
PrunedNone == {}
Pruned == Series \ up

\* totals_approximate of the export and membership_changed of the page.
Approximate(S) == S # members

\* The series after a refresh, the aggregate's only fed if it has a member.
TotalsAfter(mine) ==
    [k \in Kept \cup {All} |->
        IF k # All THEN Added(Ring(k), Sample(k))
        ELSE IF mine = {} THEN Ring(All)
        ELSE Added(Ring(All), AggregateSample(mine))]

\* The rates of the refresh, for the alerts and the page.
RatesAfter(present, mine) ==
    [k \in DOMAIN rates \cup present \cup {All} |->
        IF k = All THEN AggregateRates(mine)
        ELSE IF k \in present THEN WindowRates(k) ELSE rates[k]]

\* record()
Record ==
    LET present == up
        mine == present \ Loopback
    IN  /\ rates' = RatesAfter(present, mine)
        /\ baselines' = [i \in (DOMAIN baselines \cup present) \ Pruned |->
                            IF i \in present THEN Counter(i) ELSE baselines[i]]
        /\ totals' = TotalsAfter(mine)
        /\ changed' = Approximate(mine)
        /\ members' = mine
        /\ seen' = passed /\ beyond' = (beyond \cup present) \ Kept
        /\ UNCHANGED <<passed, epoch, up>>

\* clearHistory()
Clear ==
    /\ baselines' = EmptyFunction /\ rates' = EmptyFunction /\ totals' = EmptyFunction
    /\ members' = {} /\ changed' = FALSE /\ beyond' = {}
    /\ UNCHANGED <<passed, epoch, up, seen>>

\* setHistoryMaxSamples(), after a change of the settings: the rings are emptied.
Resize ==
    /\ totals' = [k \in DOMAIN totals |-> << >>]
    /\ UNCHANGED <<passed, epoch, up, seen, beyond, baselines, rates, members, changed>>

-----------------------------------------------------------------------------
\* The kernel: traffic, counters reset by a restarted driver, an entry missing
\* from /proc/net/dev for a refresh or longer.
TrafficPasses(i) ==
    \E m \in Metrics :
        /\ passed[i][m] < MaxTraffic
        /\ passed' = [passed EXCEPT ![i][m] = @ + 1]
        /\ UNCHANGED <<epoch, up, seen, beyond, baselines, rates, totals, members, changed>>

CountersReset(i) ==
    /\ epoch[i] # passed[i]
    /\ epoch' = [epoch EXCEPT ![i] = passed[i]]
    /\ UNCHANGED <<passed, up, seen, beyond, baselines, rates, totals, members, changed>>

EntryComesOrGoes(i) ==
    /\ up' = IF i \in up THEN up \ {i} ELSE up \cup {i}
    /\ UNCHANGED <<passed, epoch, seen, beyond, baselines, rates, totals, members, changed>>

Next ==
    \/ Record
    \/ Clear
    \/ Resize
    \/ \E i \in Ifaces : TrafficPasses(i) \/ CountersReset(i) \/ EntryComesOrGoes(i)

Spec == Init /\ [][Next]_vars

-----------------------------------------------------------------------------
Counts == [Metrics -> Nat]

\* Types; rings and the number of series stay within their bounds.
TypeOK ==
    /\ up \subseteq Ifaces /\ members \subseteq Ifaces /\ changed \in BOOLEAN
    /\ DOMAIN baselines \subseteq Ifaces
    /\ \A i \in DOMAIN baselines : baselines[i] \in Counts
    /\ DOMAIN rates \subseteq Ifaces \cup {All}
    /\ \A k \in DOMAIN rates : rates[k] = NoRates \/ rates[k] \in Counts
    /\ \A k \in DOMAIN totals : Len(totals[k]) <= MaxSamples

\* However interfaces come and go between refreshes, the cap on series holds, so
\* the memory of the history is bounded.
SeriesCapped == Cardinality(Series) <= MaxSeries

\* A rate derived this refresh is traffic of the window since the last one: no
\* reset, wrap or missing refresh turns into a spike ("never a bogus spike",
\* network_traffic_history.hpp:28).  Not so for an interface last recorded beyond
\* the cap: only one with a series loses its baseline when it vanishes.
RatesAreOfTheWindow ==
    [][Record => \A i \in up \ beyond : rates'[i] # NoRates =>
          \A m \in Metrics : rates'[i][m] <= passed[i][m] - seen[i][m]]_vars
=============================================================================
