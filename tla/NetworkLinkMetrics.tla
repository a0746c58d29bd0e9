------------------------- MODULE NetworkLinkMetrics -------------------------
(***************************************************************************)
(* NetworkLinkMetricsMonitor (network_link_metrics.cpp): the negotiated    *)
(* speed and duplex of every interface, fed once per refresh from the      *)
(* snapshot of the interfaces, and how the pages show them.  A value that  *)
(* is not reported is kept from before and marked stale.                   *)
(***************************************************************************)
EXTENDS Integers, Sequences, FiniteSets

CONSTANTS
    Cards,         \* identities of interfaces
    Reports,       \* what a snapshot may say of one
    MaxCards,      \* kMaxTrackedLinkMetricsInterfaces
    MaxSnapshots   \* bound: refreshes

\* physical: of its type (a type that cannot be read is not); active: the link is up and has
\* a carrier; speed: of the file, Nothing without one; duplex: the word in the file.
Nothing == -1
ASSUME LinkMetricsConstants ==
    /\ \A r \in Reports : r.physical \in BOOLEAN /\ r.active \in BOOLEAN
    /\ \A r \in Reports : r.speed \in {Nothing} \cup Nat /\ r.duplex \in {"full", "half", "unknown"}
    /\ IsFiniteSet(Cards) /\ MaxCards \in Nat \ {0} /\ MaxSnapshots \in Nat

VARIABLES
    metrics,     \* tracked_
    told,        \* ghost: what the snapshots said of each tracked identity, in order
    snapshots    \* refreshes so far

metricsVars == <<metrics, told, snapshots>>

NoMetrics == [c \in {} |-> Nothing]

MetricsInit == metrics = NoMetrics /\ told = NoMetrics /\ snapshots = 0

-----------------------------------------------------------------------------
\* isFreshSpeed, parseNetworkDuplex: what counts as reported.
Usable(value) == value # "unknown"
UsableSpeed(value) == value > 0

\* A reported value is valid on an active link; without one the last is kept as stale.
KeepsState(field, report, usable, active) ==
    IF usable THEN [value |-> report, known |-> TRUE, state |-> IF active THEN "Valid" ELSE "Stale"]
    ELSE field
Absorbed(field, report, usable, active) ==
    IF usable THEN [value |-> report, known |-> TRUE, state |-> IF active THEN "Valid" ELSE "Stale"]
    ELSE [field EXCEPT !.state = IF field.known THEN "Stale" ELSE "Unavailable"]

Unreported(nothing) == [value |-> nothing, known |-> FALSE, state |-> "Unavailable"]

\* updateNetworkLinkMetrics: what is not physical loses what it had.
Updated(entry, report) ==
    [entry EXCEPT !.present = TRUE, !.physical = report.physical, !.active = report.active,
        !.speed = IF ~ report.physical THEN Unreported(Nothing)
                  ELSE Absorbed(@, report.speed, UsableSpeed(report.speed), report.active),
        !.duplex = IF ~ report.physical THEN Unreported("unknown")
                   ELSE Absorbed(@, report.duplex, Usable(report.duplex), report.active)]

NewEntry ==
    [present |-> TRUE, physical |-> FALSE, active |-> FALSE, first |-> snapshots,
     speed |-> Unreported(Nothing), duplex |-> Unreported("unknown")]

\* evictOverflow: of the interfaces that are gone, those seen first make room.
Pushed(entries) ==
    LET gone == {c \in DOMAIN entries : ~ entries[c].present}
        excess == Cardinality(DOMAIN entries) - MaxCards
        count == IF excess < 0 THEN 0 ELSE IF excess < Cardinality(gone) THEN excess ELSE Cardinality(gone)
    IN {out \in SUBSET gone :
           /\ Cardinality(out) = count
           /\ \A c \in out, d \in gone \ out : entries[c].first <= entries[d].first}

\* The interfaces of a snapshot are reported alike; they only meet in evictOverflow.
MetricsUpdate ==
    /\ snapshots < MaxSnapshots /\ snapshots' = snapshots + 1
    /\ \E found \in SUBSET Cards, report \in Reports :
          LET entries == [c \in DOMAIN metrics \cup found |->
                  IF c \notin found THEN [metrics[c] EXCEPT !.present = FALSE]
                  ELSE Updated(IF c \in DOMAIN metrics THEN metrics[c] ELSE NewEntry, report)]
          IN \E out \in Pushed(entries) :
                /\ metrics' = [c \in DOMAIN entries \ out |-> entries[c]]
                /\ told' = [c \in DOMAIN entries \ out |->
                       (IF c \in DOMAIN metrics THEN told[c] ELSE <<>>)
                       \o (IF c \in found THEN <<report>> ELSE <<>>)]

\* A public operation that the program does not use.
ResetMetrics ==
    /\ metrics # NoMetrics
    /\ metrics' = NoMetrics /\ told' = NoMetrics
    /\ UNCHANGED snapshots

MetricsNext == MetricsUpdate \/ ResetMetrics

MetricsSpec == MetricsInit /\ [][MetricsNext]_metricsVars
-----------------------------------------------------------------------------
(* The pages: a mark says stale.                                           *)

Shown(field) ==
    IF field.state \in {"Valid", "Stale"} THEN [value |-> field.value, marked |-> field.state = "Stale"]
    ELSE [unavailable |-> TRUE]

ShownSpeed(entry) == IF entry.physical THEN Shown(entry.speed) ELSE [unavailable |-> TRUE]
ShownDuplex(entry) == IF entry.physical THEN Shown(entry.duplex) ELSE [unavailable |-> TRUE]

\* The table's cells do not ask whether the link is physical.
SpeedCell(entry) == Shown(entry.speed)

-----------------------------------------------------------------------------
\* What there is to show of the reports about one interface: the last usable value since it
\* was physical for the last time, marked unless it is of the last report, with the link
\* active.
Expected(reports, usable(_), value(_)) ==
    LET good == {n \in DOMAIN reports : /\ usable(reports[n])
                                        /\ \A k \in n .. Len(reports) : reports[k].physical}
    IN IF good = {} THEN [unavailable |-> TRUE]
       ELSE LET last == CHOOSE n \in good : \A k \in good : k <= n
            IN [value |-> value(reports[last]),
                marked |-> last < Len(reports) \/ ~ reports[last].active]

\* Through failed reads, links that go down, interfaces that leave and return and others
\* that push them out, a page shows the speed and duplex an interface reported last, never
\* the ones it had before it became another kind of device, and without a mark only if they
\* are of now; and more are kept than the limit allows only if all of them are there.
SpeedsAreReported ==
    /\ \A c \in DOMAIN metrics :
          LET speed == Expected(told[c], LAMBDA r : UsableSpeed(r.speed), LAMBDA r : r.speed)
              duplex == Expected(told[c], LAMBDA r : Usable(r.duplex), LAMBDA r : r.duplex)
          IN /\ ShownSpeed(metrics[c]) = speed /\ SpeedCell(metrics[c]) = speed
             /\ ShownDuplex(metrics[c]) = duplex
    /\ Cardinality(DOMAIN metrics) > MaxCards => \A c \in DOMAIN metrics : metrics[c].present
=============================================================================
