---------------------------- MODULE TrafficExport -----------------------------
(***************************************************************************)
(* Exporting the traffic history (network_traffic_history_export.cpp,      *)
(* interactNetworkTrafficExport): the rings of a series are merged into    *)
(* rows, with the records of the other monitors about the same interface   *)
(* beside them, serialised as CSV or JSON and written beside the           *)
(* destination, which is then replaced.  Two series are followed, the one  *)
(* of an interface, which is lost with the interface and begins anew with  *)
(* it, and the aggregate of all.  Samples are of the steady clock, the     *)
(* last update is of the wall clock, and the two may move against each     *)
(* other.  The program may be killed while it writes.                      *)
(***************************************************************************)
EXTENDS Integers, Sequences, FiniteSets, FiniteSetsExt, Subsequences

CONSTANTS
    Interfaces,
    Retained,        \* historyMaxSamples
    MaxClock,        \* bound: refreshes
    Busy,            \* bound: the interfaces that carry traffic
    MaxBytes,        \* bound: what an interface counts
    MaxTransferred,  \* bound: what the interface transfers, over its resets
    Offsets,         \* bound: how far the wall clock is from the steady one
    Formats,         \* bound: those chosen, of "CSV" and "JSON"
    Known            \* external: what the other monitors may know of an interface

Parts == {"link", "hardware", "wireless", "wireless_history", "link_stats", "packet_mtu"}

ASSUME ExportConstants ==
    /\ IsFiniteSet(Interfaces) /\ Retained \in Nat \ {0}
    /\ MaxClock \in Nat /\ MaxBytes \in Nat /\ MaxTransferred \in Nat /\ Offsets \subseteq Int
    /\ Formats \subseteq {"CSV", "JSON"} /\ Known \subseteq SUBSET Parts

VARIABLES
    clock,           \* the steady clock, in refreshes
    ahead,           \* external: the wall clock against it
    counted,         \* external: the counter of each interface
    transferred,     \* ghost: what the interface whose series is followed transferred
    linked,          \* external: the interfaces listed with counters
    baseline,        \* baselines_
    single, aggregate,   \* series_: of the interface, and of all
    selection,       \* network_traffic_selection
    step,            \* where the page is
    snapshot,        \* what buildNetworkTrafficExportSnapshot made
    format,
    destination, temporary   \* external: the two files

kernelVars == <<ahead, counted, transferred, linked>>
historyVars == <<clock, baseline, single, aggregate>>
fileVars == <<destination, temporary>>
pageVars == <<step, snapshot, format, fileVars>>
exportVars == <<kernelVars, historyVars, selection, pageVars>>

Sum(f, S) == MapThenSumSet(LAMBDA i : f[i], S)
NoSeries == [there |-> FALSE, rates |-> <<>>, totals |-> <<>>, updated |-> 0]
NoSnapshot == [identity |-> "none", rows |-> <<>>, total |-> {}]

\* The interface whose series is followed.
Single == CHOOSE i \in Interfaces : TRUE

ExportInit ==
    /\ clock = 0 /\ ahead \in Offsets
    /\ counted = [i \in Interfaces |-> 0] /\ transferred = 0
    /\ linked \in SUBSET Interfaces
    /\ baseline = <<>>
    /\ single = NoSeries /\ aggregate = NoSeries /\ selection = "all"
    /\ step = "away" /\ snapshot = NoSnapshot /\ format = "CSV"
    /\ destination = "absent" /\ temporary = "absent"

-----------------------------------------------------------------------------
(* The interfaces and the clocks.                                          *)

Transfers(i) ==
    /\ step = "away" /\ i \in linked \cap Busy /\ counted[i] < MaxBytes
    /\ i = Single => transferred < MaxTransferred
    /\ counted' = [counted EXCEPT ![i] = @ + 1]
    /\ transferred' = IF i = Single THEN transferred + 1 ELSE transferred
    /\ UNCHANGED <<ahead, linked, historyVars, selection, pageVars>>

\* An interface that returns counts on, or from zero.
ComesOrGoes(i) ==
    /\ step = "away"
    /\ linked' = IF i \in linked THEN linked \ {i} ELSE linked \cup {i}
    /\ counted' \in IF i \in linked THEN {counted} ELSE {counted, [counted EXCEPT ![i] = 0]}
    /\ UNCHANGED <<ahead, transferred, historyVars, selection, pageVars>>

\* A reset between two refreshes.
Restarts(i) ==
    /\ step = "away" /\ i \in linked /\ counted' = [counted EXCEPT ![i] = 0]
    /\ UNCHANGED <<ahead, transferred, linked, historyVars, selection, pageVars>>

\* The system was suspended, or its time was set.
WallClockMoves ==
    /\ step = "away" /\ ahead' \in Offsets \ {ahead}
    /\ UNCHANGED <<counted, transferred, linked, historyVars, selection, pageVars>>

-----------------------------------------------------------------------------
(* The refresh.                                                            *)

Pushed(ring, sample) == Append(IF Len(ring) >= Retained THEN Tail(ring) ELSE ring, sample)

\* A total always, a rate where there is one.
Recorded(series, rated, total) ==
    [there |-> TRUE,
     rates |-> IF rated THEN Pushed(series.rates, [at |-> clock + 1, ahead |-> ahead]) ELSE series.rates,
     totals |-> Pushed(series.totals, [at |-> clock + 1, ahead |-> ahead, total |-> total,
                                       true |-> transferred]),
     updated |-> clock + 1 + ahead]

\* deriveTrafficRates: against a baseline that is not above the counter.
Rated(i) == i \in DOMAIN baseline /\ baseline[i] <= counted[i]

\* record() and pruneHistory(): a series and a baseline last while the interface is there.
Refresh ==
    /\ step = "away" /\ clock < MaxClock /\ clock' = clock + 1
    /\ baseline' = [i \in linked |-> counted[i]]
    /\ single' = IF Single \in linked
                 THEN Recorded(single, Rated(Single), counted[Single])
                 ELSE NoSeries
    /\ aggregate' = IF linked # {}
                    THEN Recorded(aggregate, \E i \in linked : Rated(i), Sum(counted, linked))
                    ELSE aggregate
    /\ UNCHANGED <<kernelVars, selection, pageVars>>

\* setHistoryMaxSamples(), after the settings page: the rings begin anew.
Resizes ==
    /\ step = "away"
    /\ single' = [single EXCEPT !.rates = <<>>, !.totals = <<>>]
    /\ aggregate' = [aggregate EXCEPT !.rates = <<>>, !.totals = <<>>]
    /\ UNCHANGED <<kernelVars, clock, baseline, selection, pageVars>>

\* The key c: among the series there are.
Cycles ==
    /\ step = "away" /\ selection' \in {"single", "all"} \ {selection}
    /\ selection' = "single" => single.there
    /\ UNCHANGED <<kernelVars, historyVars, pageVars>>

-----------------------------------------------------------------------------
(* The snapshot of a series.                                               *)

Samples(ring) == {ring[k] : k \in 1 .. Len(ring)}
At(ring) == {s.at : s \in Samples(ring)}
Ticks(series) == At(series.rates) \cup At(series.totals)

\* The newest tick is taken for the time of the last update.
AnchoredAtOldest(series, at) == series.updated - (at - Min(Ticks(series)))
Anchored(series, at) == series.updated - (Max(Ticks(series)) - at)

\* A row, with what was sampled at a tick; where the wall clock stood then is a ghost.
Row(series, at) ==
    [time |-> Anchored(series, at), rate |-> at \in At(series.rates),
     total |-> {s.total : s \in {x \in Samples(series.totals) : x.at = at}},
     tick |-> at,
     ahead |-> {s.ahead : s \in {x \in Samples(series.rates) \cup Samples(series.totals) : x.at = at}}]
Rows(series) == [n \in 1 .. Cardinality(Ticks(series)) |-> Row(series, Nth(Ticks(series), n))]

\* retainedWindowTotal: of two readings at least, none smaller than the one before; with
\* what the interface really transferred between the first and the last.
WindowTotal(totals) ==
    IF Len(totals) < 2 \/ \E k \in 2 .. Len(totals) : totals[k].total < totals[k - 1].total THEN {}
    ELSE {[shown |-> totals[Len(totals)].total - totals[1].total,
           true |-> totals[Len(totals)].true - totals[1].true]}

\* A selection whose series is gone falls back to the aggregate, of which no other monitor
\* knows.  The samples of the wireless monitor were emptied with the rings.
Identity == IF selection = "single" /\ single.there THEN "single" ELSE "all"

Snapshot(identity, series, records) ==
    [identity |-> identity, rows |-> Rows(series), total |-> WindowTotal(series.totals),
     parts |-> IF identity = "all" THEN {}
               ELSE IF Rows(series) = <<>> THEN records \ {"wireless_history"} ELSE records,
     complete |-> Cardinality(Ticks(series)) >= Retained]

\* The parts that count as content when there are no rows.
Content(s) == s.rows # <<>> \/ s.parts \cap {"wireless_history", "link_stats", "packet_mtu"} # {}

-----------------------------------------------------------------------------
(* The two formats: what a reader finds in the document.                   *)

\* generateNetworkTrafficCsv: sections; the series' columns stand on its rows.
Csv(s) ==
    [rows |-> s.rows, valid |-> TRUE,
     parts |-> {p \in s.parts : p \in {"link", "hardware", "wireless"} => s.rows # <<>>}]

\* generateNetworkTrafficJson: each part is an object of named members.  The counters,
\* rates and estimates of link_stats and packet_mtu are put between braces as objects of
\* one member each, not as members.
Members(part) ==
    IF part \in {"link_stats", "packet_mtu"} THEN {"pair", "object"} ELSE {"pair"}
Json(s) ==
    [rows |-> s.rows, parts |-> s.parts,
     valid |-> \A part \in s.parts : Members(part) = {"pair"}]

Document == IF format = "CSV" THEN Csv(snapshot) ELSE Json(snapshot)

-----------------------------------------------------------------------------
(* The page.  Nothing is sampled while it waits for input.                 *)

Away == step' = "away" /\ snapshot' = NoSnapshot /\ format' = "CSV"

\* The format is chosen first; the other monitors were refreshed with the history.
Opens ==
    /\ step = "away" /\ clock > 0
    /\ \E records \in Known :
          LET made == Snapshot(Identity, IF Identity = "single" THEN single ELSE aggregate, records) IN
          IF Content(made)
          THEN snapshot' = made /\ format' \in Formats /\ step' = "destination"
          ELSE Away
    /\ UNCHANGED <<kernelVars, historyVars, selection, fileVars>>

Leaves ==
    /\ step \in {"destination", "overwrite"} /\ Away
    /\ UNCHANGED <<kernelVars, historyVars, selection, fileVars>>

\* A file that is there is replaced after a question only.
GivesDestination ==
    /\ step = "destination"
    /\ step' = IF destination # "absent" THEN "overwrite" ELSE "writing"
    /\ UNCHANGED <<kernelVars, historyVars, selection, snapshot, format, fileVars>>

Overwrites ==
    /\ step = "overwrite" /\ step' = "writing"
    /\ UNCHANGED <<kernelVars, historyVars, selection, snapshot, format, fileVars>>

-----------------------------------------------------------------------------
(* writeNetworkTrafficExport                                               *)

Beside == [to |-> "temporary"]
Target == Beside

OpensFile ==
    /\ step = "writing"
    /\ \/ Away /\ UNCHANGED fileVars             \* cannot be opened, or a directory
       \/ /\ step' = "opened" /\ UNCHANGED <<snapshot, format>>
          /\ IF Target.to = "temporary" THEN temporary' = "partial" /\ UNCHANGED destination
             ELSE destination' = "partial" /\ UNCHANGED temporary
    /\ UNCHANGED <<kernelVars, historyVars, selection>>

\* Written and flushed, or the file is removed again.
Writes ==
    /\ step = "opened"
    /\ \/ step' = "written" /\ temporary' = "whole" /\ UNCHANGED <<snapshot, format>>
       \/ Away /\ temporary' = "absent"
    /\ UNCHANGED <<kernelVars, historyVars, selection, destination>>

Renames ==
    /\ step = "written" /\ Away /\ temporary' = "absent"
    /\ destination' \in {temporary, destination}
    /\ UNCHANGED <<kernelVars, historyVars, selection>>

Killed ==
    /\ step \in {"writing", "opened", "written"} /\ step' = "dead"
    /\ snapshot' = NoSnapshot /\ format' = "CSV"
    /\ UNCHANGED <<kernelVars, historyVars, selection, fileVars>>

ExportNext ==
    \/ (\E i \in Interfaces : Transfers(i) \/ ComesOrGoes(i) \/ Restarts(i)) \/ WallClockMoves
    \/ Refresh \/ Resizes \/ Cycles
    \/ Opens \/ Leaves \/ GivesDestination \/ Overwrites
    \/ OpensFile \/ Writes \/ Renames \/ Killed

ExportSpec == ExportInit /\ [][ExportNext]_exportVars

-----------------------------------------------------------------------------
\* "A crash never leaves a partially written export and an existing file is replaced only
\* by the atomic rename" (network_traffic_history_export.hpp).  The rows are in order, with
\* the gaps of the rings in between, and each has the time of the wall clock at which it was
\* sampled, unless that clock has moved against the steady one up to the newest row.  The
\* total of the retained window of one interface is never more than what it transferred in
\* it, whatever came, went and was reset meanwhile.
ExportIsTrue ==
    /\ destination # "partial"
    /\ LET rows == snapshot.rows IN
       /\ \A m, n \in DOMAIN rows : m < n => rows[m].time < rows[n].time
       /\ \A n \in DOMAIN rows : \A then \in rows[n].ahead :
             then \in rows[Len(rows)].ahead => rows[n].time = rows[n].tick + then
    /\ snapshot.identity = "single" => \A total \in snapshot.total : total.shown <= total.true

\* "Serializes a snapshot to valid JSON".
JsonIsValid == step # "away" /\ format = "JSON" => Document.valid
=============================================================================
