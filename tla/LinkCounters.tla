---------------------------- MODULE LinkCounters ----------------------------
(***************************************************************************)
(* The two monitors that keep a history of counters for every interface,   *)
(* fed once per refresh from the snapshot of the interfaces: packets and   *)
(* MTU (network_packet_stats.cpp), errors and drops                        *)
(* (network_link_stats.cpp).  An entry belongs to an identity (the         *)
(* interface index), but the files are read under the interface's name,    *)
(* after the snapshot was taken.  A rate is kept as what it divides and    *)
(* the sample it starts from.                                              *)
(***************************************************************************)
EXTENDS Integers, Sequences, FiniteSets, SequencesExt, Subsequences

CONSTANTS
    Links,         \* identities, a lower one was seen first
    Rooms,         \* history sizes that may be configured
    MaxTracked,    \* kMaxTrackedPacketMtuInterfaces, kMaxTrackedLinkStatsInterfaces
    MaxEvents,     \* kNetworkPacketMtuMaxEvents
    MaxHappens,    \* bound: what happens besides the updates
    MaxUpdates     \* bound: updates

ASSUME LinkConstants ==
    /\ Links \subseteq Nat /\ Rooms \subseteq Nat \ {0} /\ MaxTracked \in Nat \ {0}
    /\ MaxEvents \in Nat \ {0} /\ MaxHappens \in Nat /\ MaxUpdates \in Nat

Mtus == {1500, 9000}
Missing == 0     \* an optional without a value

VARIABLES
    counting,    \* which monitor is looked at
    units,       \* external: units each link counted since boot
    restarted,   \* external: units when its counter started from zero
    names,       \* external: the names of the links that are there
    discovered,  \* what the last refresh of the interfaces found
    due,         \* that snapshot has not been given to the monitor
    room,        \* history_max_samples_
    paused,      \* history_paused_
    tracked,     \* tracked_
    updates,
    happened     \* what happened so far

linkVars == <<counting, units, restarted, names, discovered, due, room, paused, tracked, updates,
              happened>>

Happens == happened < MaxHappens /\ happened' = happened + 1

NoLinks == [d \in {} |-> 0]

LinksInit ==
    /\ counting \in {"packets", "statistics"}
    /\ units = [d \in Links |-> 0] /\ restarted = units
    /\ names = [d \in Links |-> d]
    /\ discovered = NoLinks /\ due = FALSE
    /\ room \in Rooms /\ paused = FALSE /\ tracked = NoLinks /\ updates = 0
    /\ happened = 0

-----------------------------------------------------------------------------
(* The kernel.                                                             *)

LinkCounts(d) ==
    /\ d \in DOMAIN names /\ Happens
    /\ units' = [units EXCEPT ![d] = @ + 1]
    /\ UNCHANGED <<counting, restarted, names, discovered, due, room, paused, tracked, updates>>

LinkLeaves(d) ==
    /\ d \in DOMAIN names /\ Happens
    /\ names' = [other \in DOMAIN names \ {d} |-> names[other]]
    /\ UNCHANGED <<counting, units, restarted, discovered, due, room, paused, tracked, updates>>

\* A driver that is loaded again counts from zero; the name may be the one of another link
\* that has left.
LinkReturns(d) ==
    /\ d \in Links \ DOMAIN names /\ Happens
    /\ \E name \in Links \ {names[other] : other \in DOMAIN names} :
          names' = [other \in DOMAIN names \cup {d} |-> IF other = d THEN name ELSE names[other]]
    /\ restarted' = [restarted EXCEPT ![d] = units[d]]
    /\ UNCHANGED <<counting, units, discovered, due, room, paused, tracked, updates>>

-----------------------------------------------------------------------------
(* One update of the monitor.                                              *)

\* NetworkInterfaceMonitor::refresh: names, and the packet counters where there are any.
Discover ==
    /\ ~ due /\ updates < MaxUpdates
    /\ \E known \in IF counting = "packets" THEN SUBSET DOMAIN names ELSE {{}} :
          discovered' = [d \in DOMAIN names |->
              [name |-> names[d], known |-> d \in known, count |-> units[d] - restarted[d],
               truth |-> units[d]]]
    /\ due' = TRUE
    /\ UNCHANGED <<counting, units, restarted, names, room, paused, tracked, updates, happened>>

\* readNetworkLinkStats, readNetworkInterfaceMtu: the files of whatever has the name now.
Owner(name) == {d \in DOMAIN names : names[d] = name}
FileOf(d, file) ==
    CASE file = "denied" -> "denied"
      [] file = "ok" /\ Owner(discovered[d].name) # {} -> "ok"
      [] OTHER -> "none"
Owned(d) == CHOOSE owner \in Owner(discovered[d].name) : TRUE

\* The counters that were read, with what the identity truly counted until then (ghost).
ReadOf(d, file, mtu) ==
    IF counting = "packets"
    THEN [fresh |-> discovered[d].known, own |-> TRUE, count |-> discovered[d].count,
          truth |-> discovered[d].truth,
          mtu |-> IF FileOf(d, file) = "ok" THEN mtu ELSE Missing]
    ELSE IF FileOf(d, file) = "ok"
    THEN [fresh |-> TRUE, own |-> Owned(d) = d, count |-> units[Owned(d)] - restarted[Owned(d)],
          truth |-> units[d], mtu |-> Missing]
    ELSE [fresh |-> FALSE, own |-> TRUE, count |-> 0, truth |-> units[d], mtu |-> Missing]

\* lastCounterBaseline; last_valid.
AllSamples(samples) == samples
Baselines(samples) == Picked(samples, {k \in DOMAIN samples : samples[k].fresh})

\* deriveNetworkPacketMtuRates, deriveNetworkLinkStatRates: nothing without a baseline or
\* from a counter that decreased.
NoRate == [own |-> TRUE, moved |-> 0, real |-> 0]
RateFrom(baselines, read) ==
    IF ~ read.fresh \/ baselines = <<>> THEN NoRate
    ELSE IF read.count < Last(baselines).count THEN NoRate
    ELSE [own |-> read.own /\ Last(baselines).own, moved |-> read.count - Last(baselines).count,
          real |-> read.truth - Last(baselines).truth]
Discontinued(baselines, read) ==
    read.fresh /\ baselines # <<>> /\ read.count < Last(baselines).count

LastOf(samples, field, default) == IF samples = <<>> THEN default ELSE Last(samples)[field]

\* updateNetworkPacketMtu, updateNetworkLinkStats: what was not read is kept from the last
\* sample, but only a value that was read serves as a baseline.
SampleOf(samples, read) ==
    [fresh |-> read.fresh, own |-> read.own,
     count |-> IF read.fresh THEN read.count ELSE LastOf(samples, "count", 0),
     truth |-> read.truth,
     mtu |-> IF read.mtu # Missing THEN read.mtu ELSE LastOf(samples, "mtu", Missing),
     rate |-> RateFrom(Baselines(samples), read)]

MtuChanged(samples, read) ==
    read.mtu # Missing /\ LastOf(samples, "mtu", Missing) \notin {Missing, read.mtu}

\* The ring is made anew with the room of now.
Retaining(samples) == SubSeq(samples, IF Len(samples) > room THEN Len(samples) - room + 1 ELSE 1, Len(samples))

StateOf(d, read, file) ==
    IF read.fresh \/ read.mtu # Missing THEN "valid"
    ELSE IF FileOf(d, file) = "denied" THEN "stale" ELSE "unavailable"

NoEntry == [present |-> TRUE, state |-> "unknown", samples |-> <<>>, events |-> <<>>,
            changes |-> 0, discontinuities |-> 0]

EntryAfter(d, file, mtu) ==
    LET entry == IF d \in DOMAIN tracked THEN tracked[d] ELSE NoEntry
        read == ReadOf(d, file, mtu)
    IN [present |-> TRUE, state |-> StateOf(d, read, file),
        samples |-> Retaining(Append(entry.samples, SampleOf(entry.samples, read))),
        events |-> IF MtuChanged(entry.samples, read) /\ Len(entry.events) < MaxEvents
                   THEN Append(entry.events, read.mtu) ELSE entry.events,
        changes |-> entry.changes + (IF MtuChanged(entry.samples, read) THEN 1 ELSE 0),
        discontinuities |-> entry.discontinuities
            + (IF Discontinued(Baselines(entry.samples), read) THEN 1 ELSE 0)]

\* evictOverflow: of the links that are gone, those seen first make room.
Evicted(entries) ==
    LET gone == {d \in DOMAIN entries : ~ entries[d].present}
        excess == Cardinality(DOMAIN entries) - MaxTracked
    IN {d \in gone : Cardinality({e \in gone : e < d}) < excess}

\* What becomes of the reads: each its own for the counters, alike for the MTU.
Files ==
    {[d \in DOMAIN discovered |-> file] : file \in {"ok", "denied", "none"}}
    \cup IF counting = "packets" THEN {} ELSE [DOMAIN discovered -> {"ok", "none"}]

Update ==
    /\ due /\ ~ paused
    /\ \E files \in Files, mtu \in IF counting = "packets" THEN Mtus ELSE {Missing} :
          LET entries == [d \in DOMAIN tracked \cup DOMAIN discovered |->
                            IF d \in DOMAIN discovered THEN EntryAfter(d, files[d], mtu)
                            ELSE [tracked[d] EXCEPT !.present = FALSE]]
          IN tracked' = [d \in DOMAIN entries \ Evicted(entries) |-> entries[d]]
    /\ due' = FALSE /\ updates' = updates + 1
    /\ UNCHANGED <<counting, units, restarted, names, discovered, room, paused, happened>>

SkipUpdate ==
    /\ due /\ paused
    /\ due' = FALSE /\ updates' = updates + 1
    /\ UNCHANGED <<counting, units, restarted, names, discovered, room, paused, tracked, happened>>

\* Public operations: no page of the program pauses or resets; the settings change the
\* size, which the next update applies.
PauseHistory ==
    /\ ~ due /\ Happens /\ paused' = ~ paused
    /\ UNCHANGED <<counting, units, restarted, names, discovered, due, room, tracked, updates>>

ResetHistory ==
    /\ ~ due /\ Happens /\ tracked' = NoLinks
    /\ UNCHANGED <<counting, units, restarted, names, discovered, due, room, paused, updates>>

SetHistorySize(size) ==
    /\ ~ due /\ Happens /\ size # room /\ room' = size
    /\ UNCHANGED <<counting, units, restarted, names, discovered, due, paused, tracked, updates>>

LinksNext ==
    \/ \E d \in Links : LinkCounts(d) \/ LinkLeaves(d) \/ LinkReturns(d)
    \/ Discover \/ Update \/ SkipUpdate
    \/ PauseHistory \/ ResetHistory \/ \E size \in Rooms : SetHistorySize(size)

LinksSpec == LinksInit /\ [][LinksNext]_linkVars
-----------------------------------------------------------------------------
\* summarizeNetworkLinkStats: the retained samples that were read, of which the summary needs
\* the first and the last; summarizeNetworkPacketMtu does the same.
FirstAndLast(samples) ==
    LET read == Baselines(samples) IN IF Len(read) < 2 THEN <<>> ELSE <<Head(read), Last(read)>>

\* The difference over the retained history, if the counter did not decrease.
WindowMoved(samples) ==
    LET ends == FirstAndLast(samples)
    IN IF ends = <<>> THEN 0
       ELSE IF ends[2].count < ends[1].count THEN 0
       ELSE ends[2].count - ends[1].count

\* Through failed reads, resets, links that leave and return, evictions and changes of the
\* history's size, no rate and no total of the history is more than the link counted in
\* the time the rate or total is over - as long as the files read under its name were its own.
CountsOfTheLink ==
    \A d \in DOMAIN tracked :
        LET samples == tracked[d].samples
            read == Baselines(samples)
        IN /\ \A s \in 1 .. Len(samples) :
                 samples[s].rate.own => samples[s].rate.moved <= samples[s].rate.real
           /\ (\A s \in 1 .. Len(read) : read[s].own) =>
                 WindowMoved(samples) <= (IF read = <<>> THEN 0 ELSE Last(read).truth - Head(read).truth)
=============================================================================
