--------------------------- MODULE HistoryManager ---------------------------
(***************************************************************************)
(* The resource history (history_manager.cpp, resource_history.hpp) and    *)
(* what the main loop puts into it: series for the whole system and series *)
(* per CPU, GPU and sensor, which belong to the devices by position.  A    *)
(* sample is the refresh it was taken in and, for a device, the device it  *)
(* was taken from.                                                         *)
(***************************************************************************)
EXTENDS Naturals, Sequences, FiniteSets

CONSTANTS
    Ids,           \* CPU numbers, or names of GPUs or labels of sensors
    Capacities,    \* history.max_samples as it may be set
    MaxListed,     \* bound: devices of a list
    MaxRefreshes   \* bound: refreshes

ASSUME HistoryConstants ==
    /\ Capacities \subseteq Nat \ {0} /\ Capacities # {}
    /\ MaxListed \in Nat /\ MaxRefreshes \in Nat

\* The series of the whole system that are updated together.
Groups == {"system", "memory", "pressure", "load", "processes"}

VARIABLES
    maxSamples,   \* max_samples_
    capacity,     \* the capacity the fixed series were made with
    series,       \* the fixed series, one for each group
    list,         \* which list of devices is looked at: cpus_, gpus_ or sensors_
    devices,      \* that list: a series for each device, in order
    refreshes     \* refreshes so far

historyVars == <<maxSamples, capacity, series, list, devices, refreshes>>

HistoryInit ==
    /\ maxSamples \in Capacities /\ capacity = maxSamples
    /\ series = [g \in Groups |-> <<>>] /\ list \in {"cpus", "gpus"} /\ devices = <<>>
    /\ refreshes = 0

-----------------------------------------------------------------------------
\* ResourceHistory::addSample.
AddSample(samples, room, sample) ==
    Append(IF Len(samples) >= room THEN Tail(samples) ELSE samples, sample)

Recorded(groups) ==
    series' = [g \in Groups |->
        IF g \in groups THEN AddSample(series[g], capacity, refreshes + 1) ELSE series[g]]

\* The devices of a refresh in the order the monitor lists them; unknown is what has
\* no reading.
Readings ==
    UNION {{r \in [1 .. n -> [id : Ids, known : BOOLEAN]] :
               \A i, j \in 1 .. n : i # j => r[i].id # r[j].id} : n \in 0 .. MaxListed}

ChangedInNumber(readings) == Len(devices) # Len(readings)
\* syncCpuHistories, syncGpuHistories, syncSensorHistories: any difference in the list
\* makes all of them new.
Changed(readings) ==
    \/ Len(devices) # Len(readings)
    \/ \E i \in 1 .. Len(readings) : devices[i].id # readings[i].id

Synced(readings) ==
    IF Changed(readings)
    THEN [i \in 1 .. Len(readings) |-> [id |-> readings[i].id, room |-> maxSamples, samples |-> <<>>]]
    ELSE devices

\* Then every known reading goes to the series at its position.
Updated(readings) ==
    LET synced == Synced(readings)
    IN [i \in 1 .. Len(synced) |->
           IF ~ readings[i].known THEN synced[i]
           ELSE [synced[i] EXCEPT !.samples =
                    AddSample(@, synced[i].room, [of |-> readings[i].id, at |-> refreshes + 1])]]

\* cpuHistoryVector: only the CPUs that have a sample are handed over.
Sampled(readings) ==
    LET known == {i \in 1 .. Len(readings) : readings[i].known}
        Nth(n) == CHOOSE i \in known : Cardinality({j \in known : j <= i}) = n
    IN [n \in 1 .. Cardinality(known) |-> readings[Nth(n)]]

\* A refresh: memory, pressure and load only if one of their files could be read.  The
\* refresh after the process page leaves pressure and load out.
Sample(groups) ==
    /\ refreshes < MaxRefreshes
    /\ \E readable \in SUBSET {"memory", "pressure", "load"} :
          Recorded(groups \ ({"memory", "pressure", "load"} \ readable))
    /\ \E readings \in Readings :
          devices' = Updated(IF list = "cpus" THEN Sampled(readings) ELSE readings)
    /\ refreshes' = refreshes + 1
    /\ UNCHANGED <<maxSamples, capacity, list>>

Tick == Sample(Groups)
AfterManage == Sample(Groups \ {"pressure", "load"})

\* applySettingsToRuntime, setMaxSamples: everything is cleared; only the series made
\* afterwards have the new room.
SetMaxSamples(room) ==
    /\ room # maxSamples
    /\ maxSamples' = room
    /\ series' = [g \in Groups |-> <<>>] /\ devices' = <<>>
    /\ UNCHANGED <<capacity, list, refreshes>>

HistoryNext == Tick \/ AfterManage \/ \E room \in Capacities : SetMaxSamples(room)

HistorySpec == HistoryInit /\ [][HistoryNext]_historyVars
-----------------------------------------------------------------------------
\* A graph shows its own device, though samples find their series by position, and
\* never more than its room; and the series of one update never drift apart.
SamplesOfTheirDevice ==
    /\ \A i \in 1 .. Len(devices) :
          /\ Len(devices[i].samples) <= devices[i].room
          /\ \A s \in 1 .. Len(devices[i].samples) :
                devices[i].samples[s].of = devices[i].id
    /\ series["system"] = series["processes"]
=============================================================================
