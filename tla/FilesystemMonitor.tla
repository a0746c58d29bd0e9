-------------------------- MODULE FilesystemMonitor -------------------------
(***************************************************************************)
(* FilesystemMonitor (filesystem_monitor.cpp): one reading of the list of  *)
(* mounts, then one statvfs(2) for each, by path, and a sample of each in  *)
(* a bounded number of series.  Meanwhile filesystems are mounted, over    *)
(* one another too, and unmounted.  The kernel gives a new mount the       *)
(* lowest number that is free; a serial tells mounts apart here.           *)
(***************************************************************************)
EXTENDS Integers, Sequences, FiniteSets, SequencesExt

CONSTANTS
    MountPoints,
    Answers,          \* what statvfs may count: [unit, blocks, free, available]
    Bytes,            \* uint64_t holds less
    MaxSeriesKept,    \* kMaxTrackedFilesystemSeries
    RingSizes,        \* history.max_samples as it may be set
    MaxMounts,        \* bound: mounts ever made
    MaxListings       \* bound: refreshes

ASSUME FilesystemConstants ==
    /\ \A a \in Answers : {a.unit, a.blocks, a.free, a.available} \subseteq Nat
    /\ Bytes \in Nat \ {0} /\ MaxSeriesKept \in Nat \ {0} /\ RingSizes \subseteq Nat \ {0}
    /\ MaxMounts \in Nat /\ MaxListings \in Nat

VARIABLES
    mounts,      \* external: the mounts, in order
    made,        \* external: mounts made
    listing,     \* mounts: what readMountInfo found
    reading,     \* read() has begun
    histories,   \* histories_
    ringSize,    \* max_samples_
    listings,    \* refreshes so far
    reborn       \* ghost: identities with a series that became another mount's

mountVars == <<mounts, made, listing, reading, histories, ringSize, listings, reborn>>

\* FilesystemInfo::identity
Identity(mount) == <<mount.id, mount.point>>
ListedIdentities == {Identity(listing[k]) : k \in DOMAIN listing}
NoSeries == [i \in {} |-> 0]

FilesystemsInit ==
    /\ mounts = <<>> /\ made = 0
    /\ listing = <<>> /\ reading = FALSE
    /\ histories = NoSeries /\ ringSize \in RingSizes /\ listings = 0 /\ reborn = {}

-----------------------------------------------------------------------------
(* The kernel.                                                             *)

FreeId == CHOOSE id \in 1 .. Len(mounts) + 1 :
             /\ \A k \in DOMAIN mounts : mounts[k].id # id
             /\ \A lower \in 1 .. id - 1 : \E k \in DOMAIN mounts : mounts[k].id = lower

Mounted(point, pseudo) ==
    /\ made < MaxMounts /\ made' = made + 1
    /\ LET mount == [id |-> FreeId, point |-> point, pseudo |-> pseudo, serial |-> made'] IN
       /\ mounts' = Append(mounts, mount)
       /\ reborn' = reborn \cup ({Identity(mount)} \cap
                        (DOMAIN histories \cup IF reading THEN ListedIdentities ELSE {}))
    /\ UNCHANGED <<listing, reading, histories, ringSize, listings>>

On(point) == {k \in DOMAIN mounts : mounts[k].point = point}
Top(point) == CHOOSE k \in On(point) : \A other \in On(point) : other <= k

Unmounted(point) ==
    /\ On(point) # {}
    /\ mounts' = RemoveAt(mounts, Top(point))
    /\ UNCHANGED <<made, listing, reading, histories, ringSize, listings, reborn>>

-----------------------------------------------------------------------------
(* computeFilesystemCapacity                                               *)

Unavailable == -1   \* an optional without a value

\* scaleBlocks
Scaled(blocks, unit) == IF blocks * unit < Bytes THEN blocks * unit ELSE Unavailable
\* Inconsistent counters are cut down to the whole.
Clamped(part, whole) ==
    IF Unavailable \in {part, whole} THEN part ELSE IF part > whole THEN whole ELSE part

\* clampPercentage, of what is not free.
Percentage(free, total) ==
    IF Unavailable \in {free, total} \/ total = 0 THEN Unavailable ELSE ((total - free) * 100) \div total

\* Inodes are counted like bytes, with a unit of one.
Capacity(answer) ==
    LET total == Scaled(answer.blocks, answer.unit)
        free == Clamped(Scaled(answer.free, answer.unit), total)
        available == Clamped(Scaled(answer.available, answer.unit), total)
    IN IF answer.unit = 0 THEN [usage |-> Unavailable, available |-> Unavailable, total |-> Unavailable]
       ELSE [usage |-> Percentage(free, total), available |-> available, total |-> total]

-----------------------------------------------------------------------------
(* read(), setHistoryMaxSamples().  No page clears or pauses the history.  *)

\* readMountInfo: all lines, or none.
ReadMountInfo ==
    /\ ~ reading /\ listings < MaxListings
    /\ reading' = TRUE
    /\ listing' \in {mounts, <<>>}
    /\ UNCHANGED <<mounts, made, histories, ringSize, listings, reborn>>

\* statvfs fails, or the filesystem answers that is on top there by now, or that has the
\* directory.
NoFigures == [usage |-> Unavailable, available |-> Unavailable, total |-> Unavailable]
Outcomes == {NoFigures} \cup {Capacity(answer) : answer \in Answers}

\* A sample tells the mount it is filed for, and the most it may be.
SeriesRing(samples, value, most, k) ==
    IF value = Unavailable THEN samples
    ELSE LET all == Append(samples, [at |-> listings + 1, value |-> value, most |-> most,
                                     of |-> listing[k].serial])
         IN IF Len(all) > ringSize THEN Tail(all) ELSE all

Measurable(figures) == {figures.usage, figures.available} # {Unavailable}

\* One mount: a series that is there, or room for one more.
WithSample(series, k, figures) ==
    LET i == Identity(listing[k])
        old == IF i \in DOMAIN series THEN series[i] ELSE [usage |-> <<>>, available |-> <<>>]
    IN IF listing[k].pseudo \/ ~ Measurable(figures)
          \/ (i \notin DOMAIN series /\ Cardinality(DOMAIN series) >= MaxSeriesKept)
       THEN series
       ELSE [j \in DOMAIN series \cup {i} |->
               IF j # i THEN series[j]
               ELSE [usage |-> SeriesRing(old.usage, figures.usage, 100, k),
                     available |-> SeriesRing(old.available, figures.available, figures.total, k)]]

\* pruneHistory
KeptForEver(series) == series
KeptOfMounts(series) == [i \in ListedIdentities \cap DOMAIN series |-> series[i]]

\* The loop over the mounts.
AllSampled(answered) ==
    LET after[k \in 0 .. Len(listing)] ==
            IF k = 0 THEN histories ELSE WithSample(after[k - 1], k, answered[k])
    IN after[Len(listing)]

\* Vanished mounts hold their series until the new ones have been sampled.
RecordHistory ==
    /\ reading /\ reading' = FALSE /\ listings' = listings + 1
    /\ \E answered \in [DOMAIN listing -> Outcomes] :
          histories' = KeptOfMounts(AllSampled(answered))
    /\ reborn' = reborn \cap DOMAIN histories'
    /\ UNCHANGED <<mounts, made, listing, ringSize>>

SetRingSize(size) ==
    /\ ~ reading /\ size # ringSize /\ ringSize' = size
    /\ histories' = [i \in DOMAIN histories |-> [usage |-> <<>>, available |-> <<>>]]
    /\ UNCHANGED <<mounts, made, listing, reading, listings, reborn>>

FilesystemsNext ==
    \/ \E point \in MountPoints : (\E pseudo \in BOOLEAN : Mounted(point, pseudo)) \/ Unmounted(point)
    \/ ReadMountInfo \/ RecordHistory
    \/ \E size \in RingSizes : SetRingSize(size)

FilesystemsSpec == FilesystemsInit /\ [][FilesystemsNext]_mountVars

-----------------------------------------------------------------------------
\* A graph is of the mount it stands beside: no series joins two mounts, though paths and
\* numbers are used again, unless a mount got both between two refreshes; one sample a
\* refresh, none beyond the whole whatever statvfs counts, and never more series or samples
\* than there is room for.
SeriesFollowMounts ==
    /\ Cardinality(DOMAIN histories) <= MaxSeriesKept
    /\ DOMAIN histories \subseteq ListedIdentities \/ reading
    /\ \A i \in DOMAIN histories : \A ring \in {histories[i].usage, histories[i].available} :
          /\ Len(ring) <= ringSize
          /\ \A n \in DOMAIN ring :
                /\ ring[n].value >= 0
                /\ ring[n].most # Unavailable => ring[n].value <= ring[n].most
          /\ \A n \in 2 .. Len(ring) :
                /\ ring[n - 1].at < ring[n].at
                /\ i \notin reborn => ring[n - 1].of = ring[n].of
=============================================================================
