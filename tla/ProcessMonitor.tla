--------------------------- MODULE ProcessMonitor ---------------------------
(***************************************************************************)
(* The process list (process_monitor.cpp, the rates of                     *)
(* process_resources.cpp), the births and exits counted from it            *)
(* (process_statistics.cpp) and the tree built from it (process_tree.cpp). *)
(* One refresh reads /proc pid by pid, and of a pid first stat and later   *)
(* io, while processes work, fork, exit and pids are reused.  What a       *)
(* process did is one number: its CPU ticks and its bytes.                 *)
(***************************************************************************)
EXTENDS Integers, FiniteSets

CONSTANTS
    Numbers,
    MaxForks,    \* bound: processes ever forked
    MaxWork,     \* bound: work done by the holders of one pid
    MaxScans     \* bound: scans

None == 0
ASSUME ProcessMonitorConstants ==
    /\ None \notin Numbers /\ MaxForks \in Nat /\ MaxWork \in Nat /\ MaxScans \in Nat

VARIABLES
    started,     \* external: the start time of the process that has a pid, or None
    ppid,        \* external: its parent
    work,        \* external: what it did
    done,        \* ghost: what all processes that had the pid did
    forks,       \* external: start times given out
    scanning,    \* the pids the scan has still to read, with {None} as its end
    half,        \* the process whose stat has been read and whose io has not
    scale,       \* ticks_to_percent of this scan has a value
    snapshot,    \* snapshot.processes
    ticks,       \* previous_ticks_, by pid
    totals,      \* previous_total_ticks_ has a value
    bytes,       \* previous_io_, by identity
    scans,       \* has_previous_scan_ is that there was one
    seen,        \* previous_identities_ of the aggregator
    births, exits,   \* process_creations, process_exits
    tree         \* the processes of the tree

kernel == <<started, ppid, work, done, forks>>
scanned == <<ticks, totals, bytes, scans, seen, births, exits, tree>>
processVars == <<kernel, scanning, half, scale, snapshot, scanned>>

Empty == [p \in {} |-> None]
Idle == scanning = {}

ProcessesInit ==
    /\ started = [p \in Numbers |-> None] /\ ppid = started /\ work = started /\ done = started
    /\ forks = 0
    /\ scanning = {} /\ half = Empty /\ scale = FALSE /\ snapshot = Empty
    /\ ticks = Empty /\ totals = FALSE /\ bytes = {} /\ scans = 0
    /\ seen = {} /\ births = 0 /\ exits = 0 /\ tree = {}

-----------------------------------------------------------------------------
(* The kernel.  None is also the parent that is not in the snapshot.       *)

Forks(p, parent) ==
    /\ started[p] = None /\ forks < MaxForks
    /\ parent # None => parent # p /\ started[parent] # None
    /\ forks' = forks + 1
    /\ started' = [started EXCEPT ![p] = forks + 1]
    /\ ppid' = [ppid EXCEPT ![p] = parent]
    /\ work' = [work EXCEPT ![p] = 0]
    /\ UNCHANGED <<done, scanning, half, scale, snapshot, scanned>>

\* The children of a process that exits are given to init.
Dies(p) ==
    /\ started[p] # None
    /\ started' = [started EXCEPT ![p] = None]
    /\ ppid' = [q \in Numbers |-> IF q = p \/ ppid[q] = p THEN None ELSE ppid[q]]
    /\ UNCHANGED <<work, done, forks, scanning, half, scale, snapshot, scanned>>

Works(p) ==
    /\ started[p] # None /\ done[p] < MaxWork
    /\ work' = [work EXCEPT ![p] = @ + 1]
    /\ done' = [done EXCEPT ![p] = @ + 1]
    /\ UNCHANGED <<started, ppid, forks, scanning, half, scale, snapshot, scanned>>

-----------------------------------------------------------------------------
(* ProcessMonitor::read().                                                 *)

\* The total of /proc/stat first; it may be unreadable, and no tick may have passed
\* since the last scan.  Then the entries of /proc, those of the moment.
BeginScan ==
    /\ Idle /\ scans < MaxScans
    /\ \E readable \in BOOLEAN, passed \in BOOLEAN :
          /\ scale' = (totals /\ readable /\ passed)
          /\ totals' = readable
    /\ scanning' = {p \in Numbers : started[p] # None} \cup {None}
    /\ snapshot' = Empty
    /\ UNCHANGED <<kernel, half, ticks, bytes, scans, seen, births, exits, tree>>

\* readProcess, up to io.  A process that is gone is passed over.  The CPU time is
\* compared with that of the pid at the last scan, unless it went back.
UsedSince(p) == IF scale /\ p \in DOMAIN ticks THEN work[p] - ticks[p].work ELSE 0
CpuSinceWrapped(p) == IF UsedSince(p) >= 0 THEN UsedSince(p) ELSE MaxWork + 1
CpuSince(p) == IF UsedSince(p) >= 0 THEN UsedSince(p) ELSE 0

ReadStatOf(p) ==
    /\ p \in scanning \ {None} /\ half = Empty
    /\ IF started[p] = None
       THEN scanning' = scanning \ {p} /\ UNCHANGED half
       ELSE /\ half' = [q \in {p} |->
                  [start |-> started[p], ppid |-> ppid[p], work |-> work[p], done |-> done[p],
                   cpu |-> CpuSince(p),
                   cpuOf |-> IF scale /\ p \in DOMAIN ticks THEN ticks[p].start ELSE None,
                   window |-> IF p \in DOMAIN ticks THEN done[p] - ticks[p].done ELSE 0]]
            /\ UNCHANGED scanning
    /\ UNCHANGED <<kernel, scale, snapshot, scanned>>

\* io, if it can be read: by pid, filed and compared under the identity of stat.
Baselines(p) == {b \in bytes : b.pid = p /\ b.start = half[p].start}
IoSince(p) ==
    IF scans > 0 /\ Baselines(p) # {}
    THEN LET before == CHOOSE b \in Baselines(p) : TRUE
         IN [io |-> IF work[p] > before.work THEN work[p] - before.work ELSE 0,
             ioWindow |-> done[p] - before.done]
    ELSE [io |-> 0, ioWindow |-> 0]

ReadIoOf(p) ==
    /\ p \in DOMAIN half
    /\ \E counters \in {[work |-> None, done |-> None, available |-> FALSE]} \cup
             IF started[p] = None THEN {}
             ELSE {[work |-> work[p], done |-> done[p], available |-> TRUE]} :
          snapshot' = [q \in DOMAIN snapshot \cup {p} |->
              IF q = p
              THEN [identity |-> [pid |-> p, start |-> half[p].start], stat |-> half[p],
                    counters |-> counters,
                    rate |-> IF counters.available THEN IoSince(p)
                             ELSE [io |-> 0, ioWindow |-> 0]]
              ELSE snapshot[q]]
    /\ scanning' = scanning \ {p} /\ half' = Empty
    /\ UNCHANGED <<kernel, scale, scanned>>

-----------------------------------------------------------------------------
(* What follows a scan in the refresh.                                     *)

Identities == {snapshot[p].identity : p \in DOMAIN snapshot}

\* ProcessStatisticsAggregator::update: the first snapshot is only the baseline.
Update ==
    /\ births' = IF scans = 0 THEN 0 ELSE Cardinality(Identities \ seen)
    /\ exits' = IF scans = 0 THEN 0 ELSE Cardinality(seen \ Identities)
    /\ seen' = Identities

\* buildProcessTree: a process without a parent in the snapshot is a root, and only
\* what hangs below a root is shown; visited stops at the second visit.
ParentOf(p) == snapshot[p].stat.ppid
HasParent(p) == ParentOf(p) \in DOMAIN snapshot /\ ParentOf(p) # p
Roots == {p \in DOMAIN snapshot : ~ HasParent(p)}
Children(p) == {q \in DOMAIN snapshot : HasParent(q) /\ ParentOf(q) = p}

\* make_node, level by level.
TreeBelow[level \in SUBSET Numbers] ==
    IF level = {} THEN {} ELSE level \cup TreeBelow[UNION {Children(p) : p \in level}]

BuildTree == tree' = TreeBelow[Roots]

Record ==
    /\ ticks' = [p \in DOMAIN snapshot |-> [work |-> snapshot[p].stat.work,
                    done |-> snapshot[p].stat.done, start |-> snapshot[p].identity.start]]
    /\ bytes' = {[pid |-> p, start |-> snapshot[p].identity.start,
                  work |-> snapshot[p].counters.work, done |-> snapshot[p].counters.done] :
                 p \in {q \in DOMAIN snapshot : snapshot[q].counters.available}}

\* The scan is over, or an error cuts it short; what was read is recorded.
EndScan ==
    /\ None \in scanning /\ half = Empty
    /\ scanning' = {}
    /\ Record /\ scans' = scans + 1
    /\ Update
    /\ BuildTree
    /\ UNCHANGED <<kernel, half, scale, snapshot, totals>>

ProcessesNext ==
    \/ \E p \in Numbers :
          \/ \E parent \in Numbers \cup {None} : Forks(p, parent)
          \/ Dies(p) \/ Works(p) \/ ReadStatOf(p) \/ ReadIoOf(p)
    \/ BeginScan \/ EndScan

ProcessesSpec == ProcessesInit /\ [][ProcessesNext]_processVars

-----------------------------------------------------------------------------
\* Neither CPU nor I/O use is overstated, whoever had the pid at either reading.
UseIsReal ==
    \A p \in DOMAIN snapshot :
        /\ snapshot[p].stat.cpu <= snapshot[p].stat.window
        /\ snapshot[p].rate.io <= snapshot[p].rate.ioWindow
=============================================================================
