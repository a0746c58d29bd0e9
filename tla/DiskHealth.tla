----------------------------- MODULE DiskHealth -----------------------------
(***************************************************************************)
(* DiskHealthMonitor (disk_health.cpp): one background worker reads the    *)
(* SMART/NVMe health of every monitored disk when a client asks for it,    *)
(* and keeps one cache entry per disk.  Clients and worker share a mutex   *)
(* and one condition variable; a critical section is one action here.  The *)
(* slow part, reading a disk, runs without the mutex, so devices may be    *)
(* reconfigured, and disks pulled or swapped, in the middle of it.         *)
(***************************************************************************)
EXTENDS Naturals, FiniteSets

CONSTANTS
    Names,       \* kernel names of whole disks ("sda", ...)
    Disks,       \* physical disks
    Identities,  \* what sysfs says of a disk (major, minor, driver topology)
    IdentityOf,  \* the identity a disk shows; two disks may show the same one
    Clients,     \* threads that call the monitor's public operations
    Failures,    \* error categories a provider's read may end with
    None,        \* no disk, no identity, no snapshot
    MaxMoves     \* bound: changes of one slot during a single health read

WorkerThread == "worker"

\* HealthErrorCategory; TransportError stands for it, ParseError, Timeout, Unknown.
Categories == {"None", "Unsupported", "PermissionDenied", "DeviceUnavailable",
               "TransportError"}

ASSUME ConstantsAssumption ==
    /\ IdentityOf \in [Disks -> Identities]
    /\ None \notin Disks \cup Identities
    /\ WorkerThread \notin Clients
    /\ Failures \subseteq Categories \ {"None"}

ASSUME MovesAssumption == MaxMoves \in {0, 1}

VARIABLES
    slot,        \* external: the disk behind each name, or None
    moved,       \* how often slot[cur] changed since its identity was read
    stop, pending, forced, refreshing,   \* stop_, refresh_pending_, forced_, refreshing_
    devices,     \* devices_
    results,     \* results_: a function on the names that have an entry
    attempts,    \* attempts_ and attempt_category_: the last category per name
    aged,        \* names whose last attempt is older than kHealthRetryBackoff
    sleeping,    \* threads blocked in cv_.wait
    wpc,         \* where the worker is
    todo, force, agedAtStart,   \* runCycle: names left, force, ages seen by `now`
    cur, ident, result,         \* readOne: name, identity, snapshot under way
    cpc,         \* where each client is
    raced,       \* history: setDevices ran during a cycle and not since in idle
    owed,        \* history: force values of the accepted requests not yet served
    unread       \* history: names of the running cycle not attempted yet

env == <<slot, moved>>
flags == <<stop, pending, forced, refreshing>>
cache == <<devices, results, attempts, aged>>
worker == <<wpc, todo, force, agedAtStart, cur, ident, result>>
history == <<raced, owed, unread>>
vars == <<env, flags, cache, worker, sleeping, cpc, history>>

(***************************************************************************)
(* Snapshots and cache entries, reduced to what is told apart: whether the *)
(* read succeeded, which disk the data came from, and the identity         *)
(* (major, minor) the snapshot is labelled with.                           *)
(***************************************************************************)
Snapshots ==
    [ok : BOOLEAN, error : Categories, disk : Disks \cup {None},
     ident : Identities \cup {None}]

\* last_success is an optional: no snapshot stands for its being empty.
ASSUME SnapshotAssumption == None \notin Snapshots

NoSnapshot == [ok |-> FALSE, error |-> "None", disk |-> None, ident |-> None]

FailSnapshot(snap, category) == [snap EXCEPT !.ok = FALSE, !.error = category]

Entries ==
    [state : Snapshots, last_success : Snapshots \cup {None}, last_error : Categories]

EmptyEntry == [state |-> NoSnapshot, last_success |-> None, last_error |-> "None"]

WithinRetryBackoff(category, isAged) ==
    category \in {"Unsupported", "PermissionDenied"} /\ ~isAged

\* cv_.notify_all: every sleeper re-tests its predicate.
NotifyNobody == UNCHANGED sleeping
NotifyAll == sleeping' = {}

\* The predicate of waitForIdle and the test of requestRefresh.
NoneRunning == ~refreshing
NonePending == ~pending
Idle == ~refreshing /\ ~pending

Init ==
    /\ slot \in [Names -> Disks \cup {None}]
    /\ \A m, n \in Names : slot[m] = slot[n] /\ slot[m] # None => m = n
    /\ moved = 0
    /\ stop = FALSE /\ pending = FALSE /\ forced = TRUE /\ refreshing = FALSE
    /\ devices = {} /\ aged = {}
    /\ results = [n \in {} |-> EmptyEntry] /\ attempts = [n \in {} |-> "None"]
    /\ sleeping = {}
    /\ wpc = "wait" /\ todo = {} /\ force = TRUE /\ agedAtStart = {}
    /\ cur = None /\ ident = None /\ result = NoSnapshot
    /\ cpc = [c \in Clients |-> "idle"]
    /\ raced = FALSE /\ owed = {} /\ unread = {}

-----------------------------------------------------------------------------
(* The operating system: disks come, go and are swapped; time passes. *)

Replug(n, d) ==
    /\ d # slot[n]
    /\ d # None => \A m \in Names : slot[m] # d
    /\ slot' = [slot EXCEPT ![n] = d]
    /\ IF n = cur /\ wpc \in {"read", "check"}
       THEN moved < MaxMoves /\ moved' = moved + 1
       ELSE moved' = moved
    /\ UNCHANGED <<flags, cache, worker, sleeping, cpc, history>>

BackoffElapses(n) ==
    /\ n \in DOMAIN attempts \ aged
    /\ aged' = aged \cup {n}
    /\ UNCHANGED <<env, flags, devices, results, attempts, worker, sleeping, cpc,
                   history>>

-----------------------------------------------------------------------------
(* The public operations.  A client calls them one after another.          *)

KeptNamesUnpruned(new) == new \cup DOMAIN results
KeptNames(new) == new

SetDevices(c, new) ==
    /\ cpc[c] = "idle" /\ ~stop
    /\ devices' = new
    /\ results' = [n \in KeptNames(new) |-> IF n \in DOMAIN results THEN results[n] ELSE EmptyEntry]
    \* Only names that had a cache entry lose their attempt.
    /\ attempts' = [n \in DOMAIN attempts \ (DOMAIN results \ new) |-> attempts[n]]
    /\ aged' = aged \ (DOMAIN results \ new)
    /\ raced' = refreshing
    /\ UNCHANGED <<env, flags, worker, sleeping, cpc, owed, unread>>

RequestRefresh(c, f) ==
    /\ cpc[c] = "idle" /\ ~stop
    /\ Idle      \* otherwise it returns false and nothing changes
    /\ pending' = TRUE
    /\ forced' = f
    /\ owed' = owed \cup {f}
    /\ NotifyAll
    /\ UNCHANGED <<env, stop, refreshing, cache, worker, cpc, raced, unread>>

WaitForIdle(c) ==
    /\ cpc[c] = "idle" /\ ~stop
    /\ cpc' = [cpc EXCEPT ![c] = "waiting"]
    /\ UNCHANGED <<env, flags, cache, worker, sleeping, history>>

WaitSleeps(c) ==
    /\ cpc[c] = "waiting" /\ c \notin sleeping
    /\ ~Idle
    /\ sleeping' = sleeping \cup {c}
    /\ UNCHANGED <<env, flags, cache, worker, cpc, history>>

WaitReturns(c) ==
    /\ cpc[c] = "waiting" /\ c \notin sleeping
    /\ Idle
    /\ cpc' = [cpc EXCEPT ![c] = "idle"]
    /\ UNCHANGED <<env, flags, cache, worker, sleeping, history>>

\* ~DiskHealthMonitor; no other call may be in progress when it starts.
Destroy(c) ==
    /\ \A b \in Clients : cpc[b] = "idle"
    /\ ~stop
    /\ stop' = TRUE
    /\ NotifyAll
    /\ cpc' = [cpc EXCEPT ![c] = "joining"]
    /\ UNCHANGED <<env, pending, forced, refreshing, cache, worker, history>>

Joined(c) ==
    /\ cpc[c] = "joining" /\ wpc = "exited"
    /\ cpc' = [cpc EXCEPT ![c] = "gone"]
    /\ UNCHANGED <<env, flags, cache, worker, sleeping, history>>

-----------------------------------------------------------------------------
(* The worker: workerLoop, runCycle and readOne.                           *)

WorkerSleeps ==
    /\ wpc = "wait" /\ WorkerThread \notin sleeping
    /\ ~stop /\ ~pending
    /\ sleeping' = sleeping \cup {WorkerThread}
    /\ UNCHANGED <<env, flags, cache, worker, cpc, history>>

WorkerExits ==
    /\ wpc = "wait" /\ WorkerThread \notin sleeping
    /\ stop
    /\ wpc' = "exited"
    /\ UNCHANGED <<env, flags, cache, todo, force, agedAtStart, cur, ident, result,
                   sleeping, cpc, history>>

TakeRequest == pending' = FALSE /\ refreshing' = TRUE /\ forced' = TRUE

CycleBegins ==
    /\ wpc = "wait" /\ WorkerThread \notin sleeping
    /\ ~stop /\ pending
    /\ todo' = devices /\ force' = forced /\ agedAtStart' = aged
    /\ TakeRequest
    /\ wpc' = "device"
    /\ unread' = devices
    /\ UNCHANGED <<env, stop, cache, cur, ident, result, sleeping, cpc, raced, owed>>

InBackoff(n) ==
    /\ ~force
    /\ n \in DOMAIN attempts
    /\ WithinRetryBackoff(attempts[n], n \in agedAtStart)

\* runCycle visits the names in sorted order; any order is allowed here.
SkipDevice(n) ==
    /\ wpc = "device" /\ n \in todo
    /\ InBackoff(n)
    /\ todo' = todo \ {n}
    /\ UNCHANGED <<env, flags, cache, wpc, force, agedAtStart, cur, ident, result,
                   sleeping, cpc, history>>

\* stop_ is read without the mutex: a set flag may or may not be seen.
CycleStops ==
    /\ wpc = "device" /\ todo # {} /\ stop
    /\ wpc' = "finish"
    /\ UNCHANGED <<env, flags, cache, todo, force, agedAtStart, cur, ident, result,
                   sleeping, cpc, history>>

CycleRunsOut ==
    /\ wpc = "device" /\ todo = {}
    /\ wpc' = "finish"
    /\ UNCHANGED <<env, flags, cache, todo, force, agedAtStart, cur, ident, result,
                   sleeping, cpc, history>>

ReadIdentity(n) ==
    /\ wpc = "device" /\ n \in todo
    /\ ~InBackoff(n)
    /\ todo' = todo \ {n}
    /\ cur' = n
    /\ moved' = 0
    /\ IF slot[n] = None
       THEN /\ ident' = None
            /\ result' = FailSnapshot(NoSnapshot, "DeviceUnavailable")
            /\ wpc' = "record"
       ELSE /\ ident' = IdentityOf[slot[n]]
            /\ result' = [NoSnapshot EXCEPT !.ident = IdentityOf[slot[n]]]
            /\ wpc' = "read"
    /\ UNCHANGED <<slot, flags, cache, force, agedAtStart, sleeping, cpc, history>>

\* The provider opens whatever disk is behind the name now.
ReadHealth ==
    /\ wpc = "read"
    /\ \/ /\ slot[cur] # None
          /\ result' = [result EXCEPT !.ok = TRUE, !.disk = slot[cur]]
       \/ \E category \in Failures : result' = FailSnapshot(result, category)
    /\ wpc' = "check"
    /\ UNCHANGED <<env, flags, cache, todo, force, agedAtStart, cur, ident, sleeping,
                   cpc, history>>

\* deviceIdentityUnchanged
SomeDiskPresent == slot[cur] # None
IdentityUnchanged == slot[cur] # None /\ IdentityOf[slot[cur]] = ident

CheckIdentity ==
    /\ wpc = "check"
    /\ result' = IF IdentityUnchanged THEN result
                 ELSE FailSnapshot(result, "DeviceUnavailable")
    /\ wpc' = "record"
    /\ UNCHANGED <<env, flags, cache, todo, force, agedAtStart, cur, ident, sleeping,
                   cpc, history>>

UpdatedEntryShowsFailure(entry, snap) ==
    IF snap.ok
    THEN [state |-> snap, last_success |-> snap, last_error |-> "None"]
    ELSE [entry EXCEPT !.state = snap, !.last_error = snap.error]

UpdatedEntry(entry, snap) ==
    IF snap.ok
    THEN [state |-> snap, last_success |-> snap, last_error |-> "None"]
    ELSE [entry EXCEPT !.state = IF entry.last_success # None
                                 THEN entry.last_success ELSE snap,
                       !.last_error = snap.error]

\* results_[name] creates the entry when there is none.
Record ==
    /\ wpc = "record"
    /\ LET entry == IF cur \in DOMAIN results THEN results[cur] ELSE EmptyEntry
       IN  results' = [n \in DOMAIN results \cup {cur} |->
                         IF n = cur THEN UpdatedEntry(entry, result) ELSE results[n]]
    /\ attempts' = [n \in DOMAIN attempts \cup {cur} |->
                      IF n = cur THEN result.error ELSE attempts[n]]
    /\ aged' = aged \ {cur}
    /\ wpc' = "device"
    /\ cur' = None /\ ident' = None /\ result' = NoSnapshot /\ moved' = 0
    /\ unread' = unread \ {cur}
    /\ UNCHANGED <<slot, flags, devices, todo, force, agedAtStart, sleeping, cpc,
                   raced, owed>>

CycleEnds ==
    /\ wpc = "finish"
    /\ refreshing' = FALSE
    /\ NotifyAll
    /\ wpc' = "wait"
    /\ todo' = {} /\ force' = TRUE /\ agedAtStart' = {}
    /\ owed' = {} /\ unread' = {}
    /\ UNCHANGED <<env, stop, pending, forced, cache, cur, ident, result, cpc, raced>>

-----------------------------------------------------------------------------
\* After the destructor returns there is nothing left to run.
Destroyed == (\E c \in Clients : cpc[c] = "gone") /\ UNCHANGED vars

WorkerSteps ==
    \/ WorkerSleeps \/ WorkerExits \/ CycleBegins
    \/ \E n \in Names : SkipDevice(n) \/ ReadIdentity(n)
    \/ CycleStops \/ CycleRunsOut
    \/ ReadHealth \/ CheckIdentity \/ Record \/ CycleEnds

ClientReturns(c) == WaitSleeps(c) \/ WaitReturns(c) \/ Joined(c)

ClientSteps(c) ==
    \/ \E new \in SUBSET Names : SetDevices(c, new)
    \/ \E f \in BOOLEAN : RequestRefresh(c, f)
    \/ WaitForIdle(c) \/ Destroy(c)
    \/ ClientReturns(c)

SystemSteps ==
    \/ \E n \in Names : \E d \in Disks \cup {None} : Replug(n, d)
    \/ \E n \in Names : BackoffElapses(n)

Next ==
    \/ WorkerSteps
    \/ \E c \in Clients : ClientSteps(c)
    \/ SystemSteps
    \/ Destroyed

Spec == Init /\ [][Next]_vars

\* Threads that can run do run, and a device read returns (the kernel times it
\* out).  Nobody is obliged to call the monitor or to unplug a disk.
Fairness == WF_vars(WorkerSteps) /\ \A c \in Clients : WF_vars(ClientReturns(c))

FairSpec == Spec /\ Fairness

-----------------------------------------------------------------------------
(* Properties.                                                             *)

\* Every variable has its type.
TypeOK ==
    /\ slot \in [Names -> Disks \cup {None}]
    /\ moved \in 0..MaxMoves
    /\ stop \in BOOLEAN /\ pending \in BOOLEAN
    /\ forced \in BOOLEAN /\ refreshing \in BOOLEAN
    /\ devices \subseteq Names
    /\ DOMAIN results \subseteq Names
    /\ results \in [DOMAIN results -> Entries]
    /\ DOMAIN attempts \subseteq Names
    /\ attempts \in [DOMAIN attempts -> Categories]
    /\ aged \subseteq Names
    /\ sleeping \subseteq Clients \cup {WorkerThread}
    /\ wpc \in {"wait", "device", "read", "check", "record", "finish", "exited"}
    /\ todo \subseteq Names /\ force \in BOOLEAN /\ agedAtStart \subseteq Names
    /\ cur \in Names \cup {None}
    /\ wpc \in {"read", "check", "record"} => cur \in Names
    /\ ident \in Identities \cup {None}
    /\ result \in Snapshots
    /\ cpc \in [Clients -> {"idle", "waiting", "joining", "gone"}]
    /\ raced \in BOOLEAN /\ owed \subseteq BOOLEAN /\ unread \subseteq Names

\* Every monitored disk has a cache entry, and unless setDevices ran while a
\* cycle was in flight no other disk has one (setDevices prunes, runCycle
\* re-creates with results_[name]).
CacheFollowsDevices ==
    /\ devices \subseteq DOMAIN results
    /\ ~raced => DOMAIN results = devices

\* A snapshot kept as a success was read from a disk showing the identity the
\* snapshot is labelled with, although the read takes place between the two
\* identity checks and a disk may be swapped on either side of it (readOne).
\* Two swaps around one read would defeat the checks: MaxMoves is at most 1.
SuccessIsOfItsDisk ==
    \A n \in DOMAIN results :
        LET good == results[n].last_success
        IN  good # None => /\ good.ok
                           /\ good.disk \in Disks
                           /\ good.ident = IdentityOf[good.disk]

\* A cycle that ran to its end without being stopped attempted every disk it
\* was started for if a forced request asked for it: an unforced request can
\* not take the place of a forced one (requestRefresh refuses overlaps).
ForcedCycleReadsAll ==
    wpc = "finish" /\ ~stop /\ TRUE \in owed => unread = {}

\* A failed read never costs the last success (only setDevices drops it), which is what
\* is shown from then on; without one nothing claims health data, and an entry without an
\* error shows a success or nothing at all.
LastSuccessKept ==
    [][/\ \A n \in DOMAIN results \cap DOMAIN results' :
             results[n].last_success # None => results'[n].last_success # None
       /\ \A n \in DOMAIN results' :
             LET e == results'[n]
             IN  /\ e.last_success # None => e.state = e.last_success
                 /\ e.last_success = None => ~e.state.ok /\ e.state.error = e.last_error
                 /\ e.last_error = "None" => e.state.error = "None"]_vars

\* While a cycle runs no other one is requested or begun, and the force value
\* the next request finds is the default again: the monitor is busy from the
\* moment the worker takes a request until it has stored the last result.
BusyWhileCycleRuns ==
    /\ refreshing <=> wpc \notin {"wait", "exited"}
    /\ refreshing => ~pending /\ forced
    /\ wpc = "exited" => stop

\* The monitor implements RefreshService: what a client can rely on when
\* requestRefresh returns true.
Refresh ==
    INSTANCE RefreshService WITH
        phase <- IF refreshing THEN "running" ELSE IF pending THEN "requested" ELSE "idle",
        force <- IF refreshing THEN force ELSE forced,
        closed <- stop

ServesRefreshes == Refresh!Spec

\* No thread waits for ever: waitForIdle returns (with one client, as in the program: a
\* second one could keep requesting refreshes before the first is scheduled), and so does
\* the join of the destructor, for the worker notices stop_ wherever it was.
WaitsReturn ==
    \A c \in Clients : /\ cpc[c] = "waiting" ~> cpc[c] # "waiting"
                       /\ cpc[c] = "joining" ~> cpc[c] = "gone"
=============================================================================
