-------------------------- MODULE ProcessInspector --------------------------
(***************************************************************************)
(* The details of one process (process_details.cpp and the section readers *)
(* process_memory_map, process_network, process_namespace, process_cgroup, *)
(* process_environment, process_security, process_io_details) and the page *)
(* that shows them.  Every file of /proc is read by pid, one after the     *)
(* other, while the process may exit and its pid may be reused.  A start   *)
(* time stands for a process; the contents of a file are the process it    *)
(* was read from, and for I/O the counter.                                 *)
(***************************************************************************)
EXTENDS Naturals, Sequences

CONSTANTS
    Inspectable,
    MaxRestarts,  \* bound: processes that ever had the same pid
    MaxIo,      \* bound: the I/O counter of a process
    MaxReadings    \* bound: readings of I/O counters

Nobody == 0

ASSUME InspectorConstants == MaxRestarts \in Nat \ {0} /\ MaxIo \in Nat /\ MaxReadings \in Nat

Failures == {"PermissionDenied", "ReadError"}

\* The gated sections: how many reads each makes, of which the first has to succeed,
\* and how that one may fail.  maps; the sockets of fd, then each table of net;
\* the links of ns, then the maps of a user namespace; cgroup, then mountinfo and
\* the resource files; environ; status, then the label; io.
MemoryMap == [reads |-> 1, fails |-> Failures]
Network == [reads |-> 2, fails |-> Failures]
Namespaces == [reads |-> 2, fails |-> Failures]
Cgroups == [reads |-> 3, fails |-> Failures \cup {"MalformedData"}]
Environment == [reads |-> 1, fails |-> Failures]
Security == [reads |-> 2, fails |-> Failures]
IoDetails == [reads |-> 1, fails |-> Failures]

\* In the order of getProcessDetails.
Sections == <<MemoryMap, Network, Namespaces, Cgroups, Environment, Security, IoDetails>>
Vanished == {"ProcessNotFound", "IdentityUnknown", "ProcessReused"}
NoResult == [status |-> "none", from |-> {}]
NoRate == [counted |-> FALSE]

VARIABLES
    lives, living,   \* external: processes that had each pid; the one that runs now
    io,          \* external: its I/O counter
    at,          \* where the inspection is
    pid,         \* the process on the page
    start,       \* info.starttime_ticks
    todo,        \* the sections not read yet
    reads,       \* reads made of the section under way
    result,      \* the section under way, or the last one
    previousIo,  \* previous_io_: counters per identity, and when they were read
    readAt,       \* previous_scan_time_: the last time counters were read
    rate         \* the I/O rate shown: both counters, both times

processes == <<lives, living, io>>
baselines == <<previousIo, readAt, rate>>
inspectorVars == <<processes, at, pid, start, todo, reads, result, baselines>>

InspectorInit ==
    /\ living \in [Inspectable -> {Nobody, 1}] /\ lives = living /\ io = [p \in Inspectable |-> 0]
    /\ at = "live" /\ pid \in Inspectable /\ start = Nobody /\ todo = <<>> /\ reads = 0
    /\ result = NoResult
    /\ previousIo = {} /\ readAt = 0 /\ rate = NoRate

-----------------------------------------------------------------------------
(* The kernel.                                                             *)

Ends(p) ==
    /\ living[p] # Nobody
    /\ living' = [living EXCEPT ![p] = Nobody]
    /\ UNCHANGED <<lives, io, at, pid, start, todo, reads, result, baselines>>

Begins(p) ==
    /\ living[p] = Nobody /\ lives[p] < MaxRestarts
    /\ lives' = [lives EXCEPT ![p] = @ + 1]
    /\ living' = [living EXCEPT ![p] = lives[p] + 1]
    /\ io' = [io EXCEPT ![p] = 0]
    /\ UNCHANGED <<at, pid, start, todo, reads, result, baselines>>

ReadsAndWrites(p) ==
    /\ living[p] # Nobody /\ io[p] < MaxIo
    /\ io' = [io EXCEPT ![p] = @ + 1]
    /\ UNCHANGED <<lives, living, at, pid, start, todo, reads, result, baselines>>

-----------------------------------------------------------------------------
(* The page: a process of the frozen list is inspected again and again     *)
(* until the user goes back, the input ends or the process is gone.        *)

Inspect(p) ==
    /\ at = "live"
    /\ pid' = p /\ at' = "stat" /\ result' = NoResult
    /\ UNCHANGED <<processes, start, todo, reads, baselines>>

ForgetBaseline == previousIo' = {b \in previousIo : b.pid # pid}

ReadStat ==
    /\ at = "stat"
    /\ IF living[pid] = Nobody
       THEN at' = "live" /\ ForgetBaseline /\ UNCHANGED start
       ELSE at' = "counters" /\ start' = living[pid] /\ UNCHANGED previousIo
    /\ rate' = NoRate /\ result' = NoResult
    /\ UNCHANGED <<processes, pid, todo, reads, readAt>>

\* The I/O counters, after the other files without a gate.  They are filed under
\* the identity of stat, whoever has the pid by now.
Baseline == {b \in previousIo : b.pid = pid /\ b.start = start}

\* With the time of this reading kept before the rate is computed.
TimeKeptFirst(before) ==
    IF before # {}
    THEN LET b == CHOOSE b \in before : TRUE
         IN [counted |-> TRUE, from |-> b.of, old |-> b.count, read |-> b.time,
             to |-> living[pid], new |-> io[pid], elapsedFrom |-> readAt + 1]
    ELSE NoRate

\* same_process: computeIoRates refuses without a baseline of the same identity.
RateSince(before) ==
    IF readAt > 0 /\ before # {}
    THEN LET b == CHOOSE b \in before : TRUE
         IN [counted |-> TRUE, from |-> b.of, old |-> b.count, read |-> b.time,
             to |-> living[pid], new |-> io[pid], elapsedFrom |-> readAt]
    ELSE NoRate

ReadCounters ==
    /\ at = "counters"
    /\ \/ /\ living[pid] # Nobody /\ readAt < MaxReadings
          /\ rate' = RateSince(Baseline)
          /\ readAt' = readAt + 1
          /\ previousIo' = (previousIo \ Baseline)
                \cup {[pid |-> pid, start |-> start, of |-> living[pid], count |-> io[pid],
                       time |-> readAt + 1]}
       \/ UNCHANGED baselines   \* gone, or not permitted
    /\ at' = "gate" /\ todo' = Sections
    /\ UNCHANGED <<processes, pid, start, reads, result>>

-----------------------------------------------------------------------------
(* A section: inspect() of its manager.                                    *)

Identified ==
    IF living[pid] = Nobody THEN "IdentityUnknown"
    ELSE IF living[pid] # start THEN "ProcessReused" ELSE "Success"

Over(status, from) ==
    /\ result' = [status |-> status, from |-> from]
    /\ todo' = Tail(todo)
    /\ at' = IF Len(todo) = 1 THEN "shown" ELSE "gate"

GateBefore ==
    /\ at = "gate"
    /\ reads' = 0
    /\ IF Identified = "Success"
       THEN at' = "first" /\ result' = NoResult /\ UNCHANGED todo
       ELSE Over(Identified, {})
    /\ UNCHANGED <<processes, pid, start, baselines>>

\* The file or directory of the process itself.  A failure is classified by errno
\* and returned at once, and so is a cgroup file without a valid line.
FirstRead ==
    /\ at = "first"
    /\ \/ /\ living[pid] = Nobody
          /\ Over("ProcessNotFound", {})
          /\ UNCHANGED reads
       \/ /\ living[pid] # Nobody
          /\ \E failure \in Head(todo).fails : Over(failure, {})
          /\ UNCHANGED reads
       \/ /\ living[pid] # Nobody
          /\ result' = [result EXCEPT !.from = {living[pid]}]
          /\ reads' = 1 /\ at' = "rest"
          /\ UNCHANGED todo
    /\ UNCHANGED <<processes, pid, start, baselines>>

\* Links, attributes and resource files are read if they can be.
NextRead ==
    /\ at = "rest" /\ reads < Head(todo).reads
    /\ \/ living[pid] # Nobody /\ result' = [result EXCEPT !.from = @ \cup {living[pid]}]
       \/ UNCHANGED result
    /\ reads' = reads + 1
    /\ UNCHANGED <<processes, at, pid, start, todo, baselines>>

\* Without this gate the result is returned as it is.
AfterUnchecked == "Success"
After == Identified

GateAfter ==
    /\ at = "rest" /\ reads = Head(todo).reads
    /\ Over(After, IF After = "Success" THEN result.from ELSE {})
    /\ UNCHANGED <<processes, pid, start, reads, baselines>>

-----------------------------------------------------------------------------
(* Refresh, an action on the process or a filter draw the details again.   *)
Redraw ==
    /\ at = "shown"
    /\ at' = "stat"
    /\ UNCHANGED <<processes, pid, start, todo, reads, result, baselines>>

Back ==
    /\ at = "shown"
    /\ at' = "live" /\ ForgetBaseline /\ rate' = NoRate
    /\ UNCHANGED <<processes, pid, start, todo, reads, result, readAt>>

Inspecting ==
    \/ ReadStat \/ ReadCounters
    \/ GateBefore \/ FirstRead \/ NextRead \/ GateAfter
    \/ Redraw \/ Back

InspectorNext ==
    \/ \E p \in Inspectable : Ends(p) \/ Begins(p) \/ ReadsAndWrites(p) \/ Inspect(p)
    \/ Inspecting

InspectorSpec == InspectorInit /\ [][InspectorNext]_inspectorVars

-----------------------------------------------------------------------------
\* A section says of the inspected process what is true of it: data shown is its
\* own, and a process reported gone or replaced is gone, wherever between the
\* reads its pid changed hands.
SectionsOfInspected ==
    /\ result.status = "Success" => result.from = {start}
    /\ result.status \in Vanished => living[pid] # start

\* An I/O rate is a difference over the time it took: the time it is divided by
\* began when the older counter was read, though one time is kept for all
\* processes.  Baselines of other pages must not survive.
RateOverItsWindow == rate.counted => rate.read = rate.elapsedFrom
=============================================================================
