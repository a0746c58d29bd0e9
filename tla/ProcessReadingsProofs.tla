------------------------ MODULE ProcessReadingsProofs ------------------------
(***************************************************************************)
(* Theorems about the process that the pages act on, about what is read of *)
(* processes, their use of CPU and disk and the details of one of them,    *)
(* and about what every refresh keeps of the devices and the filesystems,  *)
(* for every value of their constants.                                     *)
(***************************************************************************)
EXTENDS ProcessControl, ProcessMonitor, ProcessInspector, HistoryManager,
        FilesystemMonitor, SubsequencesProofs

(* The process that is acted on.                                           *)

LEMMA GenerationFacts ==
  /\ Gone \in Generations /\ 1 \in Generations /\ Generations \subseteq Nat
  /\ \A n \in Generations : n < MaxBirths => n + 1 \in Generations
  BY ProcessConstants DEF Generations, Gone

\* The type invariant, preserved one group of actions at a time.
LEMMA TypeOKInit == ASSUME Init PROVE TypeOK
<1>1. gen \in [Pids -> Generations] /\ \A p \in Pids : gen[p] \in {Gone, gen[p]}
  BY GenerationFacts DEF Init
<1> QED BY <1>1, GenerationFacts DEF Init, TypeOK, NoHit, NoReport, Reports

LEMMA TypeOKKernel == ASSUME TypeOK, Kernel PROVE TypeOK'
<1> USE DEF TypeOK, console, effects, Disturbs
<1>1. ASSUME NEW p \in Pids, Exits(p) PROVE TypeOK'
  BY <1>1, GenerationFacts DEF Exits
<1>2. ASSUME NEW p \in Pids, Starts(p) PROVE TypeOK'
  <2>1. born[p] + 1 \in Generations BY <1>2, GenerationFacts DEF Starts
  <2> QED BY <1>2, <2>1, GenerationFacts DEF Starts
<1> QED BY <1>1, <1>2 DEF Kernel

LEMMA TypeOKChoosing == ASSUME TypeOK, Choosing PROVE TypeOK'
<1> USE DEF TypeOK, env, console, effects
<1>1. CASE Refresh BY <1>1 DEF Refresh
<1>2. CASE Open("control") \/ Open("details") BY <1>2 DEF Open
<1>3. CASE GivesUp BY <1>3 DEF GivesUp
<1>4. ASSUME NEW p \in Pids, Select(p) PROVE TypeOK' BY <1>4 DEF Select, Chooses
<1>5. CASE ReadsStat
  <2>1. chosen \in Pids /\ gen[chosen] \in Generations BY <1>5 DEF ReadsStat
  <2>2. info' \in Reports BY <1>5, <2>1 DEF ReadsStat, Reports
  <2> QED BY <1>5, <2>1, <2>2 DEF ReadsStat
<1>6. CASE ReadsRest
  <2>1. chosen \in Pids /\ gen[chosen] \in Generations BY <1>6 DEF ReadsRest
  <2>2. info' \in Reports BY <1>6, <2>1 DEF ReadsRest, Reports
  <2> QED BY <1>6, <2>1, <2>2 DEF ReadsRest
<1> QED BY <1>1, <1>2, <1>3, <1>4, <1>5, <1>6 DEF Choosing

LEMMA TypeOKActing == ASSUME TypeOK, Acting PROVE TypeOK'
<1> USE DEF TypeOK, env, console, effects, Returns
<1>1. ASSUME NEW signal \in Signals, ChooseSignal(signal) PROVE TypeOK'
  BY <1>1 DEF ChooseSignal
<1>2. CASE ChooseChange BY <1>2 DEF ChooseChange, Captures
<1>3. CASE ReadsCurrent BY <1>3 DEF ReadsCurrent
<1>4. ASSUME NEW v \in Settings, EntersValue(v) PROVE TypeOK' BY <1>4 DEF EntersValue
<1>5. CASE Confirms \/ Declines BY <1>5 DEF Confirms, Declines
<1>6. CASE Signal BY <1>6 DEF Signal, Effect
<1>7. CASE ChecksIdentity \/ ReadsExisting BY <1>7 DEF ChecksIdentity, ReadsExisting
<1>8. CASE Applies BY <1>8 DEF Applies, Effect
<1>9. CASE Exports
  <2>1. report' \in Reports BY <1>9 DEF Exports, Reports
  <2> QED BY <1>9, <2>1 DEF Exports
<1> QED BY <1>1, <1>2, <1>3, <1>4, <1>5, <1>6, <1>7, <1>8, <1>9 DEF Acting

\* Every variable keeps its type, and the process that has a pid is the last one
\* that got it.
THEOREM TypeCorrect == Spec => []TypeOK
<1>1. Init => TypeOK BY TypeOKInit
<1>2. TypeOK /\ UNCHANGED vars => TypeOK'
  BY DEF TypeOK, vars, env, console, effects
<1>3. TypeOK /\ [Next]_vars => TypeOK'
  BY <1>2, TypeOKKernel, TypeOKChoosing, TypeOKActing DEF Next
<1> QED BY <1>1, <1>3, PTL DEF Spec

-----------------------------------------------------------------------------
\* On the way to an effect the chosen pid is not protected: by the selection on
\* the control page, by the gate of the menu on the other.
UnderWay ==
    pc \in {"current", "value", "confirm", "signal", "check", "existing", "apply"}
GateInv ==
    /\ ProtectedUntouched
    /\ pc \in {"stat", "rest"} => page = "details"
    /\ UnderWay \/ (page = "control" /\ pc = "menu") => chosen \notin Protected

\* Pid 1 and the task manager are never signalled or changed.
THEOREM ProtectedSafe == Spec => []ProtectedUntouched
<1>1. Init => GateInv
  BY ProcessConstants DEF Init, GateInv, UnderWay, ProtectedUntouched, NoHit
<1>2. TypeOK /\ GateInv /\ [Next]_vars => GateInv'
  <2> SUFFICES ASSUME TypeOK, GateInv, [Next]_vars PROVE GateInv'
    OBVIOUS
  <2> USE DEF GateInv, UnderWay, ProtectedUntouched, env, console, effects, Returns
  <2>1. CASE Kernel BY <2>1 DEF Kernel, Exits, Starts
  <2>2. CASE Choosing
    <3>1. CASE Refresh \/ Open("control") \/ Open("details") \/ GivesUp
      BY <3>1 DEF Refresh, Open, GivesUp
    <3>2. ASSUME NEW p \in Pids, Select(p) PROVE GateInv'
      BY <3>2 DEF TypeOK, Select, Selectable, Chooses
    <3>3. CASE ReadsStat BY <3>3 DEF ReadsStat
    <3>4. CASE ReadsRest BY <3>4 DEF ReadsRest
    <3> QED BY <2>2, <3>1, <3>2, <3>3, <3>4 DEF Choosing
  <2>3. CASE Acting
    <3>1. ASSUME NEW signal \in Signals, ChooseSignal(signal) PROVE GateInv'
      BY <3>1 DEF TypeOK, ChooseSignal, Unprotected
    <3>2. CASE ChooseChange BY <3>2 DEF TypeOK, ChooseChange, Unprotected, Captures
    <3>3. CASE ReadsCurrent \/ \E v \in Settings : EntersValue(v)
      BY <3>3 DEF ReadsCurrent, EntersValue
    <3>4. CASE Confirms \/ Declines BY <3>4 DEF Confirms, Declines
    <3>5. CASE Signal BY <3>5 DEF Signal, Effect
    <3>6. CASE ChecksIdentity \/ ReadsExisting BY <3>6 DEF ChecksIdentity, ReadsExisting
    <3>7. CASE Applies BY <3>7 DEF Applies, Effect
    <3>8. CASE Exports BY <3>8 DEF Exports
    <3> QED BY <2>3, <3>1, <3>2, <3>3, <3>4, <3>5, <3>6, <3>7, <3>8 DEF Acting
  <2>4. CASE UNCHANGED vars BY <2>4 DEF vars
  <2> QED BY <2>1, <2>2, <2>3, <2>4 DEF Next
<1> QED BY <1>1, <1>2, TypeCorrect, PTL DEF Spec, GateInv

-----------------------------------------------------------------------------
\* After the identity was checked the pid still belongs to the captured process,
\* or is known to have changed hands; a signal is never sent for a change.
CapturedInv ==
    /\ ChangeHitsCaptured
    /\ pc \in {"existing", "apply"} /\ ~raced => gen[chosen] = identity
    /\ pc = "signal" => action # "change"

\* However long the prompts took, a change of nice value or affinity reaches the
\* process whose identity was captured, but for the unavoidable last window.
THEOREM ChangeIsOfCaptured == Spec => []ChangeHitsCaptured
<1>1. Init => CapturedInv BY DEF Init, CapturedInv, ChangeHitsCaptured, NoHit
<1>2. TypeOK /\ CapturedInv /\ [Next]_vars => CapturedInv'
  <2> SUFFICES ASSUME TypeOK, CapturedInv, [Next]_vars PROVE CapturedInv'
    OBVIOUS
  <2> USE DEF CapturedInv, ChangeHitsCaptured, env, console, effects, Returns
  <2>1. ASSUME NEW p \in Pids, Exits(p) \/ Starts(p) PROVE CapturedInv'
    <3>1. /\ UNCHANGED <<pc, chosen, identity, action, hit>>
          /\ raced' = (raced \/ (p = chosen /\ pc \in {"existing", "apply"}))
      BY <2>1 DEF Exits, Starts, Disturbs
    <3>2. chosen \in Pids /\ chosen # p => gen'[chosen] = gen[chosen]
      BY <2>1 DEF TypeOK, Exits, Starts
    <3>3. pc \in {"existing", "apply"} /\ ~raced' =>
             chosen \in Pids /\ chosen # p /\ ~raced
      BY <3>1 DEF TypeOK
    <3> QED BY <3>1, <3>2, <3>3
  <2>2. CASE Choosing
    BY <2>2 DEF Choosing, Refresh, Open, GivesUp, Select, Chooses, ReadsStat, ReadsRest
  <2>3. CASE Acting
    <3>1. ASSUME NEW signal \in Signals, ChooseSignal(signal) PROVE CapturedInv'
      BY <3>1 DEF ChooseSignal
    <3>2. CASE ChooseChange BY <3>2 DEF ChooseChange, Captures
    <3>3. CASE ReadsCurrent \/ \E v \in Settings : EntersValue(v)
      BY <3>3 DEF ReadsCurrent, EntersValue
    <3>4. CASE Confirms \/ Declines BY <3>4 DEF Confirms, Declines
    <3>5. CASE Signal BY <3>5 DEF Signal, Effect
    <3>6. CASE ChecksIdentity BY <3>6 DEF ChecksIdentity, SameProcess
    <3>7. CASE ReadsExisting BY <3>7 DEF ReadsExisting
    <3>8. CASE Applies BY <3>8 DEF Applies, Effect
    <3>9. CASE Exports BY <3>9 DEF Exports
    <3> QED BY <2>3, <3>1, <3>2, <3>3, <3>4, <3>5, <3>6, <3>7, <3>8, <3>9 DEF Acting
  <2>4. CASE UNCHANGED vars BY <2>4 DEF vars
  <2> QED BY <2>1, <2>2, <2>3, <2>4 DEF Next, Kernel
<1> QED BY <1>1, <1>2, TypeCorrect, PTL DEF Spec, CapturedInv

-----------------------------------------------------------------------------
\* What is known of the details read: the start time is of a process that had the
\* pid, so as long as that process has it nobody else had it in between.
ReadInv ==
    /\ CompleteReportOfOne
    /\ pc = "rest" \/ (page = "details" /\ pc = "menu") =>
          info.start # Gone /\ info.start <= born[chosen]
    /\ page = "details" /\ pc = "menu" /\ gen[chosen] = info.start =>
          info.data = info.start

\* A report that is written as complete holds the data of one process.
THEOREM ReportIsOfOne == Spec => []CompleteReportOfOne
<1>1. Init => ReadInv BY DEF Init, ReadInv, CompleteReportOfOne, NoReport
<1>2. TypeOK /\ ReadInv /\ [Next]_vars => ReadInv'
  <2> SUFFICES ASSUME TypeOK, ReadInv, [Next]_vars PROVE ReadInv'
    OBVIOUS
  <2> USE GenerationFacts
      DEF ReadInv, CompleteReportOfOne, env, console, effects, Returns
  <2>1. CASE Kernel
    <3>1. ASSUME NEW p \in Pids, Exits(p) PROVE ReadInv'
      BY <3>1 DEF TypeOK, Exits
    <3>2. ASSUME NEW p \in Pids, Starts(p) PROVE ReadInv'
      <4>1. born[p] \in Nat
        <5>1. born[p] \in Generations BY DEF TypeOK
        <5> QED BY <5>1
      <4>2. info.start \in Nat
        <5>1. info.start \in Generations BY DEF TypeOK, Reports
        <5> QED BY <5>1
      <4>3. UNCHANGED <<page, pc, chosen, info, report>> BY <3>2 DEF Starts
      <4>4. CASE p = chosen
        <5>1. gen'[chosen] = born[chosen] + 1 /\ born'[chosen] = born[chosen] + 1
          BY <3>2, <4>4 DEF TypeOK, Starts
        <5> QED BY <4>1, <4>2, <4>3, <4>4, <5>1
      <4>5. CASE p # chosen
        <5>1. gen'[chosen] = gen[chosen] /\ born'[chosen] = born[chosen]
          BY <3>2, <4>5 DEF TypeOK, Starts
        <5> QED BY <4>3, <5>1
      <4> QED BY <4>4, <4>5
    <3> QED BY <2>1, <3>1, <3>2 DEF Kernel
  <2>2. CASE Choosing
    <3>1. CASE Refresh \/ Open("control") \/ Open("details") \/ GivesUp
      BY <3>1 DEF Refresh, Open, GivesUp
    <3>2. ASSUME NEW p \in Pids, Select(p) PROVE ReadInv' BY <3>2 DEF TypeOK, Select, Chooses
    <3>3. CASE ReadsStat
      <4>1. chosen \in Pids /\ gen[chosen] \in {Gone, born[chosen]} /\ born[chosen] \in Nat
        BY <3>3 DEF TypeOK, ReadsStat
      <4>2. info \in Reports BY DEF TypeOK
      <4> QED BY <3>3, <4>1, <4>2 DEF ReadsStat, Reports
    <3>4. CASE ReadsRest
      <4>1. info \in Reports BY DEF TypeOK
      <4> QED BY <3>4, <4>1 DEF ReadsRest, Reports
    <3> QED BY <2>2, <3>1, <3>2, <3>3, <3>4 DEF Choosing
  <2>3. CASE Acting
    <3>1. CASE \E signal \in Signals : ChooseSignal(signal) BY <3>1 DEF ChooseSignal
    <3>2. CASE ChooseChange BY <3>2 DEF ChooseChange, Captures
    <3>3. CASE ReadsCurrent \/ \E v \in Settings : EntersValue(v)
      BY <3>3 DEF ReadsCurrent, EntersValue
    <3>4. CASE Confirms \/ Declines BY <3>4 DEF Confirms, Declines
    <3>5. CASE Signal \/ Applies BY <3>5 DEF Signal, Applies
    <3>6. CASE ChecksIdentity \/ ReadsExisting BY <3>6 DEF ChecksIdentity, ReadsExisting
    <3>7. CASE Exports
      <4>1. info \in Reports BY DEF TypeOK
      <4>2. CompleteReportOfOne' BY <3>7, <4>1 DEF Exports, Verified, Reports
      <4> QED BY <3>7, <4>2 DEF Exports
    <3> QED BY <2>3, <3>1, <3>2, <3>3, <3>4, <3>5, <3>6, <3>7 DEF Acting
  <2>4. CASE UNCHANGED vars BY <2>4 DEF vars
  <2> QED BY <2>1, <2>2, <2>3, <2>4 DEF Next
<1> QED BY <1>1, <1>2, TypeCorrect, PTL DEF Spec, ReadInv

-----------------------------------------------------------------------------
(* The use of a process.                                                   *)

\* A reading of the work done by the holder of a pid, and of all that its holders had
\* done by then: since then, the first grew by no more than the second.
Within(w, d, worked, all) ==
    /\ w \in Nat /\ d \in Nat
    /\ d <= all /\ worked - w <= all - d

WorkTypeOK ==
    /\ work \in [Numbers -> Nat] /\ done \in [Numbers -> Nat]
    /\ DOMAIN half \subseteq Numbers
    /\ DOMAIN snapshot \subseteq Numbers
    /\ DOMAIN ticks \subseteq Numbers
    /\ \A b \in bytes : b.pid \in Numbers

HalfInv ==
    \A p \in DOMAIN half :
        /\ Within(half[p].work, half[p].done, work[p], done[p])
        /\ half[p].cpu <= half[p].window

SnapshotInv ==
    \A p \in DOMAIN snapshot :
        /\ Within(snapshot[p].stat.work, snapshot[p].stat.done, work[p], done[p])
        /\ snapshot[p].counters.available =>
              Within(snapshot[p].counters.work, snapshot[p].counters.done, work[p], done[p])

BaselineInv ==
    /\ \A p \in DOMAIN ticks : Within(ticks[p].work, ticks[p].done, work[p], done[p])
    /\ \A b \in bytes : Within(b.work, b.done, work[b.pid], done[b.pid])

UseInv == WorkTypeOK /\ HalfInv /\ SnapshotInv /\ BaselineInv /\ UseIsReal

LEMMA UseInvInit == ProcessesInit => UseInv
  <1> SUFFICES ASSUME ProcessesInit PROVE UseInv
    OBVIOUS
  <1>1. /\ work = [p \in Numbers |-> 0] /\ done = [p \in Numbers |-> 0]
        /\ DOMAIN half = {} /\ DOMAIN snapshot = {} /\ DOMAIN ticks = {} /\ bytes = {}
    BY DEF ProcessesInit, Empty, None
  <1> QED
    BY <1>1 DEF UseInv, WorkTypeOK, HalfInv, SnapshotInv, BaselineInv, UseIsReal

\* Whatever the kernel does, a reading stays a reading.
LEMMA WorkOfAnother ==
    ASSUME UseInv, \/ \E p \in Numbers, parent \in Numbers \cup {None} : Forks(p, parent)
                   \/ \E p \in Numbers : Dies(p) \/ Works(p)
    PROVE  /\ work' \in [Numbers -> Nat] /\ done' \in [Numbers -> Nat]
           /\ \A q \in Numbers : \A w, d :
                 Within(w, d, work[q], done[q]) => Within(w, d, work'[q], done'[q])
           /\ UNCHANGED <<half, snapshot, ticks, bytes>>
  <1>0. /\ work \in [Numbers -> Nat] /\ done \in [Numbers -> Nat]
    BY DEF UseInv, WorkTypeOK
  <1>1. CASE \E p \in Numbers, parent \in Numbers \cup {None} : Forks(p, parent)
    <2>1. PICK p \in Numbers : work' = [work EXCEPT ![p] = 0] /\ done' = done
      BY <1>1 DEF Forks
    <2>2. UNCHANGED <<half, snapshot, ticks, bytes>>
      BY <1>1 DEF Forks, scanned
    <2> QED
      BY <1>0, <2>1, <2>2 DEF Within
  <1>2. CASE \E p \in Numbers : Dies(p)
    BY <1>0, <1>2 DEF Dies, scanned
  <1>3. CASE \E p \in Numbers : Works(p)
    <2>1. PICK p \in Numbers : /\ work' = [work EXCEPT ![p] = @ + 1]
                               /\ done' = [done EXCEPT ![p] = @ + 1]
      BY <1>3 DEF Works
    <2>2. UNCHANGED <<half, snapshot, ticks, bytes>>
      BY <1>3 DEF Works, scanned
    <2> QED
      BY <1>0, <2>1, <2>2 DEF Within
  <1> QED
    BY <1>1, <1>2, <1>3

\* What one reading of stat says is what the process did since the last scan, or less.
LEMMA StatIsReal ==
    ASSUME UseInv, NEW p \in Numbers, ReadStatOf(p)
    PROVE  UseInv'
  <1>0. UNCHANGED <<work, done, snapshot, ticks, bytes>>
    BY DEF ReadStatOf, kernel, scanned
  <1>1. CASE UNCHANGED half
    BY <1>0, <1>1 DEF UseInv, WorkTypeOK, HalfInv, SnapshotInv, BaselineInv, UseIsReal
  <1>2. CASE ~ UNCHANGED half
    <2> DEFINE window == IF p \in DOMAIN ticks THEN done[p] - ticks[p].done ELSE 0
               of == IF scale /\ p \in DOMAIN ticks THEN ticks[p].start ELSE None
    <2>1. half' = [q \in {p} |->
                  [start |-> started[p], ppid |-> ppid[p], work |-> work[p], done |-> done[p],
                   cpu |-> CpuSince(p), cpuOf |-> of, window |-> window]]
      BY <1>2 DEF ReadStatOf
    <2>2. /\ DOMAIN half' = {p} /\ half'[p].work = work[p] /\ half'[p].done = done[p]
          /\ half'[p].cpu = CpuSince(p) /\ half'[p].window = window
      <3> HIDE DEF window, of
      <3> QED
        BY <2>1
    <2>3. /\ work[p] \in Nat /\ done[p] \in Nat
          /\ p \in DOMAIN ticks => Within(ticks[p].work, ticks[p].done, work[p], done[p])
      BY DEF UseInv, WorkTypeOK, BaselineInv
    <2>4. CpuSince(p) <= window
      BY <2>3 DEF CpuSince, UsedSince, Within
    <2>5. WorkTypeOK'
      BY <1>0, <2>2 DEF UseInv, WorkTypeOK
    <2>6. HalfInv'
      <3> HIDE DEF window, of
      <3> QED
        BY <1>0, <2>2, <2>3, <2>4 DEF HalfInv, Within
    <2>7. SnapshotInv' /\ BaselineInv' /\ UseIsReal'
      BY <1>0 DEF UseInv, SnapshotInv, BaselineInv, UseIsReal
    <2> QED
      BY <2>5, <2>6, <2>7 DEF UseInv
  <1> QED
    BY <1>1, <1>2

\* And what io says, whoever it was read from.
LEMMA IoIsReal ==
    ASSUME UseInv, NEW p \in Numbers, ReadIoOf(p)
    PROVE  UseInv'
  <1>0. UNCHANGED <<work, done, ticks, bytes>> /\ half' = Empty /\ p \in DOMAIN half
    BY DEF ReadIoOf, kernel, scanned
  <1>1. DOMAIN half' = {}
    BY <1>0 DEF Empty
  <1>2. PICK counters \in {[work |-> None, done |-> None, available |-> FALSE]} \cup
             IF started[p] = None THEN {}
             ELSE {[work |-> work[p], done |-> done[p], available |-> TRUE]} :
          snapshot' = [q \in DOMAIN snapshot \cup {p} |->
              IF q = p
              THEN [identity |-> [pid |-> p, start |-> half[p].start], stat |-> half[p],
                    counters |-> counters,
                    rate |-> IF counters.available THEN IoSince(p)
                             ELSE [io |-> 0, ioWindow |-> 0]]
              ELSE snapshot[q]]
    BY Zenon DEF ReadIoOf
  <1>3. \/ ~ counters.available
        \/ counters.work = work[p] /\ counters.done = done[p]
    BY <1>2
  <1> DEFINE rate0 == IF counters.available THEN IoSince(p) ELSE [io |-> 0, ioWindow |-> 0]
  <1>4. rate0.io <= rate0.ioWindow
    <2>1. work[p] \in Nat /\ done[p] \in Nat
      BY DEF UseInv, WorkTypeOK
    <2>2. ASSUME Baselines(p) # {}
          PROVE  \E b \in bytes : /\ b = CHOOSE old \in Baselines(p) : TRUE
                                  /\ Within(b.work, b.done, work[p], done[p])
      BY <2>2 DEF Baselines, UseInv, BaselineInv
    <2>3. CASE counters.available /\ scans > 0 /\ Baselines(p) # {}
      <3>1. PICK b \in bytes : /\ b = CHOOSE old \in Baselines(p) : TRUE
                               /\ Within(b.work, b.done, work[p], done[p])
        BY <2>2, <2>3
      <3>2. rate0 = [io |-> IF work[p] > b.work THEN work[p] - b.work ELSE 0,
                     ioWindow |-> done[p] - b.done]
        BY <2>3, <3>1 DEF IoSince
      <3> QED
        BY <2>1, <3>1, <3>2 DEF Within
    <2>4. CASE ~ (counters.available /\ scans > 0 /\ Baselines(p) # {})
      <3>1. rate0 = [io |-> 0, ioWindow |-> 0]
        BY <2>4 DEF IoSince
      <3> QED
        BY <3>1
    <2> QED
      BY <2>3, <2>4
  <1> DEFINE row == [identity |-> [pid |-> p, start |-> half[p].start], stat |-> half[p],
                     counters |-> counters, rate |-> rate0]
  <1>5. /\ DOMAIN snapshot' = DOMAIN snapshot \cup {p}
        /\ \A q \in DOMAIN snapshot \ {p} : snapshot'[q] = snapshot[q]
        /\ snapshot'[p] = row
    BY <1>2
  <1>6. row.stat = half[p] /\ row.counters = counters /\ row.rate = rate0
    BY Zenon
  <1> HIDE DEF rate0, row
  <1>7. WorkTypeOK'
    BY <1>0, <1>1, <1>5 DEF UseInv, WorkTypeOK
  <1>8. HalfInv' /\ BaselineInv'
    BY <1>0, <1>1 DEF UseInv, HalfInv, BaselineInv
  <1>9. work[p] \in Nat /\ done[p] \in Nat
    BY DEF UseInv, WorkTypeOK
  <1>10. SnapshotInv'
    <2>1. Within(counters.work, counters.done, work[p], done[p]) \/ ~ counters.available
      BY <1>3, <1>9 DEF Within
    <2>2. Within(half[p].work, half[p].done, work[p], done[p])
      BY <1>0 DEF UseInv, HalfInv
    <2> QED
      BY Zenon, <1>0, <1>5, <1>6, <2>1, <2>2 DEF UseInv, SnapshotInv
  <1>11. UseIsReal'
    <2>1. half[p].cpu <= half[p].window
      BY <1>0 DEF UseInv, HalfInv
    <2> QED
      BY Zenon, <1>4, <1>5, <1>6, <2>1 DEF UseInv, UseIsReal
  <1> QED
    BY <1>7, <1>8, <1>10, <1>11 DEF UseInv

LEMMA BeginScanIsReal ==
    ASSUME UseInv, BeginScan
    PROVE  UseInv'
  <1>1. UNCHANGED <<work, done, half, ticks, bytes>> /\ DOMAIN snapshot' = {}
    BY DEF BeginScan, kernel, Empty
  <1> QED
    BY <1>1 DEF UseInv, WorkTypeOK, HalfInv, SnapshotInv, BaselineInv, UseIsReal

\* What is recorded at the end of a scan was read in it.
LEMMA EndScanIsReal ==
    ASSUME UseInv, EndScan
    PROVE  UseInv'
  <1>1. UNCHANGED <<work, done, half, snapshot>> /\ Record
    BY DEF EndScan, kernel
  <1>2. /\ DOMAIN ticks' = DOMAIN snapshot
        /\ \A p \in DOMAIN snapshot : /\ ticks'[p].work = snapshot[p].stat.work
                                      /\ ticks'[p].done = snapshot[p].stat.done
    BY <1>1 DEF Record
  <1>3. ASSUME NEW b \in bytes'
        PROVE  \E p \in DOMAIN snapshot :
                   /\ snapshot[p].counters.available
                   /\ b.pid = p /\ b.work = snapshot[p].counters.work
                   /\ b.done = snapshot[p].counters.done
    <2>1. PICK p \in {q \in DOMAIN snapshot : snapshot[q].counters.available} :
              b = [pid |-> p, start |-> snapshot[p].identity.start,
                   work |-> snapshot[p].counters.work, done |-> snapshot[p].counters.done]
      BY Zenon, <1>1, <1>3 DEF Record
    <2>2. b.pid = p /\ b.work = snapshot[p].counters.work /\ b.done = snapshot[p].counters.done
      BY <2>1
    <2> QED
      BY Zenon, <2>1, <2>2
  <1>4. WorkTypeOK'
    BY <1>1, <1>2, <1>3 DEF UseInv, WorkTypeOK
  <1>5. HalfInv' /\ SnapshotInv' /\ UseIsReal'
    BY <1>1 DEF UseInv, HalfInv, SnapshotInv, UseIsReal
  <1>6. BaselineInv'
    <2>1. \A p \in DOMAIN ticks' : Within(ticks'[p].work, ticks'[p].done, work'[p], done'[p])
      BY <1>1, <1>2 DEF UseInv, SnapshotInv
    <2>2. \A b \in bytes' : Within(b.work, b.done, work'[b.pid], done'[b.pid])
      BY Zenon, <1>1, <1>3 DEF UseInv, SnapshotInv
    <2> QED
      BY <2>1, <2>2 DEF BaselineInv
  <1> QED
    BY <1>4, <1>5, <1>6 DEF UseInv

LEMMA UseInvStep == UseInv /\ [ProcessesNext]_processVars => UseInv'
  <1> SUFFICES ASSUME UseInv, [ProcessesNext]_processVars PROVE UseInv'
    OBVIOUS
  <1>1. CASE \/ \E p \in Numbers, parent \in Numbers \cup {None} : Forks(p, parent)
             \/ \E p \in Numbers : Dies(p) \/ Works(p)
    BY <1>1, WorkOfAnother
       DEF UseInv, WorkTypeOK, HalfInv, SnapshotInv, BaselineInv, UseIsReal
  <1>2. CASE \E p \in Numbers : ReadStatOf(p)
    BY <1>2, StatIsReal
  <1>3. CASE \E p \in Numbers : ReadIoOf(p)
    BY <1>3, IoIsReal
  <1>4. CASE BeginScan
    BY <1>4, BeginScanIsReal
  <1>5. CASE EndScan
    BY <1>5, EndScanIsReal
  <1>6. CASE UNCHANGED processVars
    BY <1>6 DEF UseInv, WorkTypeOK, HalfInv, SnapshotInv, BaselineInv, UseIsReal,
                processVars, kernel, scanned
  <1> QED
    BY Zenon, <1>1, <1>2, <1>3, <1>4, <1>5, <1>6 DEF ProcessesNext

\* The list never shows more CPU or I/O than was used between the readings, though a scan
\* reads pid by pid and pids change hands between stat, io and the next scan
\* (ProcessMonitor::readProcess): the counters of a pid start again with every holder,
\* so a difference across holders comes out too small, or negative and cut to zero.
THEOREM UseNotOverstated == ProcessesSpec => []UseIsReal
  <1>1. UseInv => UseIsReal
    BY DEF UseInv
  <1> QED
    BY <1>1, UseInvInit, UseInvStep, PTL DEF ProcessesSpec
(* The details of a process.                                               *)

Statuses == {"none", "Success", "MalformedData"} \cup Vanished \cup Failures
SectionKinds == [reads : Nat, fails : SUBSET (Failures \cup {"MalformedData"})]

InspectorTypeOK ==
    /\ lives \in [Inspectable -> Nat] /\ living \in [Inspectable -> Nat]
    /\ io \in [Inspectable -> Nat]
    /\ pid \in Inspectable /\ start \in Nat /\ readAt \in Nat
    /\ at \in {"live", "stat", "counters", "gate", "first", "rest", "shown"}
    /\ todo \in Seq(SectionKinds)
    /\ result \in [status : Statuses, from : SUBSET Nat]
    /\ at \in {"first", "rest"} => result.status = "none"
    /\ at \in {"gate", "first", "rest"} => todo # <<>>

\* A pid belongs to the last process that got it, or to none.
HolderInv == \A p \in Inspectable : living[p] \in {Nobody, lives[p]}

\* What the page has of a process is of one that had the pid.
PageInv ==
    /\ (at \notin {"live", "stat"} \/ result.status # "none" \/ previousIo # {}) =>
          start # Nobody /\ start <= lives[pid]
    /\ at = "live" => previousIo = {}

\* While the pid is still, or is not yet again, the inspected process, every read of the
\* section was of it.
ReadsInv == at = "rest" /\ living[pid] = start => result.from = {start}

\* All baselines are of the pid of the page; one that was not taken at the last reading is
\* of a process that had the pid before.
BaselinesInv ==
    \A b \in previousIo :
        /\ b.pid = pid /\ b.start \in Nat /\ b.start <= start
        /\ b.time # readAt => b.start # start

InspectorInv ==
    /\ InspectorTypeOK /\ HolderInv /\ PageInv /\ ReadsInv /\ BaselinesInv
    /\ SectionsOfInspected /\ RateOverItsWindow

LEMMA InspectorInvInit == InspectorInit => InspectorInv
  <1> SUFFICES ASSUME InspectorInit PROVE InspectorInv
    OBVIOUS
  <1>1. /\ result.status = "none" /\ result \in [status : Statuses, from : SUBSET Nat]
        /\ previousIo = {} /\ ~ rate.counted
        /\ at = "live" /\ todo = <<>> /\ start = 0 /\ readAt = 0 /\ pid \in Inspectable
        /\ living \in [Inspectable -> {Nobody, 1}] /\ lives = living
        /\ io = [p \in Inspectable |-> 0]
    BY DEF InspectorInit, NoResult, NoRate, Nobody, Statuses
  <1>2. InspectorTypeOK
    BY <1>1 DEF InspectorTypeOK, Nobody
  <1> QED
    BY <1>1, <1>2 DEF InspectorInv, HolderInv, PageInv, ReadsInv, BaselinesInv,
                      SectionsOfInspected, RateOverItsWindow, Vanished

\* Sections are worked off one by one.
LEMMA TodoOver ==
    ASSUME todo \in Seq(SectionKinds), todo # <<>>, NEW status \in Statuses,
           NEW from \in SUBSET Nat, Over(status, from)
    PROVE  /\ todo' \in Seq(SectionKinds)
           /\ result' \in [status : Statuses, from : SUBSET Nat]
           /\ result'.status = status /\ result'.from = from
           /\ at' \in {"gate", "shown"}
           /\ at' = "gate" => todo' # <<>>
  <1>1. result' = [status |-> status, from |-> from] /\ todo' = Tail(todo)
        /\ at' = IF Len(todo) = 1 THEN "shown" ELSE "gate"
    BY DEF Over
  <1>2. /\ result'.status = status /\ result'.from = from
        /\ result' \in [status : Statuses, from : SUBSET Nat]
    BY <1>1
  <1>3. todo' \in Seq(SectionKinds) /\ (Len(todo) # 1 => todo' # <<>>)
    <2>1. Tail(todo) \in Seq(SectionKinds) /\ Len(Tail(todo)) = Len(todo) - 1
      BY HeadTailProperties
    <2>2. Len(todo) \in Nat /\ (Len(todo) # 1 => Tail(todo) # <<>>)
      <3>1. Len(todo) \in Nat /\ Len(<<>>) = 0
        OBVIOUS
      <3>2. Tail(todo) = <<>> => Len(Tail(todo)) = 0
        BY Zenon, <3>1
      <3> QED
        BY <2>1, <3>1, <3>2
    <2> QED
      BY <1>1, <2>1, <2>2
  <1> QED
    BY <1>1, <1>2, <1>3

LEMMA SectionsTyped == Sections \in Seq(SectionKinds) /\ Sections # <<>>
  <1>1. \A kind \in {MemoryMap, Network, Namespaces, Cgroups, Environment, Security, IoDetails} :
            kind \in SectionKinds
    BY DEF MemoryMap, Network, Namespaces, Cgroups, Environment, Security, IoDetails, SectionKinds
  <1> HIDE DEF MemoryMap, Network, Namespaces, Cgroups, Environment, Security, IoDetails, SectionKinds
  <1> QED
    BY <1>1 DEF Sections

\* What the kernel does to a process.
LEMMA KernelKeepsInspectorInv ==
    ASSUME InspectorInv, NEW p \in Inspectable, Ends(p) \/ Begins(p) \/ ReadsAndWrites(p)
    PROVE  InspectorInv'
  <1>1. UNCHANGED <<at, pid, start, todo, result, previousIo, readAt, rate>>
    BY DEF Ends, Begins, ReadsAndWrites, baselines
  <1>2. /\ lives \in [Inspectable -> Nat] /\ living \in [Inspectable -> Nat]
        /\ io \in [Inspectable -> Nat]
        /\ \A q \in Inspectable : living[q] \in {Nobody, lives[q]}
    BY DEF InspectorInv, InspectorTypeOK, HolderInv
  <1>3. /\ lives' \in [Inspectable -> Nat] /\ living' \in [Inspectable -> Nat]
        /\ io' \in [Inspectable -> Nat]
        /\ \A q \in Inspectable :
              /\ lives[q] <= lives'[q]
              /\ living'[q] \in {Nobody, lives'[q]}
              /\ (living'[q] = living[q] \/ living'[q] = Nobody \/ living'[q] > lives[q])
    <2>1. CASE Ends(p)
      BY <1>2, <2>1 DEF Ends, Nobody
    <2>2. CASE Begins(p)
      <3>1. /\ lives' = [lives EXCEPT ![p] = @ + 1]
            /\ living' = [living EXCEPT ![p] = lives[p] + 1]
            /\ io' = [io EXCEPT ![p] = 0]
        BY <2>2 DEF Begins
      <3> QED
        BY <1>2, <3>1 DEF Nobody
    <2>3. CASE ReadsAndWrites(p)
      BY <1>2, <2>3 DEF ReadsAndWrites, Nobody
    <2> QED
      BY <2>1, <2>2, <2>3
  <1>4. InspectorTypeOK'
    BY <1>1, <1>3 DEF InspectorInv, InspectorTypeOK
  <1>5. HolderInv'
    BY <1>3 DEF HolderInv
  <1>6. /\ pid \in Inspectable /\ start \in Nat
        /\ lives[pid] \in Nat /\ lives'[pid] \in Nat
    BY <1>2, <1>3 DEF InspectorInv, InspectorTypeOK
  <1>7. PageInv'
    BY <1>1, <1>3, <1>6 DEF InspectorInv, PageInv
  <1>8. (at \notin {"live", "stat"} \/ result.status # "none") /\ living'[pid] = start =>
            living[pid] = start
    BY <1>3, <1>6 DEF InspectorInv, PageInv
  <1>9. ReadsInv' /\ SectionsOfInspected'
    <2>1. result.status \in Vanished => result.status # "none"
      BY DEF Vanished
    <2> QED
      BY <1>1, <1>8, <2>1 DEF InspectorInv, ReadsInv, SectionsOfInspected
  <1>10. BaselinesInv' /\ RateOverItsWindow'
    BY <1>1 DEF InspectorInv, BaselinesInv, RateOverItsWindow
  <1> QED
    BY <1>4, <1>5, <1>7, <1>9, <1>10 DEF InspectorInv
\* The page begins with another process, or is left.
LEMMA PageKeepsInspectorInv ==
    ASSUME InspectorInv, (\E p \in Inspectable : Inspect(p)) \/ ReadStat \/ Redraw \/ Back
    PROVE  InspectorInv'
  <1>0. /\ UNCHANGED <<lives, living, io, todo, readAt>>
        /\ at' \in {"live", "stat", "counters"}
    BY DEF Inspect, ReadStat, Redraw, Back, processes, baselines
  <1>1. InspectorTypeOK /\ HolderInv /\ PageInv /\ BaselinesInv
    BY DEF InspectorInv
  <1>2. HolderInv' /\ ReadsInv'
    BY <1>0, <1>1 DEF HolderInv, ReadsInv
  <1>3. CASE \E p \in Inspectable : Inspect(p)
    <2>1. PICK p \in Inspectable : Inspect(p)
      BY <1>3
    <2>2. /\ at' = "stat" /\ pid' = p /\ result'.status = "none" /\ previousIo' = {}
          /\ result' \in [status : Statuses, from : SUBSET Nat]
          /\ UNCHANGED <<start, rate>>
      BY <1>1, <2>1 DEF Inspect, baselines, PageInv, NoResult, Statuses
    <2>3. InspectorTypeOK'
      BY <1>0, <1>1, <2>2 DEF InspectorTypeOK
    <2>4. PageInv' /\ BaselinesInv' /\ SectionsOfInspected'
      BY <2>2 DEF PageInv, BaselinesInv, SectionsOfInspected, Vanished
    <2>5. RateOverItsWindow'
      BY <2>2 DEF InspectorInv, RateOverItsWindow
    <2> QED
      BY <1>2, <2>3, <2>4, <2>5 DEF InspectorInv
  <1>4. CASE ReadStat
    <2>1. /\ result'.status = "none" /\ result' \in [status : Statuses, from : SUBSET Nat]
          /\ ~ rate'.counted /\ UNCHANGED pid
      BY <1>4 DEF ReadStat, NoResult, NoRate, Statuses
    <2>2. SectionsOfInspected' /\ RateOverItsWindow'
      BY <2>1 DEF SectionsOfInspected, RateOverItsWindow, Vanished
    <2>3. CASE living[pid] = Nobody
      <3>1. /\ at' = "live" /\ previousIo' = {} /\ UNCHANGED start
        BY <1>1, <1>4, <2>3 DEF ReadStat, ForgetBaseline, BaselinesInv
      <3>2. InspectorTypeOK'
        BY <1>0, <1>1, <2>1, <3>1 DEF InspectorTypeOK
      <3>3. PageInv' /\ BaselinesInv'
        BY <2>1, <3>1 DEF PageInv, BaselinesInv
      <3> QED
        BY <1>2, <2>2, <3>2, <3>3 DEF InspectorInv
    <2>4. CASE living[pid] # Nobody
      <3>1. /\ at' = "counters" /\ start' = living[pid] /\ UNCHANGED previousIo
        BY <1>4, <2>4 DEF ReadStat
      <3>2. /\ living[pid] = lives[pid] /\ living[pid] \in Nat /\ start \in Nat
        BY <1>1, <2>4 DEF InspectorTypeOK, HolderInv
      <3>3. InspectorTypeOK'
        BY <1>0, <1>1, <2>1, <3>1, <3>2 DEF InspectorTypeOK
      <3>4. PageInv'
        BY <1>0, <2>1, <2>4, <3>1, <3>2 DEF PageInv
      <3>5. BaselinesInv'
        BY <1>0, <1>1, <2>1, <3>1, <3>2 DEF BaselinesInv, PageInv
      <3> QED
        BY <1>2, <2>2, <3>3, <3>4, <3>5 DEF InspectorInv
    <2> QED
      BY <2>3, <2>4
  <1>5. CASE Redraw
    <2>1. /\ at = "shown" /\ at' = "stat" /\ UNCHANGED <<pid, start, result, previousIo, rate>>
      BY <1>5 DEF Redraw, baselines
    <2>2. InspectorTypeOK' /\ PageInv'
      BY <1>0, <1>1, <2>1 DEF InspectorTypeOK, PageInv
    <2>3. BaselinesInv' /\ SectionsOfInspected' /\ RateOverItsWindow'
      BY <1>0, <2>1 DEF InspectorInv, BaselinesInv, SectionsOfInspected, RateOverItsWindow
    <2> QED
      BY <1>2, <2>2, <2>3 DEF InspectorInv
  <1>6. CASE Back
    <2>1. /\ at = "shown" /\ at' = "live" /\ UNCHANGED <<pid, start, result>>
          /\ previousIo' = {} /\ ~ rate'.counted
      BY <1>1, <1>6 DEF Back, ForgetBaseline, BaselinesInv, NoRate
    <2>2. InspectorTypeOK' /\ PageInv'
      BY <1>0, <1>1, <2>1 DEF InspectorTypeOK, PageInv
    <2>3. BaselinesInv' /\ SectionsOfInspected' /\ RateOverItsWindow'
      BY <1>0, <2>1 DEF InspectorInv, BaselinesInv, SectionsOfInspected, RateOverItsWindow
    <2> QED
      BY <1>2, <2>2, <2>3 DEF InspectorInv
  <1> QED
    BY <1>3, <1>4, <1>5, <1>6

\* Counters and the time they were read are kept together.
LEMMA CountersKeepInspectorInv ==
    ASSUME InspectorInv, ReadCounters
    PROVE  InspectorInv'
  <1>0. /\ UNCHANGED <<lives, living, io, pid, start, result>>
        /\ at = "counters" /\ at' = "gate" /\ todo' = Sections
    BY DEF ReadCounters, processes
  <1>1. InspectorTypeOK /\ HolderInv /\ PageInv /\ BaselinesInv /\ SectionsOfInspected
    BY DEF InspectorInv
  <1>2. readAt' \in Nat
    BY <1>1 DEF ReadCounters, baselines, InspectorTypeOK
  <1>3. InspectorTypeOK'
    BY <1>0, <1>1, <1>2, SectionsTyped DEF InspectorTypeOK
  <1>4. HolderInv' /\ PageInv' /\ ReadsInv' /\ SectionsOfInspected'
    BY <1>0, <1>1 DEF HolderInv, PageInv, ReadsInv, SectionsOfInspected
  <1>5. CASE UNCHANGED baselines
    <2>1. BaselinesInv' /\ RateOverItsWindow'
      BY <1>0, <1>5 DEF InspectorInv, BaselinesInv, RateOverItsWindow, baselines
    <2> QED
      BY <1>3, <1>4, <2>1 DEF InspectorInv
  <1>6. CASE ~ UNCHANGED baselines
    <2> DEFINE kept == [pid |-> pid, start |-> start, of |-> living[pid], count |-> io[pid],
                        time |-> readAt + 1]
    <2>1. /\ rate' = RateSince(Baseline)
          /\ readAt' = readAt + 1
          /\ previousIo' = (previousIo \ Baseline) \cup {kept}
      BY <1>6 DEF ReadCounters
    <2>2. kept.pid = pid /\ kept.start = start /\ kept.time = readAt + 1
      OBVIOUS
    <2> HIDE DEF kept
    <2>3. BaselinesInv'
      <3>1. start \in Nat
        BY <1>1 DEF InspectorTypeOK
      <3>2. ASSUME NEW b \in previousIo, b \notin Baseline
            PROVE  b.pid = pid /\ b.start \in Nat /\ b.start <= start /\ b.start # start
        BY <1>1, <3>2 DEF Baseline, BaselinesInv
      <3> QED
        BY <1>0, <2>1, <2>2, <3>1, <3>2 DEF BaselinesInv
    <2>4. RateOverItsWindow'
      <3>1. CASE readAt > 0 /\ Baseline # {}
        <4>1. PICK b \in Baseline : b = CHOOSE c \in Baseline : TRUE
          BY <3>1
        <4>2. rate' = [counted |-> TRUE, from |-> b.of, old |-> b.count, read |-> b.time,
                       to |-> living[pid], new |-> io[pid], elapsedFrom |-> readAt]
          BY <2>1, <3>1, <4>1 DEF RateSince
        <4>3. rate'.read = b.time /\ rate'.elapsedFrom = readAt
          BY <4>2
        <4>4. b.time = readAt
          BY <1>1, <4>1 DEF Baseline, BaselinesInv
        <4> QED
          BY <4>3, <4>4 DEF RateOverItsWindow
      <3>2. CASE ~ (readAt > 0 /\ Baseline # {})
        <4>1. rate' = NoRate
          BY <2>1, <3>2 DEF RateSince
        <4> QED
          BY <4>1 DEF RateOverItsWindow, NoRate
      <3> QED
        BY <3>1, <3>2
    <2> QED
      BY <1>3, <1>4, <2>3, <2>4 DEF InspectorInv
  <1> QED
    BY <1>5, <1>6
\* The gates say what holds then, and the reads between them are of who has the pid then.
LEMMA SectionsKeepInspectorInv ==
    ASSUME InspectorInv, GateBefore \/ FirstRead \/ NextRead \/ GateAfter
    PROVE  InspectorInv'
  <1>0. /\ UNCHANGED <<lives, living, io, pid, start, previousIo, readAt, rate>>
        /\ at \in {"gate", "first", "rest"}
    BY DEF GateBefore, FirstRead, NextRead, GateAfter, processes, baselines
  <1>1. InspectorTypeOK /\ HolderInv /\ PageInv /\ BaselinesInv
    BY DEF InspectorInv
  <1>2. todo \in Seq(SectionKinds) /\ todo # <<>>
    BY <1>0, <1>1 DEF InspectorTypeOK
  <1>3. HolderInv' /\ BaselinesInv' /\ RateOverItsWindow'
    BY <1>0 DEF InspectorInv, HolderInv, BaselinesInv, RateOverItsWindow
  <1>4. SUFFICES /\ at' \in {"gate", "first", "rest", "shown"}
                 /\ todo' \in Seq(SectionKinds)
                 /\ at' # "shown" => todo' # <<>>
                 /\ result' \in [status : Statuses, from : SUBSET Nat]
                 /\ at' \in {"first", "rest"} => result'.status = "none"
                 /\ ReadsInv' /\ SectionsOfInspected'
    <2>1. InspectorTypeOK'
      BY <1>0, <1>1, <1>4 DEF InspectorTypeOK
    <2>2. PageInv'
      BY <1>0, <1>1, <1>4 DEF PageInv
    <2> QED
      BY <1>3, <1>4, <2>1, <2>2 DEF InspectorInv
  <1>5. start # Nobody
    BY <1>0, <1>1 DEF PageInv
  \* What a section says when it is over.
  <1>6. ASSUME NEW status \in Statuses, NEW from \in SUBSET Nat, Over(status, from),
               status = "Success" => from = {start},
               status \in Vanished => living[pid] # start
        PROVE  /\ at' \in {"gate", "first", "rest", "shown"}
               /\ todo' \in Seq(SectionKinds)
               /\ at' # "shown" => todo' # <<>>
               /\ result' \in [status : Statuses, from : SUBSET Nat]
               /\ at' \in {"first", "rest"} => result'.status = "none"
               /\ ReadsInv' /\ SectionsOfInspected'
    <2>1. /\ todo' \in Seq(SectionKinds)
          /\ result' \in [status : Statuses, from : SUBSET Nat]
          /\ result'.status = status /\ result'.from = from
          /\ at' \in {"gate", "shown"}
          /\ at' = "gate" => todo' # <<>>
      BY <1>2, <1>6, TodoOver
    <2> QED
      BY <1>0, <1>6, <2>1 DEF ReadsInv, SectionsOfInspected
  <1>7. CASE GateBefore
    <2>1. CASE Identified = "Success"
      <3>1. /\ at' = "first" /\ result'.status = "none" /\ UNCHANGED todo
            /\ result' \in [status : Statuses, from : SUBSET Nat]
        BY <1>7, <2>1 DEF GateBefore, NoResult, Statuses
      <3> QED
        BY <1>2, <3>1 DEF ReadsInv, SectionsOfInspected, Vanished
    <2>2. CASE Identified # "Success"
      <3>1. Over(Identified, {})
        BY <1>7, <2>2 DEF GateBefore
      <3>2. living[pid] # start /\ Identified \in Statuses
        BY <1>5, <2>2 DEF Identified, Statuses, Vanished
      <3> QED
        BY <1>6, <2>2, <3>1, <3>2
    <2> QED
      BY <2>1, <2>2
  <1>8. CASE FirstRead
    <2>1. CASE living[pid] = Nobody /\ Over("ProcessNotFound", {})
      BY <1>5, <1>6, <2>1 DEF Statuses, Vanished
    <2>2. CASE \E failure \in Head(todo).fails : Over(failure, {})
      <3>1. PICK failure \in Head(todo).fails : Over(failure, {})
        BY <2>2
      <3>2. Head(todo) \in SectionKinds
        BY <1>2, HeadTailProperties
      <3>3. failure \in Failures \cup {"MalformedData"}
        BY <3>2 DEF SectionKinds
      <3>4. failure # "Success" /\ failure \notin Vanished /\ failure \in Statuses
        BY <3>3 DEF Failures, Vanished, Statuses
      <3> QED
        BY <1>6, <3>1, <3>4
    <2>3. CASE /\ result' = [result EXCEPT !.from = {living[pid]}]
               /\ at = "first" /\ at' = "rest" /\ UNCHANGED todo
      <3>1. /\ result'.from = {living[pid]} /\ result'.status = result.status
            /\ result' \in [status : Statuses, from : SUBSET Nat]
            /\ result.status = "none"
        BY <1>1, <2>3 DEF InspectorTypeOK
      <3> QED
        BY <1>0, <1>2, <2>3, <3>1 DEF ReadsInv, SectionsOfInspected, Vanished
    <2> QED
      BY <1>8, <2>1, <2>2, <2>3 DEF FirstRead
  <1>9. CASE NextRead
    <2>1. /\ at = "rest" /\ at' = "rest" /\ UNCHANGED todo
          /\ (UNCHANGED result \/ result' = [result EXCEPT !.from = @ \cup {living[pid]}])
      BY <1>9 DEF NextRead
    <2>2. /\ result'.from \in {result.from, result.from \cup {living[pid]}}
          /\ result'.status = result.status
          /\ result' \in [status : Statuses, from : SUBSET Nat]
          /\ result.status = "none"
      BY <1>1, <2>1 DEF InspectorTypeOK
    <2>3. living[pid] = start => result.from = {start}
      BY <2>1 DEF InspectorInv, ReadsInv
    <2> QED
      BY <1>0, <1>2, <2>1, <2>2, <2>3 DEF ReadsInv, SectionsOfInspected, Vanished
  <1>10. CASE GateAfter
    <2>1. Over(Identified, IF Identified = "Success" THEN result.from ELSE {}) /\ at = "rest"
      BY <1>10 DEF GateAfter, After
    <2>2. CASE Identified = "Success"
      <3>1. living[pid] = start
        BY <2>2 DEF Identified
      <3>2. result.from = {start}
        BY <2>1, <3>1 DEF InspectorInv, ReadsInv
      <3> QED
        BY <1>1, <1>6, <2>1, <2>2, <3>2 DEF InspectorTypeOK, Vanished, Statuses
    <2>3. CASE Identified # "Success"
      <3>1. living[pid] # start /\ Identified \in Statuses
        BY <1>5, <2>3 DEF Identified, Statuses, Vanished
      <3> QED
        BY <1>6, <2>1, <2>3, <3>1
    <2> QED
      BY <2>2, <2>3
  <1> QED
    BY <1>0, <1>7, <1>8, <1>9, <1>10

LEMMA InspectorInvStep == InspectorInv /\ [InspectorNext]_inspectorVars => InspectorInv'
  <1> SUFFICES ASSUME InspectorInv, [InspectorNext]_inspectorVars PROVE InspectorInv'
    OBVIOUS
  <1>1. CASE \E p \in Inspectable : Ends(p) \/ Begins(p) \/ ReadsAndWrites(p)
    BY <1>1, KernelKeepsInspectorInv
  <1>2. CASE (\E p \in Inspectable : Inspect(p)) \/ ReadStat \/ Redraw \/ Back
    BY <1>2, PageKeepsInspectorInv
  <1>3. CASE ReadCounters
    BY <1>3, CountersKeepInspectorInv
  <1>4. CASE GateBefore \/ FirstRead \/ NextRead \/ GateAfter
    BY <1>4, SectionsKeepInspectorInv
  <1>5. CASE UNCHANGED inspectorVars
    BY <1>5 DEF InspectorInv, InspectorTypeOK, HolderInv, PageInv, ReadsInv, BaselinesInv,
                SectionsOfInspected, RateOverItsWindow, inspectorVars, processes, baselines
  <1> QED
    BY Zenon, <1>1, <1>2, <1>3, <1>4, <1>5 DEF InspectorNext, Inspecting

\* A section shows only what was read of the inspected process, and calls a process gone or
\* replaced only when it is (inspect() of the section managers): each checks the start time
\* before its first and after its last read, and a start time never comes back.
THEOREM SectionsAreOfInspected == InspectorSpec => []SectionsOfInspected
  <1>1. InspectorInv => SectionsOfInspected
    BY DEF InspectorInv
  <1> QED
    BY <1>1, InspectorInvInit, InspectorInvStep, PTL DEF InspectorSpec

\* The I/O rate of a page is divided by the time since the counter it is measured from was
\* read (computeIoRates), though previous_scan_time_ is one for all processes: leaving a
\* page forgets its pid, so every baseline that can match is from the last reading.
THEOREM RateIsOverItsWindow == InspectorSpec => []RateOverItsWindow
  <1>1. InspectorInv => RateOverItsWindow
    BY DEF InspectorInv
  <1> QED
    BY <1>1, InspectorInvInit, InspectorInvStep, PTL DEF InspectorSpec
(* The history.                                                            *)

SamplesOf(id) == Seq([of : {id}, at : Nat])

\* A series of a device: full or not, all its samples are of the device.
IsGraph(d) ==
    /\ d = [id |-> d.id, room |-> d.room, samples |-> d.samples]
    /\ d.room \in Nat \ {0} /\ d.samples \in SamplesOf(d.id) /\ Len(d.samples) <= d.room

HistoryInv ==
    /\ maxSamples \in Nat \ {0} /\ refreshes \in Nat
    /\ Len(devices) \in Nat
    /\ \A i \in 1 .. Len(devices) : IsGraph(devices[i])
    /\ series["system"] = series["processes"]

\* ResourceHistory::addSample keeps the newest, as many as there is room for.
LEMMA AddSampleKeepsRoom ==
    ASSUME NEW S, NEW samples \in Seq(S), NEW room \in Nat \ {0}, Len(samples) <= room,
           NEW sample \in S
    PROVE  /\ AddSample(samples, room, sample) \in Seq(S)
           /\ Len(AddSample(samples, room, sample)) <= room
  <1> DEFINE kept == IF Len(samples) >= room THEN Tail(samples) ELSE samples
  <1>1. Len(samples) \in Nat /\ (samples = <<>> => Len(samples) = 0)
    BY LenProperties, EmptySeq
  <1>2. kept \in Seq(S) /\ Len(kept) < room
    <2>1. CASE Len(samples) >= room
      <3>1. samples # <<>>
        BY <1>1, <2>1
      <3>2. Tail(samples) \in Seq(S) /\ Len(Tail(samples)) = Len(samples) - 1
        BY <3>1, HeadTailProperties
      <3> QED
        BY <1>1, <2>1, <3>2
    <2>2. CASE ~ (Len(samples) >= room)
      BY <1>1, <2>2
    <2> QED
      BY <2>1, <2>2
  <1> HIDE DEF kept
  <1>3. Append(kept, sample) \in Seq(S) /\ Len(Append(kept, sample)) = Len(kept) + 1
    BY <1>2, AppendProperties
  <1>4. Len(kept) \in Nat
    BY <1>2, LenProperties
  <1>5. AddSample(samples, room, sample) = Append(kept, sample)
    BY DEF AddSample, kept
  <1> QED
    BY <1>2, <1>3, <1>4, <1>5

\* One more sample of the device itself.
LEMMA GraphWithSample ==
    ASSUME NEW d, IsGraph(d), NEW n \in Nat
    PROVE  IsGraph([d EXCEPT !.samples = AddSample(@, d.room, [of |-> d.id, at |-> n])])
  <1> DEFINE more == AddSample(d.samples, d.room, [of |-> d.id, at |-> n])
             e == [d EXCEPT !.samples = AddSample(@, d.room, [of |-> d.id, at |-> n])]
  <1>1. more \in SamplesOf(d.id) /\ Len(more) <= d.room
    <2>1. [of |-> d.id, at |-> n] \in [of : {d.id}, at : Nat]
      OBVIOUS
    <2>2. /\ d.samples \in Seq([of : {d.id}, at : Nat]) /\ d.room \in Nat \ {0}
          /\ Len(d.samples) <= d.room
      BY DEF IsGraph, SamplesOf
    <2> QED
      BY <2>1, <2>2, AddSampleKeepsRoom DEF SamplesOf
  <1>2. e = [d EXCEPT !.samples = more]
    OBVIOUS
  <1> HIDE DEF more, e
  <1>3. e = [id |-> d.id, room |-> d.room, samples |-> more]
    BY <1>2 DEF IsGraph
  <1>4. e.id = d.id /\ e.room = d.room /\ e.samples = more
    BY <1>3
  <1>5. IsGraph(e)
    BY Zenon, <1>1, <1>3, <1>4 DEF IsGraph
  <1> QED
    BY <1>5 DEF e

LEMMA FreshGraph ==
    ASSUME NEW id, NEW room \in Nat \ {0}
    PROVE  IsGraph([id |-> id, room |-> room, samples |-> <<>>])
  <1> DEFINE d == [id |-> id, room |-> room, samples |-> <<>>]
  <1>1. d.id = id /\ d.room = room /\ d.samples = <<>>
    OBVIOUS
  <1>2. <<>> \in SamplesOf(id) /\ Len(<<>>) <= room
    BY EmptySeq DEF SamplesOf
  <1>3. d = [id |-> d.id, room |-> d.room, samples |-> d.samples]
    OBVIOUS
  <1> HIDE DEF d
  <1>4. IsGraph(d)
    BY Zenon, <1>1, <1>2, <1>3 DEF IsGraph
  <1> QED
    BY <1>4 DEF d

\* The lists handed over are lists: those of the monitors, and those with a value.
LEMMA ReadingsCounted ==
    ASSUME NEW readings \in Readings
    PROVE  Len(readings) \in Nat /\ Len(Sampled(readings)) \in Nat
  <1>1. PICK n \in 0 .. MaxListed : readings \in [1 .. n -> [id : Ids, known : BOOLEAN]]
    BY DEF Readings
  <1>2. n \in Nat /\ readings \in Seq([id : Ids, known : BOOLEAN])
    <2>1. n \in Nat
      BY <1>1, HistoryConstants
    <2> QED
      BY <1>1, <2>1, SeqDef
  <1>3. Len(readings) \in Nat
    BY <1>2, LenProperties
  <1> DEFINE known == {i \in 1 .. Len(readings) : readings[i].known}
             NthKnown(k) == CHOOSE i \in known : Cardinality({j \in known : j <= i}) = k
  <1>4. Cardinality(known) \in Nat
    <2>1. IsFiniteSet(1 .. Len(readings))
      BY <1>3, FS_Interval
    <2>2. IsFiniteSet(known)
      BY <2>1, FS_Subset
    <2> QED
      BY <2>2, FS_CardinalityType
  <1>5. Sampled(readings) = [k \in 1 .. Cardinality(known) |-> readings[NthKnown(k)]]
    BY DEF Sampled
  <1> DEFINE last == Cardinality(known)
             at0 == [k \in 1 .. last |-> readings[NthKnown(k)]]
  <1>6. at0 \in [1 .. last -> {at0[k] : k \in 1 .. last}]
    OBVIOUS
  <1>7. at0 \in Seq({at0[k] : k \in 1 .. last})
    <2> HIDE DEF known, at0
    <2>1. last \in Nat
      BY <1>4
    <2> HIDE DEF last
    <2> QED
      BY <1>6, <2>1, SeqDef
  <1> QED
    BY <1>3, <1>5, <1>7, LenProperties

\* A refresh: where the list changed the series begin anew, and where it did not every
\* reading meets the series of its own device.
LEMMA RefreshKeepsGraphs ==
    ASSUME HistoryInv, NEW readings, Len(readings) \in Nat
    PROVE  LET updated == Updated(readings)
           IN Len(updated) \in Nat /\ \A i \in 1 .. Len(updated) : IsGraph(updated[i])
  <1> DEFINE synced == Synced(readings)
  <1>1. /\ Len(synced) \in Nat
        /\ \A i \in 1 .. Len(synced) : IsGraph(synced[i]) /\ synced[i].id = readings[i].id
    <2>1. CASE Changed(readings)
      <3> DEFINE graph(i) == [id |-> readings[i].id, room |-> maxSamples, samples |-> <<>>]
      <3>1. synced = [i \in 1 .. Len(readings) |-> graph(i)]
        BY <2>1 DEF Synced
      <3>2. \A i : IsGraph(graph(i)) /\ graph(i).id = readings[i].id
        BY FreshGraph DEF HistoryInv
      <3> HIDE DEF graph, synced
      <3>3. Len(synced) = Len(readings)
        BY <3>1
      <3> QED
        BY <3>1, <3>2, <3>3
    <2>2. CASE ~ Changed(readings)
      BY <2>2 DEF Synced, Changed, HistoryInv
    <2> QED
      BY <2>1, <2>2
  <1> HIDE DEF synced
  <1> DEFINE next(i) == IF ~ readings[i].known THEN synced[i]
                        ELSE [synced[i] EXCEPT !.samples =
                                 AddSample(@, synced[i].room,
                                           [of |-> readings[i].id, at |-> refreshes + 1])]
  <1>2. Updated(readings) = [i \in 1 .. Len(synced) |-> next(i)]
    BY DEF Updated, synced
  <1>3. ASSUME NEW i \in 1 .. Len(synced) PROVE IsGraph(next(i))
    <2>1. refreshes + 1 \in Nat
      BY DEF HistoryInv
    <2> QED
      BY <1>1, <2>1, GraphWithSample
  <1> HIDE DEF next
  <1>4. Len([i \in 1 .. Len(synced) |-> next(i)]) = Len(synced)
    BY <1>1
  <1> QED
    BY <1>1, <1>2, <1>3, <1>4

LEMMA HistoryInvStep == HistoryInv /\ [HistoryNext]_historyVars => HistoryInv'
  <1> SUFFICES ASSUME HistoryInv, [HistoryNext]_historyVars PROVE HistoryInv'
    OBVIOUS
  <1>1. ASSUME NEW groups, Sample(groups), {"system", "processes"} \subseteq groups
        PROVE  HistoryInv'
    <2>1. PICK readings \in Readings :
              devices' = Updated(IF list = "cpus" THEN Sampled(readings) ELSE readings)
      BY <1>1 DEF Sample
    <2>2. Len(devices') \in Nat /\ \A i \in 1 .. Len(devices') : IsGraph(devices'[i])
      BY <2>1, ReadingsCounted, RefreshKeepsGraphs
    <2>3. PICK readable \in SUBSET {"memory", "pressure", "load"} :
              Recorded(groups \ ({"memory", "pressure", "load"} \ readable))
      BY <1>1 DEF Sample
    <2>4. series'["system"] = series'["processes"]
      BY <1>1, <2>3 DEF Recorded, Groups, HistoryInv
    <2>5. maxSamples' \in Nat \ {0} /\ refreshes' \in Nat
      BY <1>1 DEF Sample, HistoryInv
    <2> QED
      BY <2>2, <2>4, <2>5 DEF HistoryInv
  <1>2. CASE Tick \/ AfterManage
    BY <1>1, <1>2 DEF Tick, AfterManage, Groups
  <1>3. CASE \E room \in Capacities : SetMaxSamples(room)
    <2>1. PICK room \in Capacities : SetMaxSamples(room)
      BY <1>3
    <2>2. maxSamples' \in Nat \ {0} /\ refreshes' \in Nat
      BY <2>1, HistoryConstants DEF SetMaxSamples, HistoryInv
    <2>3. devices' = <<>> /\ series' = [g \in Groups |-> <<>>]
      BY <2>1 DEF SetMaxSamples
    <2> QED
      BY <2>2, <2>3 DEF HistoryInv, Groups
  <1>4. CASE UNCHANGED historyVars
    BY <1>4 DEF HistoryInv, historyVars
  <1> QED
    BY <1>2, <1>3, <1>4 DEF HistoryNext

\* A graph is of its device and within its room (HistoryManager::sync*Histories, update),
\* though samples are filed by position: the list a sample comes from is the list the series
\* were last made for, and what has no value keeps its place or leaves the list.  The series
\* of the system and of the processes are as long as one another.
THEOREM SamplesAreOfTheirDevice == HistorySpec => []SamplesOfTheirDevice
  <1>1. HistoryInit => HistoryInv
    BY HistoryConstants DEF HistoryInit, HistoryInv, Groups
  <1>2. HistoryInv => SamplesOfTheirDevice
    <2> SUFFICES ASSUME HistoryInv, NEW i \in 1 .. Len(devices)
                 PROVE  /\ Len(devices[i].samples) <= devices[i].room
                        /\ \A s \in 1 .. Len(devices[i].samples) :
                              devices[i].samples[s].of = devices[i].id
      BY DEF HistoryInv, SamplesOfTheirDevice
    <2>1. /\ devices[i].samples \in Seq([of : {devices[i].id}, at : Nat])
          /\ Len(devices[i].samples) <= devices[i].room
      BY DEF HistoryInv, IsGraph, SamplesOf
    <2>2. ASSUME NEW s \in 1 .. Len(devices[i].samples)
          PROVE  devices[i].samples[s].of = devices[i].id
      <3>1. devices[i].samples[s] \in [of : {devices[i].id}, at : Nat]
        BY <2>1, ElementOfSeq
      <3> QED
        BY <3>1
    <2> QED
      BY <2>1, <2>2
  <1> QED
    BY <1>1, <1>2, HistoryInvStep, PTL DEF HistorySpec

-----------------------------------------------------------------------------
(* The filesystems.                                                        *)

Mounts == [id : Nat \ {0}, point : MountPoints, pseudo : BOOLEAN, serial : Nat]
Samples ==
    {s \in [at : Nat, value : Nat, most : Int, of : Nat] :
        s.most # Unavailable => s.value <= s.most}
Graphs == [usage : Seq(Samples), available : Seq(Samples)]
AllIdentities == (Nat \ {0}) \X MountPoints
AllSeries == UNION {[some -> Graphs] : some \in SUBSET AllIdentities}

\* A list of mounts, no two with one number.
MountList(table) ==
    /\ table \in Seq(Mounts)
    /\ \A j, k \in DOMAIN table : table[j].id = table[k].id => j = k

\* A series within its room, in the order of its refreshes, up to one of them.
GoodRing(ring, last) ==
    /\ Len(ring) <= ringSize
    /\ \A n \in DOMAIN ring : ring[n].at <= last
    /\ \A n \in 2 .. Len(ring) : ring[n - 1].at < ring[n].at
RingOf(ring, serial) == \A n \in DOMAIN ring : ring[n].of = serial
GraphOf(graph, serial) == RingOf(graph.usage, serial) /\ RingOf(graph.available, serial)
GoodGraph(graph, last) == GoodRing(graph.usage, last) /\ GoodRing(graph.available, last)

\* What is filed for the mounts of a list is of them, where no identity changed hands.
FiledFor(table, stored) ==
    \A k \in DOMAIN table :
        LET i == Identity(table[k])
        IN i \in DOMAIN stored /\ i \notin reborn => GraphOf(stored[i], table[k].serial)

\* One serial for each series.
OneSerial(stored) ==
    \A i \in DOMAIN stored \ reborn : \E serial \in Nat : GraphOf(stored[i], serial)

WithinRoom(stored) ==
    IsFiniteSet(DOMAIN stored) /\ Cardinality(DOMAIN stored) <= MaxSeriesKept

MountsInv ==
    /\ MountList(mounts) /\ MountList(listing)
    /\ made \in Nat /\ ringSize \in Nat \ {0} /\ listings \in Nat
    /\ histories \in AllSeries /\ WithinRoom(histories)
    /\ \A i \in DOMAIN histories : GoodGraph(histories[i], listings)
    /\ OneSerial(histories) /\ FiledFor(mounts, histories)
    /\ DOMAIN histories \subseteq ListedIdentities \/ reading
    \* While a list is worked on, its mounts are those that are there now or were.
    /\ reading => /\ FiledFor(listing, histories)
                  /\ \A j \in DOMAIN listing, k \in DOMAIN mounts :
                        /\ Identity(listing[j]) = Identity(mounts[k])
                        /\ Identity(listing[j]) \notin reborn
                        => listing[j].serial = mounts[k].serial

-----------------------------------------------------------------------------
\* What statvfs may count is cut to the whole.
LEMMA DivisionBound ==
    ASSUME NEW x \in Nat, NEW t \in Nat \ {0}, x <= t * 100
    PROVE  x \div t \in 0 .. 100
  <1> DEFINE q == x \div t
  <1>1. q \in Int /\ t * q <= x /\ x < t * q + t
    OBVIOUS
  <1> HIDE DEF q
  <1>2. q >= 0
    <2> SUFFICES ASSUME q <= 0 - 1 PROVE FALSE
      BY <1>1
    <2>1. t * q <= t * (0 - 1)
      BY <1>1
    <2> QED
      BY <1>1, <2>1
  <1>3. q <= 100
    <2> SUFFICES ASSUME q >= 101 PROVE FALSE
      BY <1>1
    <2>1. t * q >= t * 101
      BY <1>1
    <2> QED
      BY <1>1, <2>1
  <1> QED
    BY <1>1, <1>2, <1>3 DEF q

LEMMA ScaledFacts ==
    ASSUME NEW blocks \in Nat, NEW unit \in Nat
    PROVE  Scaled(blocks, unit) \in Nat \cup {Unavailable}
  <1>1. blocks * unit \in Nat
    OBVIOUS
  <1> QED
    BY <1>1 DEF Scaled, Unavailable

LEMMA ClampedFacts ==
    ASSUME NEW part \in Nat \cup {Unavailable}, NEW whole \in Nat \cup {Unavailable}
    PROVE  /\ Clamped(part, whole) \in Nat \cup {Unavailable}
           /\ whole # Unavailable => Clamped(part, whole) <= whole
  BY DEF Clamped, Unavailable

LEMMA PercentageFacts ==
    ASSUME NEW free \in Nat \cup {Unavailable}, NEW total \in Nat \cup {Unavailable},
           total # Unavailable => free <= total
    PROVE  /\ Percentage(free, total) \in Nat \cup {Unavailable}
           /\ Percentage(free, total) <= 100
  <1>1. CASE Unavailable \in {free, total} \/ total = 0
    BY <1>1 DEF Percentage, Unavailable
  <1>2. CASE ~ (Unavailable \in {free, total} \/ total = 0)
    <2>1. /\ free \in Nat /\ total \in Nat \ {0}
          /\ (total - free) * 100 \in Nat /\ (total - free) * 100 <= total * 100
      BY <1>2 DEF Unavailable
    <2>2. Percentage(free, total) = ((total - free) * 100) \div total
      BY <1>2 DEF Percentage
    <2> QED
      BY <2>1, <2>2, DivisionBound
  <1> QED
    BY <1>1, <1>2

\* A use is a percentage, what is available is not above the whole.
Sane(figures) ==
    /\ figures.usage \in Nat \cup {Unavailable} /\ figures.available \in Nat \cup {Unavailable}
    /\ figures.usage <= 100
    /\ figures.total \in Int /\ (figures.total # Unavailable => figures.available <= figures.total)

LEMMA OutcomesAreSane == \A figures \in Outcomes : Sane(figures)
  <1>1. Sane(NoFigures)
    BY DEF Sane, NoFigures, Unavailable
  <1>2. ASSUME NEW answer \in Answers PROVE Sane(Capacity(answer))
    <2> DEFINE total == Scaled(answer.blocks, answer.unit)
               free == Clamped(Scaled(answer.free, answer.unit), total)
               available == Clamped(Scaled(answer.available, answer.unit), total)
               usage == Percentage(free, total)
    <2>1. /\ answer.unit \in Nat /\ answer.blocks \in Nat /\ answer.free \in Nat
          /\ answer.available \in Nat
      BY FilesystemConstants
    <2>2. total \in Nat \cup {Unavailable}
      BY <2>1, ScaledFacts
    <2>3. /\ free \in Nat \cup {Unavailable} /\ available \in Nat \cup {Unavailable}
          /\ total # Unavailable => free <= total /\ available <= total
      BY <2>1, <2>2, ScaledFacts, ClampedFacts
    <2>4. usage \in Nat \cup {Unavailable} /\ usage <= 100
      BY <2>2, <2>3, PercentageFacts
    <2>5. Capacity(answer) =
            IF answer.unit = 0
            THEN [usage |-> Unavailable, available |-> Unavailable, total |-> Unavailable]
            ELSE [usage |-> usage, available |-> available, total |-> total]
      BY Zenon DEF Capacity
    <2> HIDE DEF total, free, available, usage
    <2> QED
      BY <2>2, <2>3, <2>4, <2>5 DEF Sane, Unavailable
  <1> QED
    BY <1>1, <1>2 DEF Outcomes

-----------------------------------------------------------------------------
\* There is a number for a new mount, and no other mount has it.
LEMMA FreeIdFacts ==
    ASSUME MountList(mounts)
    PROVE  FreeId \in Nat \ {0} /\ \A k \in DOMAIN mounts : mounts[k].id # FreeId
  <1> DEFINE n == Len(mounts)
             free == {id \in 1 .. n + 1 : \A k \in DOMAIN mounts : mounts[k].id # id}
             low == {k \in 1 .. n : mounts[k].id \in 1 .. n + 1}
             number == [k \in low |-> mounts[k].id]
             Fits(id) == /\ \A k \in DOMAIN mounts : mounts[k].id # id
                         /\ \A lower \in 1 .. id - 1 :
                               \E k \in DOMAIN mounts : mounts[k].id = lower
  <1>1. /\ n \in Nat /\ DOMAIN mounts = 1 .. n
        /\ \A k \in 1 .. n : mounts[k].id \in Nat \ {0}
    <2>1. mounts \in Seq(Mounts)
      BY DEF MountList
    <2>2. \A k \in 1 .. n : mounts[k] \in Mounts
      BY <2>1, ElementOfSeq
    <2> QED
      BY <2>1, <2>2, LenProperties DEF Mounts
  <1>2. IsFiniteSet(low) /\ Cardinality(low) <= n /\ Cardinality(low) \in Nat
    <2> HIDE DEF n
    <2>1. IsFiniteSet(1 .. n) /\ Cardinality(1 .. n) = n
      <3>1. n \in Int /\ 1 \in Int
        BY <1>1
      <3>2. IsFiniteSet(1 .. n) /\ Cardinality(1 .. n) = IF 1 > n THEN 0 ELSE n - 1 + 1
        BY <3>1, FS_Interval
      <3> QED
        BY <1>1, <3>2
    <2>2. low \in SUBSET (1 .. n)
      OBVIOUS
    <2> HIDE DEF low
    <2> QED
      BY <2>1, <2>2, FS_Subset, FS_CardinalityType
  <1>3. free # {}
    <2> SUFFICES ASSUME free = {} PROVE FALSE
      OBVIOUS
    <2>1. Cardinality(1 .. n + 1) = n + 1
      <3> HIDE DEF n
      <3>1. n + 1 \in Int /\ 1 \in Int
        BY <1>1
      <3>2. Cardinality(1 .. n + 1) = IF 1 > n + 1 THEN 0 ELSE (n + 1) - 1 + 1
        BY <3>1, FS_Interval
      <3> QED
        BY <1>1, <3>2
    <2>2. \A id \in 1 .. n + 1 : \E k \in low : number[k] = id
      BY <1>1
    <2>3. number \in [low -> 1 .. n + 1]
      OBVIOUS
    <2> HIDE DEF number, low, free
    <2>4. number \in Surjection(low, 1 .. n + 1)
      BY <2>2, <2>3 DEF Surjection
    <2>5. Cardinality(1 .. n + 1) <= Cardinality(low)
      BY <1>2, <2>4, FS_Surjection
    <2> QED
      BY <1>1, <1>2, <2>1, <2>5
  <1>4. PICK least \in free : \A k \in free : least <= k
    <2>1. free \in SUBSET Nat
      BY <1>1
    <2> HIDE DEF free
    <2> QED
      BY <1>3, <2>1, LeastOfSet
  <1>5. least \in 1 .. n + 1 /\ Fits(least)
    <2>1. \A lower \in 1 .. least - 1 : lower \in 1 .. n + 1 /\ lower \notin free
      BY <1>1, <1>4
    <2> QED
      BY <1>4, <2>1
  <1>6. FreeId \in 1 .. n + 1 /\ Fits(FreeId)
    <2>1. FreeId = CHOOSE id \in 1 .. n + 1 : Fits(id)
      BY DEF FreeId
    <2> HIDE DEF Fits, n
    <2> QED
      BY Zenon, <1>5, <2>1
  <1> QED
    BY <1>1, <1>6

LEMMA RemoveAtFacts ==
    ASSUME NEW S, NEW table \in Seq(S), NEW i \in 1 .. Len(table)
    PROVE  /\ RemoveAt(table, i) \in Seq(S)
           /\ DOMAIN RemoveAt(table, i) = 1 .. Len(table) - 1
           /\ \A k \in 1 .. Len(table) - 1 :
                 RemoveAt(table, i)[k] = table[IF k < i THEN k ELSE k + 1]
  <1> DEFINE front == SubSeq(table, 1, i - 1)
             back == SubSeq(table, i + 1, Len(table))
  <1>1. Len(table) \in Nat /\ \A k \in 1 .. Len(table) : table[k] \in S
    BY LenProperties, ElementOfSeq
  <1>2. /\ front \in Seq(S) /\ Len(front) = i - 1
        /\ \A k \in 1 .. i - 1 : front[k] = table[k]
    <2>1. \A k \in 1 .. i - 1 : table[k] \in S
      BY <1>1
    <2>2. /\ front \in Seq(S) /\ Len(front) = IF 1 <= i - 1 THEN (i - 1) - 1 + 1 ELSE 0
          /\ \A k \in 1 .. (i - 1) - 1 + 1 : front[k] = table[1 + k - 1]
      BY <1>1, <2>1, SubSeqProperties
    <2> HIDE DEF front
    <2> QED
      BY <1>1, <2>2
  <1>3. /\ back \in Seq(S) /\ Len(back) = Len(table) - i
        /\ \A k \in 1 .. Len(table) - i : back[k] = table[i + k]
    <2>1. \A k \in i + 1 .. Len(table) : table[k] \in S
      BY <1>1
    <2>2. /\ back \in Seq(S)
          /\ Len(back) = IF i + 1 <= Len(table) THEN Len(table) - (i + 1) + 1 ELSE 0
          /\ \A k \in 1 .. Len(table) - (i + 1) + 1 : back[k] = table[(i + 1) + k - 1]
      BY <1>1, <2>1, SubSeqProperties
    <2> HIDE DEF back
    <2> QED
      BY <1>1, <2>2
  <1>4. RemoveAt(table, i) = front \o back
    BY DEF RemoveAt
  <1> HIDE DEF front, back
  <1>5. /\ front \o back \in Seq(S) /\ Len(front \o back) = Len(table) - 1
        /\ \A k \in 1 .. Len(table) - 1 :
              (front \o back)[k] = IF k <= i - 1 THEN front[k] ELSE back[k - (i - 1)]
    <2>1. /\ front \o back \in Seq(S) /\ Len(front \o back) = Len(front) + Len(back)
          /\ \A k \in 1 .. Len(front) + Len(back) :
                (front \o back)[k] = IF k <= Len(front) THEN front[k] ELSE back[k - Len(front)]
      BY <1>2, <1>3, ConcatProperties
    <2>2. Len(front) + Len(back) = Len(table) - 1
      BY <1>1, <1>2, <1>3
    <2> QED
      BY <1>2, <2>1, <2>2
  <1>6. ASSUME NEW k \in 1 .. Len(table) - 1
        PROVE  (front \o back)[k] = table[IF k < i THEN k ELSE k + 1]
    <2>1. CASE k < i
      BY <1>1, <1>2, <1>5, <2>1
    <2>2. CASE ~ k < i
      BY <1>1, <1>3, <1>5, <2>2
    <2> QED
      BY <2>1, <2>2
  <1> QED
    BY <1>4, <1>5, <1>6, LenProperties

-----------------------------------------------------------------------------
\* What is in a series up to one refresh, is up to the next.
LEMMA LaterRing ==
    ASSUME NEW ring \in Seq(Samples), listings \in Nat, GoodRing(ring, listings)
    PROVE  GoodRing(ring, listings + 1)
  <1>1. \A m \in DOMAIN ring : ring[m] \in Samples
    BY ElementOfSeq, LenProperties
  <1>2. ASSUME NEW m \in DOMAIN ring PROVE ring[m].at <= listings + 1
    <2>1. ring[m].at \in Nat
      BY <1>1 DEF Samples
    <2>2. ring[m].at <= listings
      BY Zenon DEF GoodRing
    <2> QED
      BY <2>1, <2>2
  <1> QED
    BY Zenon, <1>2 DEF GoodRing

LEMMA LaterFacts ==
    ASSUME NEW graph \in Graphs, listings \in Nat, GoodGraph(graph, listings)
    PROVE  GoodGraph(graph, listings + 1)
  BY LaterRing DEF GoodGraph, Graphs

\* One more sample in a series of numbers.
LEMMA SeriesRingFacts ==
    ASSUME NEW ring \in Seq(Samples), GoodRing(ring, listings), ringSize \in Nat \ {0},
           listings \in Nat, NEW k, listing[k].serial \in Nat,
           NEW amount \in Nat \cup {Unavailable}, NEW most \in Int,
           most # Unavailable => amount <= most
    PROVE  /\ SeriesRing(ring, amount, most, k) \in Seq(Samples)
           /\ GoodRing(SeriesRing(ring, amount, most, k), listings + 1)
           /\ RingOf(ring, listing[k].serial) =>
                 RingOf(SeriesRing(ring, amount, most, k), listing[k].serial)
  <1> DEFINE serial == listing[k].serial
             sample == [at |-> listings + 1, value |-> amount, most |-> most, of |-> serial]
             all == Append(ring, sample)
             n == Len(ring)
  <1>1. n \in Nat /\ DOMAIN ring = 1 .. n /\ \A m \in 1 .. n : ring[m] \in Samples
    BY LenProperties, ElementOfSeq
  <1>2. CASE amount = Unavailable
    <2>1. SeriesRing(ring, amount, most, k) = ring
      BY <1>2 DEF SeriesRing
    <2>2. \A m \in 1 .. n : ring[m].at \in Nat
      BY <1>1 DEF Samples
    <2>3. GoodRing(ring, listings + 1)
      BY <1>1, <2>2, LaterRing
    <2> QED
      BY <1>2, <2>1, <2>3
  <1>3. CASE amount # Unavailable
    <2>1. sample \in Samples /\ sample.at = listings + 1 /\ sample.of = serial
      BY <1>3 DEF Samples
    <2>2. SeriesRing(ring, amount, most, k) = IF Len(all) > ringSize THEN Tail(all) ELSE all
      BY <1>3 DEF SeriesRing
    <2> HIDE DEF sample
    <2>3. /\ all \in Seq(Samples) /\ all # << >> /\ Len(all) = n + 1
          /\ all[n + 1] = sample /\ \A m \in 1 .. n : all[m] = ring[m]
      BY <2>1, AppendProperties
    <2> HIDE DEF all
    <2>4. /\ \A m \in 1 .. n + 1 : all[m].at <= listings + 1
          /\ \A m \in 2 .. n + 1 : all[m - 1].at < all[m].at
          /\ RingOf(ring, serial) => \A m \in 1 .. n + 1 : all[m].of = serial
      <3>1. ASSUME NEW m \in 1 .. n
            PROVE  all[m].at <= listings /\ (RingOf(ring, serial) => all[m].of = serial)
        BY <1>1, <2>3 DEF GoodRing, RingOf
      <3>2. ASSUME NEW m \in 2 .. n PROVE all[m - 1].at < all[m].at
        <4>1. m - 1 \in 1 .. n /\ m \in 1 .. n
          BY <1>1
        <4> QED
          BY <2>3, <4>1 DEF GoodRing
      <3>3. \A m \in 1 .. n : all[m].at \in Nat
        BY <1>1, <2>3 DEF Samples
      <3> HIDE DEF serial
      <3>4. \A m \in 1 .. n + 1 : m = n + 1 \/ m \in 1 .. n
        BY <1>1
      <3>5. \A m \in 2 .. n + 1 : (m = n + 1 /\ m - 1 \in 1 .. n) \/ m \in 2 .. n
        BY <1>1
      <3>6. all[n + 1].at = listings + 1 /\ all[n + 1].of = serial
        BY <2>1, <2>3
      <3>7. \A m \in 1 .. n + 1 : all[m].at <= listings + 1
        BY <3>1, <3>3, <3>4, <3>6
      <3>8. \A m \in 2 .. n + 1 : all[m - 1].at < all[m].at
        BY <3>1, <3>2, <3>3, <3>5, <3>6
      <3> QED
        BY <3>1, <3>4, <3>6, <3>7, <3>8
    <2>5. n <= ringSize
      BY DEF GoodRing
    <2> HIDE DEF serial
    <2>6. CASE Len(all) > ringSize
      <3>1. /\ Tail(all) \in Seq(Samples) /\ Len(Tail(all)) = n
            /\ \A m \in 1 .. n : Tail(all)[m] = all[m + 1]
        BY <1>1, <2>3, HeadTailProperties
      <3>2. DOMAIN Tail(all) = 1 .. n
        BY <3>1, LenProperties
      <3>3. /\ \A m \in 1 .. n : Tail(all)[m].at <= listings + 1
            /\ \A m \in 2 .. n : Tail(all)[m - 1].at < Tail(all)[m].at
            /\ RingOf(ring, serial) => \A m \in 1 .. n : Tail(all)[m].of = serial
        <4>1. \A m \in 1 .. n : m + 1 \in 1 .. n + 1
          BY <1>1
        <4>2. \A m \in 2 .. n : /\ m - 1 \in 1 .. n /\ m \in 1 .. n /\ m + 1 \in 2 .. n + 1
                                /\ (m - 1) + 1 = (m + 1) - 1
          BY <1>1
        <4> QED
          BY <2>4, <3>1, <4>1, <4>2
      <3>4. GoodRing(Tail(all), listings + 1)
        BY <2>5, <3>1, <3>2, <3>3 DEF GoodRing
      <3>5. RingOf(ring, serial) => RingOf(Tail(all), serial)
        BY <3>2, <3>3 DEF RingOf
      <3> QED
        BY <2>2, <2>6, <3>1, <3>4, <3>5 DEF serial
    <2>7. CASE ~ (Len(all) > ringSize)
      <3>1. DOMAIN all = 1 .. n + 1
        BY <2>3, LenProperties
      <3>2. Len(all) <= ringSize
        BY <1>1, <2>3, <2>7
      <3>3. GoodRing(all, listings + 1)
        BY <2>3, <2>4, <3>1, <3>2 DEF GoodRing
      <3>4. RingOf(ring, serial) => RingOf(all, serial)
        BY <2>4, <3>1 DEF RingOf
      <3> QED
        BY <2>2, <2>3, <2>7, <3>3, <3>4 DEF serial
    <2> QED
      BY <2>6, <2>7
  <1> QED
    BY <1>2, <1>3

LEMMA NewGraphFacts ==
    /\ [usage |-> <<>>, available |-> <<>>] \in Graphs
    /\ \A last : ringSize \in Nat => GoodGraph([usage |-> <<>>, available |-> <<>>], last)
    /\ \A serial : GraphOf([usage |-> <<>>, available |-> <<>>], serial)
  <1>1. <<>> \in Seq(Samples) /\ Len(<<>>) = 0 /\ DOMAIN <<>> = {}
    BY EmptySeq
  <1>2. \A last : ringSize \in Nat => GoodRing(<<>>, last)
    BY <1>1 DEF GoodRing
  <1>3. \A serial : RingOf(<<>>, serial)
    BY <1>1 DEF RingOf
  <1> QED
    BY <1>1, <1>2, <1>3 DEF Graphs, GoodGraph, GraphOf

LEMMA SeriesFacts ==
    ASSUME NEW stored \in AllSeries
    PROVE  /\ DOMAIN stored \in SUBSET AllIdentities
           /\ stored = [i \in DOMAIN stored |-> stored[i]]
           /\ \A i \in DOMAIN stored : stored[i] \in Graphs
  BY DEF AllSeries

\* What one mount does to the series: it touches its own only, and adds a sample of its own.
WithSampleOf(stored, k, new) ==
    LET i == Identity(listing[k])
    IN /\ new \in AllSeries /\ WithinRoom(new)
       /\ \A j \in AllIdentities \ {i} :
             (j \in DOMAIN new <=> j \in DOMAIN stored)
             /\ (j \in DOMAIN new => new[j] = stored[j])
       /\ i \in DOMAIN new =>
             /\ GoodGraph(new[i], listings + 1)
             /\ (i \in DOMAIN stored => GraphOf(stored[i], listing[k].serial)) =>
                   GraphOf(new[i], listing[k].serial)

LEMMA WithSampleFacts ==
    ASSUME NEW stored \in AllSeries, WithinRoom(stored), NEW k, listing[k] \in Mounts,
           NEW figures, Sane(figures), ringSize \in Nat \ {0}, listings \in Nat,
           Identity(listing[k]) \in DOMAIN stored =>
              GoodGraph(stored[Identity(listing[k])], listings)
    PROVE  WithSampleOf(stored, k, WithSample(stored, k, figures))
  <1> DEFINE i == Identity(listing[k])
             serial == listing[k].serial
             old == IF i \in DOMAIN stored THEN stored[i] ELSE [usage |-> <<>>, available |-> <<>>]
             ring1 == SeriesRing(old.usage, figures.usage, 100, k)
             ring2 == SeriesRing(old.available, figures.available, figures.total, k)
             graph == [usage |-> ring1, available |-> ring2]
             passed == \/ listing[k].pseudo \/ ~ Measurable(figures)
                       \/ (i \notin DOMAIN stored /\ Cardinality(DOMAIN stored) >= MaxSeriesKept)
             more == [j \in DOMAIN stored \cup {i} |-> IF j # i THEN stored[j] ELSE graph]
             new == WithSample(stored, k, figures)
  <1>1. i \in AllIdentities /\ serial \in Nat
    BY DEF Identity, AllIdentities, Mounts
  <1>2. new = IF passed THEN stored ELSE more
    BY Zenon DEF WithSample
  <1>3. /\ old \in Graphs /\ GoodGraph(old, listings)
        /\ (i \in DOMAIN stored => GraphOf(stored[i], serial)) => GraphOf(old, serial)
    <2>1. CASE i \in DOMAIN stored
      BY <2>1, SeriesFacts
    <2>2. CASE i \notin DOMAIN stored
      BY <2>2, NewGraphFacts
    <2> QED
      BY <2>1, <2>2
  <1> HIDE DEF old
  <1>4. /\ graph \in Graphs /\ GoodGraph(graph, listings + 1)
        /\ GraphOf(old, serial) => GraphOf(graph, serial)
    <2>1. /\ old.usage \in Seq(Samples) /\ GoodRing(old.usage, listings)
          /\ old.available \in Seq(Samples) /\ GoodRing(old.available, listings)
      BY <1>3 DEF Graphs, GoodGraph
    <2>2. /\ figures.usage \in Nat \cup {Unavailable}
          /\ figures.available \in Nat \cup {Unavailable}
          /\ 100 \in Int /\ (100 # Unavailable => figures.usage <= 100)
          /\ figures.total \in Int /\ (figures.total # Unavailable => figures.available <= figures.total)
      BY DEF Sane
    <2>3. /\ ring1 \in Seq(Samples) /\ GoodRing(ring1, listings + 1)
          /\ RingOf(old.usage, serial) => RingOf(ring1, serial)
      BY <1>1, <2>1, <2>2, SeriesRingFacts
    <2>4. /\ ring2 \in Seq(Samples) /\ GoodRing(ring2, listings + 1)
          /\ RingOf(old.available, serial) => RingOf(ring2, serial)
      BY <1>1, <2>1, <2>2, SeriesRingFacts
    <2> HIDE DEF ring1, ring2, serial
    <2> QED
      BY <2>3, <2>4 DEF Graphs, GoodGraph, GraphOf
  <1> HIDE DEF graph
  <1>5. CASE passed
    <2>1. new = stored
      BY Zenon, <1>2, <1>5
    <2>2. i \in DOMAIN stored => GoodGraph(stored[i], listings + 1)
      <3> SUFFICES ASSUME i \in DOMAIN stored PROVE GoodGraph(stored[i], listings + 1)
        OBVIOUS
      <3>1. stored[i] \in Graphs /\ GoodGraph(stored[i], listings)
        BY SeriesFacts
      <3> QED
        BY <3>1, LaterFacts
    <2>3. WithSampleOf(stored, k, stored)
      <3> HIDE DEF i
      <3>1. \A j \in AllIdentities \ {i} :
               (j \in DOMAIN stored <=> j \in DOMAIN stored)
               /\ (j \in DOMAIN stored => stored[j] = stored[j])
        OBVIOUS
      <3> QED
        BY Zenon, <2>2, <3>1 DEF WithSampleOf, i
    <2> QED
      BY Zenon, <2>1, <2>3
  <1>6. CASE ~ passed
    <2>1. new = more
      BY Zenon, <1>2, <1>6
    <2>2. /\ DOMAIN more = DOMAIN stored \cup {i} /\ more[i] = graph
          /\ \A j \in AllIdentities \ {i} :
                (j \in DOMAIN more <=> j \in DOMAIN stored)
                /\ (j \in DOMAIN more => more[j] = stored[j])
      BY <1>1
    <2>3. more \in AllSeries
      <3>1. DOMAIN more \in SUBSET AllIdentities /\ \A j \in DOMAIN more : more[j] \in Graphs
        BY <1>1, <1>4, SeriesFacts
      <3>2. more \in [DOMAIN more -> Graphs]
        BY <3>1
      <3> HIDE DEF more
      <3> QED
        BY <3>1, <3>2 DEF AllSeries
    <2>4. WithinRoom(more)
      <3>1. i \notin DOMAIN stored => Cardinality(DOMAIN stored) < MaxSeriesKept
        <4>1. i \in DOMAIN stored \/ ~ Cardinality(DOMAIN stored) >= MaxSeriesKept
          BY Zenon, <1>6
        <4>2. Cardinality(DOMAIN stored) \in Nat
          BY FS_CardinalityType DEF WithinRoom
        <4> QED
          BY <4>1, <4>2, FilesystemConstants
      <3> HIDE DEF i, more
      <3>2. /\ IsFiniteSet(DOMAIN stored) /\ Cardinality(DOMAIN stored) \in Nat
            /\ Cardinality(DOMAIN stored) <= MaxSeriesKept
        BY FS_CardinalityType DEF WithinRoom
      <3>3. /\ IsFiniteSet(DOMAIN stored \cup {i})
            /\ Cardinality(DOMAIN stored \cup {i}) =
                  IF i \in DOMAIN stored THEN Cardinality(DOMAIN stored)
                  ELSE Cardinality(DOMAIN stored) + 1
        BY <3>2, FS_AddElement
      <3> QED
        BY <2>2, <3>1, <3>2, <3>3, FilesystemConstants DEF WithinRoom
    <2>5. GoodGraph(more[i], listings + 1)
      BY Zenon, <1>4, <2>2
    <2>6. (i \in DOMAIN stored => GraphOf(stored[i], serial)) => GraphOf(more[i], serial)
      BY Zenon, <1>3, <1>4, <2>2
    <2>7. WithSampleOf(stored, k, more)
      <3> HIDE DEF i, more
      <3> QED
        BY Zenon, <2>2, <2>3, <2>4, <2>5, <2>6 DEF WithSampleOf, i
    <2> QED
      BY Zenon, <2>1, <2>7
  <1> QED
    BY <1>5, <1>6

LEMMA WithSampleType ==
    ASSUME NEW stored \in AllSeries, NEW k, listing[k] \in Mounts, NEW figures, Sane(figures),
           listings \in Nat
    PROVE  WithSample(stored, k, figures) \in AllSeries
  <1> DEFINE i == Identity(listing[k])
             old == IF i \in DOMAIN stored THEN stored[i] ELSE [usage |-> <<>>, available |-> <<>>]
             graph == [usage |-> SeriesRing(old.usage, figures.usage, 100, k),
                       available |-> SeriesRing(old.available, figures.available, figures.total, k)]
             passed == \/ listing[k].pseudo \/ ~ Measurable(figures)
                       \/ (i \notin DOMAIN stored /\ Cardinality(DOMAIN stored) >= MaxSeriesKept)
             more == [j \in DOMAIN stored \cup {i} |-> IF j # i THEN stored[j] ELSE graph]
  <1>1. i \in AllIdentities /\ listing[k].serial \in Nat
    BY DEF Identity, AllIdentities, Mounts
  <1>2. WithSample(stored, k, figures) = IF passed THEN stored ELSE more
    BY Zenon DEF WithSample
  <1>3. ASSUME NEW ring \in Seq(Samples), NEW amount \in Nat \cup {Unavailable}, NEW most \in Int,
               most # Unavailable => amount <= most
        PROVE  SeriesRing(ring, amount, most, k) \in Seq(Samples)
    <2> DEFINE sample == [at |-> listings + 1, value |-> amount, most |-> most,
                          of |-> listing[k].serial]
               all == Append(ring, sample)
    <2>1. CASE amount = Unavailable
      BY <2>1 DEF SeriesRing
    <2>2. CASE amount # Unavailable
      <3>1. sample \in Samples
        BY <1>1, <1>3, <2>2 DEF Samples
      <3> HIDE DEF sample
      <3>2. all \in Seq(Samples) /\ all # <<>>
        BY <3>1, AppendProperties
      <3> HIDE DEF all
      <3>3. Tail(all) \in Seq(Samples)
        BY <3>2, HeadTailProperties
      <3> QED
        BY <2>2, <3>2, <3>3 DEF SeriesRing, all, sample
    <2> QED
      BY <2>1, <2>2
  <1>4. old \in Graphs
    BY SeriesFacts, NewGraphFacts
  <1> HIDE DEF old
  <1>5. graph \in Graphs
    <2>1. old.usage \in Seq(Samples) /\ old.available \in Seq(Samples)
      BY <1>4 DEF Graphs
    <2>2. /\ figures.usage \in Nat \cup {Unavailable}
          /\ figures.available \in Nat \cup {Unavailable}
          /\ 100 \in Int /\ (100 # Unavailable => figures.usage <= 100)
          /\ figures.total \in Int /\ (figures.total # Unavailable => figures.available <= figures.total)
      BY DEF Sane
    <2> QED
      BY <1>3, <2>1, <2>2 DEF Graphs
  <1> HIDE DEF graph
  <1>6. more \in AllSeries
    <2>1. /\ more \in [DOMAIN stored \cup {i} -> Graphs]
          /\ DOMAIN stored \cup {i} \in SUBSET AllIdentities
      BY <1>1, <1>5, SeriesFacts
    <2> HIDE DEF more
    <2> QED
      BY <2>1 DEF AllSeries
  <1> HIDE DEF more, passed
  <1> QED
    BY <1>2, <1>6

\* What the loop has after each mount.
SampledOf(answered) ==
    \E run \in [0 .. Len(listing) -> AllSeries] :
       /\ run[0] = histories /\ run[Len(listing)] = AllSampled(answered)
       /\ \A k \in 1 .. Len(listing) : run[k] = WithSample(run[k - 1], k, answered[k])

LEMMA SamplingRuns ==
    ASSUME listing \in Seq(Mounts), histories \in AllSeries, listings \in Nat,
           NEW answered \in [DOMAIN listing -> Outcomes]
    PROVE  SampledOf(answered)
  <1> DEFINE n == Len(listing)
             V == AllSeries
             body == [k \in 1 .. n |-> [st \in V |-> WithSample(st, k, answered[k])]]
             step(f, k) == IF k = 0 THEN histories ELSE WithSample(f[k - 1], k, answered[k])
             looped == CHOOSE f : f = [k \in 0 .. n |-> step(f, k)]
  <1>1. n \in Nat /\ DOMAIN listing = 1 .. n
    BY LenProperties
  <1>2. AllSampled(answered) = looped[n]
    BY DEF AllSampled
  <1>3. body \in [1 .. n -> [V -> V]]
    <2>1. ASSUME NEW k \in 1 .. n, NEW st \in V PROVE WithSample(st, k, answered[k]) \in V
      <3>1. listing[k] \in Mounts /\ Sane(answered[k])
        BY <1>1, ElementOfSeq, OutcomesAreSane
      <3> QED
        BY <3>1, WithSampleType
    <2> HIDE DEF n, V
    <2> QED
      BY <2>1
  <1>4. PICK run \in [0 .. n -> V] :
           run[0] = histories /\ \A k \in 1 .. n : run[k] = body[k][run[k - 1]]
    <2> HIDE DEF n, body
    <2>1. LoopOf(n, V, histories, body)
      BY <1>1, <1>3, LoopRuns
    <2> QED
      BY Zenon, <2>1 DEF LoopOf
  <1>5. \A k \in 1 .. n : run[k] = WithSample(run[k - 1], k, answered[k])
    <2> HIDE DEF n, V
    <2>1. \A k \in 1 .. n : k - 1 \in 0 .. n
      BY <1>1
    <2> QED
      BY <1>4, <2>1
  <1>6. run = [k \in 0 .. n |-> step(run, k)]
    <2> HIDE DEF n, V
    <2>1. \A k \in 0 .. n : run[k] = step(run, k)
      <3>1. \A k \in 0 .. n : k # 0 => k \in 1 .. n
        BY <1>1
      <3> QED
        BY <1>4, <1>5, <3>1
    <2> QED
      BY <1>4, <2>1
  <1>7. looped = [k \in 0 .. n |-> step(looped, k)]
    <2> HIDE DEF n, step
    <2> QED
      BY Zenon, <1>6
  <1>8. \A k \in 0 .. n : looped[k] = step(looped, k)
    <2> HIDE DEF n, step, looped
    <2> QED
      BY <1>7
  <1>9. \A k \in 0 .. n : looped[k] = run[k]
    <2> DEFINE same == {k \in 0 .. n : looped[k] = run[k]}
    <2> HIDE DEF n, looped, V
    <2>1. 0 \in same
      BY <1>1, <1>4, <1>8
    <2>2. ASSUME NEW k \in 1 .. n, k - 1 \in same PROVE k \in same
      <3>1. k \in 0 .. n /\ k # 0 /\ looped[k - 1] = run[k - 1]
        BY <1>1, <2>2
      <3>2. looped[k] = WithSample(looped[k - 1], k, answered[k])
        BY <1>8, <3>1
      <3> QED
        BY <1>5, <3>1, <3>2
    <2> HIDE DEF same
    <2>3. 0 .. n \subseteq same
      BY <1>1, <2>1, <2>2, LoopKeeps
    <2> QED
      BY <2>3 DEF same
  <1>10. looped[n] = run[n]
    <2> HIDE DEF n, looped, V
    <2> QED
      BY <1>1, <1>9
  <1> HIDE DEF looped, body
  <1> QED
    BY <1>1, <1>2, <1>4, <1>5, <1>10 DEF SampledOf

\* After n mounts: the series of those to come have no sample of this refresh yet.
Sampling(stored, n) ==
    /\ stored \in AllSeries /\ WithinRoom(stored) /\ FiledFor(listing, stored)
    /\ \A i \in DOMAIN stored : GoodGraph(stored[i], listings + 1)
    /\ \A k \in DOMAIN listing : Identity(listing[k]) \in DOMAIN stored /\ k > n =>
          GoodGraph(stored[Identity(listing[k])], listings)

LEMMA SampleKeepsSampling ==
    ASSUME MountList(listing), ringSize \in Nat \ {0}, listings \in Nat,
           NEW k \in 1 .. Len(listing), NEW stored, Sampling(stored, k - 1),
           NEW figures, Sane(figures)
    PROVE  Sampling(WithSample(stored, k, figures), k)
  <1> DEFINE i == Identity(listing[k])
             new == WithSample(stored, k, figures)
  <1>1. /\ Len(listing) \in Nat /\ DOMAIN listing = 1 .. Len(listing)
        /\ \A j \in DOMAIN listing : listing[j] \in Mounts /\ Identity(listing[j]) \in AllIdentities
    <2>1. listing \in Seq(Mounts)
      BY DEF MountList
    <2>2. \A j \in 1 .. Len(listing) : listing[j] \in Mounts
      BY <2>1, ElementOfSeq
    <2> QED
      BY <2>1, <2>2, LenProperties DEF Identity, AllIdentities, Mounts
  <1>2. \A j \in DOMAIN listing : Identity(listing[j]) = i => j = k
    BY <1>1 DEF MountList, Identity
  <1>3. stored \in AllSeries /\ WithinRoom(stored) /\ (i \in DOMAIN stored => GoodGraph(stored[i], listings))
    <2>1. k > k - 1
      BY <1>1
    <2> QED
      BY Zenon, <1>1, <2>1 DEF Sampling
  <1>4. WithSampleOf(stored, k, new)
    BY <1>1, <1>3, WithSampleFacts
  <1> HIDE DEF new
  <1>5. /\ new \in AllSeries /\ WithinRoom(new)
        /\ \A j \in AllIdentities \ {i} :
              (j \in DOMAIN new <=> j \in DOMAIN stored) /\ (j \in DOMAIN new => new[j] = stored[j])
        /\ i \in DOMAIN new =>
              /\ GoodGraph(new[i], listings + 1)
              /\ (i \in DOMAIN stored => GraphOf(stored[i], listing[k].serial)) =>
                    GraphOf(new[i], listing[k].serial)
    BY Zenon, <1>4 DEF WithSampleOf
  <1>6. DOMAIN new \in SUBSET AllIdentities
    BY <1>5, SeriesFacts
  <1> HIDE DEF i
  <1>7. ASSUME NEW j \in DOMAIN new PROVE GoodGraph(new[j], listings + 1)
    <2>1. CASE j = i
      BY Zenon, <1>5, <2>1
    <2>2. CASE j # i
      <3>1. j \in AllIdentities \ {i}
        BY <1>6, <2>2
      <3>2. j \in DOMAIN stored /\ new[j] = stored[j]
        BY Zenon, <1>5, <3>1
      <3>3. GoodGraph(stored[j], listings + 1)
        BY Zenon, <3>2 DEF Sampling
      <3> QED
        BY Zenon, <3>2, <3>3
    <2> QED
      BY <2>1, <2>2
  <1>8. ASSUME NEW j \in DOMAIN listing, Identity(listing[j]) \in DOMAIN new, j > k
        PROVE  GoodGraph(new[Identity(listing[j])], listings)
    <2>1. j > k - 1 /\ j # k
      BY <1>1, <1>8
    <2>2. Identity(listing[j]) \in AllIdentities \ {i}
      BY <1>1, <1>2, <2>1
    <2>3. /\ Identity(listing[j]) \in DOMAIN stored
          /\ new[Identity(listing[j])] = stored[Identity(listing[j])]
      BY Zenon, <1>5, <1>8, <2>2
    <2>4. GoodGraph(stored[Identity(listing[j])], listings)
      BY Zenon, <2>1, <2>3 DEF Sampling
    <2> QED
      BY Zenon, <2>3, <2>4
  <1>9. ASSUME NEW j \in DOMAIN listing,
               Identity(listing[j]) \in DOMAIN new, Identity(listing[j]) \notin reborn
        PROVE  GraphOf(new[Identity(listing[j])], listing[j].serial)
    <2>1. \A m \in DOMAIN listing : Identity(listing[m]) \in DOMAIN stored /\ Identity(listing[m]) \notin reborn =>
             GraphOf(stored[Identity(listing[m])], listing[m].serial)
      BY Zenon DEF Sampling, FiledFor
    <2>2. CASE j = k
      <3>1. Identity(listing[j]) = i
        BY Zenon, <2>2 DEF i
      <3>2. i \in DOMAIN stored => GraphOf(stored[i], listing[k].serial)
        BY Zenon, <1>9, <2>1, <2>2, <3>1
      <3> QED
        BY Zenon, <1>5, <1>9, <2>2, <3>1, <3>2
    <2>3. CASE j # k
      <3>1. Identity(listing[j]) \in AllIdentities \ {i}
        BY <1>1, <1>2, <2>3
      <3>2. /\ Identity(listing[j]) \in DOMAIN stored
            /\ new[Identity(listing[j])] = stored[Identity(listing[j])]
        BY Zenon, <1>5, <1>9, <3>1
      <3> QED
        BY Zenon, <1>9, <2>1, <3>2
    <2> QED
      BY <2>2, <2>3
  <1>10. Sampling(new, k)
    BY Zenon, <1>5, <1>7, <1>8, <1>9 DEF Sampling, FiledFor
  <1> QED
    BY Zenon, <1>10 DEF new

LEMMA MountListFacts ==
    ASSUME NEW table, MountList(table)
    PROVE  /\ table \in Seq(Mounts) /\ Len(table) \in Nat /\ DOMAIN table = 1 .. Len(table)
           /\ \A k \in DOMAIN table : table[k] \in Mounts /\ Identity(table[k]) \in AllIdentities
           /\ \A j, k \in DOMAIN table : table[j].id = table[k].id => j = k
           /\ \A j, k \in DOMAIN table : Identity(table[j]) = Identity(table[k]) => j = k
  <1>1. table \in Seq(Mounts) /\ \A j, k \in DOMAIN table : table[j].id = table[k].id => j = k
    BY DEF MountList
  <1>2. \A k \in 1 .. Len(table) : table[k] \in Mounts
    BY <1>1, ElementOfSeq
  <1>3. Len(table) \in Nat /\ DOMAIN table = 1 .. Len(table)
    BY <1>1, LenProperties
  <1> QED
    BY <1>1, <1>2, <1>3 DEF Identity, AllIdentities, Mounts

LEMMA SampledAreGood ==
    ASSUME MountsInv, reading, NEW answered \in [DOMAIN listing -> Outcomes]
    PROVE  Sampling(AllSampled(answered), Len(listing))
  <1> DEFINE n == Len(listing)
  <1>1. /\ MountList(listing) /\ ringSize \in Nat \ {0} /\ listings \in Nat
        /\ histories \in AllSeries /\ WithinRoom(histories) /\ FiledFor(listing, histories)
        /\ \A i \in DOMAIN histories : GoodGraph(histories[i], listings)
    BY Zenon DEF MountsInv
  <1>2. listing \in Seq(Mounts) /\ n \in Nat /\ DOMAIN listing = 1 .. n
    BY <1>1, MountListFacts
  <1>3. SampledOf(answered)
    BY <1>1, <1>2, SamplingRuns
  <1>4. PICK run \in [0 .. n -> AllSeries] :
           /\ run[0] = histories /\ run[n] = AllSampled(answered)
           /\ \A k \in 1 .. n : run[k] = WithSample(run[k - 1], k, answered[k])
    BY Zenon, <1>3 DEF SampledOf
  <1> DEFINE good == {k \in 0 .. n : Sampling(run[k], k)}
  <1> HIDE DEF n
  <1>5. 0 \in good
    <2>1. Sampling(histories, 0)
      <3>1. \A i \in DOMAIN histories : GoodGraph(histories[i], listings + 1)
        BY <1>1, SeriesFacts, LaterFacts
      <3> QED
        BY Zenon, <1>1, <3>1 DEF Sampling
    <2> QED
      BY <1>2, <1>4, <2>1
  <1>6. ASSUME NEW k \in 1 .. n, k - 1 \in good PROVE k \in good
    <2>1. k \in 0 .. n
      BY <1>2
    <2>2. Sane(answered[k])
      BY <1>2, OutcomesAreSane
    <2>3. Sampling(WithSample(run[k - 1], k, answered[k]), k)
      <3>1. Sampling(run[k - 1], k - 1)
        BY Zenon, <1>6
      <3>2. k \in 1 .. Len(listing)
        BY DEF n
      <3> QED
        BY <1>1, <2>2, <3>1, <3>2, SampleKeepsSampling
    <2>4. run[k] = WithSample(run[k - 1], k, answered[k])
      BY Zenon, <1>4
    <2> QED
      BY Zenon, <2>1, <2>3, <2>4
  <1> HIDE DEF good
  <1>7. 0 .. n \subseteq good
    BY <1>2, <1>5, <1>6, LoopKeeps
  <1>8. n \in good
    BY <1>2, <1>7
  <1> QED
    BY Zenon, <1>4, <1>8 DEF good, n

-----------------------------------------------------------------------------
(* The steps.                                                              *)

LEMMA MountedKeeps ==
    ASSUME MountsInv, NEW point \in MountPoints, NEW pseudo \in BOOLEAN, Mounted(point, pseudo)
    PROVE  MountsInv'
  <1> DEFINE mount == [id |-> FreeId, point |-> point, pseudo |-> pseudo, serial |-> made']
             n == Len(mounts)
  <1>1. /\ MountList(mounts) /\ MountList(listing) /\ made \in Nat
        /\ made' = made + 1 /\ mounts' = Append(mounts, mount)
        /\ reborn' = reborn \cup ({Identity(mount)} \cap
                        (DOMAIN histories \cup IF reading THEN ListedIdentities ELSE {}))
        /\ UNCHANGED <<listing, reading, histories, ringSize, listings>>
    BY DEF MountsInv, Mounted
  <1>2. FreeId \in Nat \ {0} /\ \A k \in DOMAIN mounts : mounts[k].id # FreeId
    BY <1>1, FreeIdFacts
  <1>3. /\ mount \in Mounts /\ mount.id = FreeId
        /\ Identity(mount) \in DOMAIN histories => Identity(mount) \in reborn'
        /\ reading /\ Identity(mount) \in ListedIdentities => Identity(mount) \in reborn'
        /\ reborn \subseteq reborn'
    BY <1>1, <1>2 DEF Mounts
  <1> HIDE DEF mount
  <1>4. /\ mounts \in Seq(Mounts) /\ n \in Nat /\ DOMAIN mounts = 1 .. n
        /\ \A j, k \in DOMAIN mounts : mounts[j].id = mounts[k].id => j = k
    BY <1>1, MountListFacts
  <1>5. /\ mounts' \in Seq(Mounts) /\ DOMAIN mounts' = 1 .. n + 1
        /\ mounts'[n + 1] = mount /\ \A k \in 1 .. n : mounts'[k] = mounts[k]
    BY <1>1, <1>3, <1>4, AppendProperties, LenProperties
  <1> HIDE DEF n
  <1>6. \A k \in DOMAIN mounts' : k = n + 1 \/ k \in DOMAIN mounts
    BY <1>4, <1>5
  <1>7. MountList(mounts)'
    <2>1. \A j, k \in DOMAIN mounts' : mounts'[j].id = mounts'[k].id => j = k
      <3>1. \A k \in DOMAIN mounts : mounts'[k] = mounts[k]
        BY <1>4, <1>5
      <3> QED
        BY <1>2, <1>3, <1>4, <1>5, <1>6, <3>1
    <2> QED
      BY <1>5, <2>1 DEF MountList
  <1>8. FiledFor(mounts, histories)'
    <2>1. ASSUME NEW k \in DOMAIN mounts', Identity(mounts'[k]) \in DOMAIN histories,
                 Identity(mounts'[k]) \notin reborn'
          PROVE  GraphOf(histories[Identity(mounts'[k])], mounts'[k].serial)
      <3>1. mounts'[k] # mount
        BY Zenon, <1>3, <2>1
      <3>2. k \in DOMAIN mounts /\ mounts'[k] = mounts[k]
        BY <1>4, <1>5, <1>6, <3>1
      <3>3. Identity(mounts[k]) \notin reborn
        BY <1>3, <2>1, <3>2
      <3> QED
        BY Zenon, <2>1, <3>2, <3>3 DEF MountsInv, FiledFor
    <2> QED
      BY Zenon, <1>1, <2>1 DEF FiledFor, Identity, GraphOf, RingOf
  <1>9. OneSerial(histories)'
    <2>1. \A i \in DOMAIN histories \ reborn' : i \in DOMAIN histories \ reborn
      BY <1>3
    <2>2. \A i \in DOMAIN histories \ reborn : \E serial \in Nat : GraphOf(histories[i], serial)
      BY Zenon DEF MountsInv, OneSerial
    <2>3. histories' = histories
      BY <1>1
    <2>4. \A i \in DOMAIN histories' \ reborn' : \E serial \in Nat : GraphOf(histories'[i], serial)
      BY Zenon, <2>1, <2>2, <2>3
    <2> QED
      BY <2>4 DEF OneSerial, GraphOf, RingOf
  <1>10. ASSUME reading
         PROVE  /\ FiledFor(listing, histories)'
                /\ \A j \in DOMAIN listing, k \in DOMAIN mounts' :
                      /\ Identity(listing[j]) = Identity(mounts'[k])
                      /\ Identity(listing[j]) \notin reborn'
                      => listing[j].serial = mounts'[k].serial
    <2>1. \A i : i \notin reborn' => i \notin reborn
      BY <1>3
    <2>2. FiledFor(listing, histories)'
      BY Zenon, <1>1, <1>10, <2>1 DEF MountsInv, FiledFor, Identity, GraphOf, RingOf
    <2>3. ASSUME NEW j \in DOMAIN listing, NEW k \in DOMAIN mounts',
                 Identity(listing[j]) = Identity(mounts'[k]), Identity(listing[j]) \notin reborn'
          PROVE  listing[j].serial = mounts'[k].serial
      <3>1. Identity(listing[j]) \in ListedIdentities
        BY DEF ListedIdentities
      <3>2. mounts'[k] # mount
        BY Zenon, <1>3, <1>10, <2>3, <3>1
      <3>3. k \in DOMAIN mounts /\ mounts'[k] = mounts[k]
        BY <1>4, <1>5, <1>6, <3>2
      <3> QED
        BY Zenon, <1>10, <2>1, <2>3, <3>3 DEF MountsInv
    <2> QED
      BY <2>2, <2>3
  <1>11. made' \in Nat
    BY <1>1
  <1>12. MountList(listing)' /\ WithinRoom(histories)' /\ ListedIdentities' = ListedIdentities
    BY Zenon, <1>1 DEF MountsInv, MountList, Mounts, WithinRoom, ListedIdentities, Identity
  <1>13. (histories \in AllSeries)' /\ \A i \in DOMAIN histories : GoodGraph(histories[i], listings)'
    BY Zenon, <1>1 DEF MountsInv, AllSeries, GoodGraph, GoodRing
  <1> QED
    BY Zenon, <1>1, <1>7, <1>8, <1>9, <1>10, <1>11, <1>12, <1>13 DEF MountsInv, Identity

LEMMA UnmountedKeeps ==
    ASSUME MountsInv, NEW point \in MountPoints, Unmounted(point)
    PROVE  MountsInv'
  <1> DEFINE n == Len(mounts)
             top == Top(point)
             From(k) == IF k < top THEN k ELSE k + 1
  <1>1. /\ MountList(mounts) /\ mounts' = RemoveAt(mounts, top) /\ On(point) # {}
        /\ UNCHANGED <<made, listing, reading, histories, ringSize, listings, reborn>>
    BY DEF MountsInv, Unmounted
  <1>2. /\ mounts \in Seq(Mounts) /\ n \in Nat /\ DOMAIN mounts = 1 .. n
        /\ \A j, k \in DOMAIN mounts : mounts[j].id = mounts[k].id => j = k
    BY <1>1, MountListFacts
  <1>3. top \in 1 .. n
    <2> DEFINE below == {n - k : k \in On(point)}
    <2>1. On(point) \subseteq 1 .. n
      BY <1>2 DEF On
    <2>2. below \in SUBSET Nat /\ below # {}
      BY <1>1, <1>2, <2>1
    <2> HIDE DEF n
    <2>3. PICK least \in below : \A b \in below : least <= b
      <3> HIDE DEF below
      <3> QED
        BY <2>2, LeastOfSet
    <2>4. PICK last \in On(point) : least = n - last
      OBVIOUS
    <2>5. \A other \in On(point) : other <= last
      <3>1. \A other \in On(point) : n - last <= n - other
        BY <2>3, <2>4
      <3> QED
        BY <1>2, <2>1, <2>4, <3>1
    <2>6. top \in On(point)
      BY Zenon, <2>4, <2>5 DEF Top
    <2> QED
      BY <2>1, <2>6
  <1> HIDE DEF top
  <1>4. /\ mounts' \in Seq(Mounts) /\ DOMAIN mounts' = 1 .. n - 1
        /\ \A k \in 1 .. n - 1 : mounts'[k] = mounts[From(k)]
    BY <1>1, <1>2, <1>3, RemoveAtFacts
  <1>5. /\ \A k \in DOMAIN mounts' : From(k) \in DOMAIN mounts /\ mounts'[k] = mounts[From(k)]
        /\ \A j, k \in DOMAIN mounts' : From(j) = From(k) => j = k
    BY <1>2, <1>3, <1>4
  <1> HIDE DEF From, n
  <1>6. MountList(mounts)'
    <2>1. \A j, k \in DOMAIN mounts' : mounts'[j].id = mounts'[k].id => j = k
      BY <1>2, <1>5
    <2> QED
      BY <1>4, <2>1 DEF MountList
  <1>7. FiledFor(mounts, histories)'
    <2>1. ASSUME NEW k \in DOMAIN mounts', Identity(mounts'[k]) \in DOMAIN histories,
                 Identity(mounts'[k]) \notin reborn
          PROVE  GraphOf(histories[Identity(mounts'[k])], mounts'[k].serial)
      BY Zenon, <1>5, <2>1 DEF MountsInv, FiledFor
    <2> QED
      BY Zenon, <1>1, <2>1 DEF FiledFor, Identity, GraphOf, RingOf
  <1>8. ASSUME reading, NEW j \in DOMAIN listing, NEW k \in DOMAIN mounts',
               Identity(listing[j]) = Identity(mounts'[k]), Identity(listing[j]) \notin reborn
        PROVE  listing[j].serial = mounts'[k].serial
    BY Zenon, <1>5, <1>8 DEF MountsInv
  <1>9. /\ FiledFor(listing, histories) => FiledFor(listing, histories)'
        /\ OneSerial(histories) => OneSerial(histories)'
        /\ MountList(listing)' /\ WithinRoom(histories)' /\ ListedIdentities' = ListedIdentities
        /\ (histories \in AllSeries)'
        /\ \A i \in DOMAIN histories : GoodGraph(histories[i], listings)'
    BY <1>1 DEF MountsInv, FiledFor, OneSerial, MountList, WithinRoom, ListedIdentities,
                GoodGraph, GoodRing
  <1> QED
    BY Zenon, <1>1, <1>6, <1>7, <1>8, <1>9 DEF MountsInv, Identity

LEMMA ReadMountInfoKeeps == ASSUME MountsInv, ReadMountInfo PROVE MountsInv'
  <1>1. /\ MountList(mounts) /\ reading' /\ listing' \in {mounts, <<>>}
        /\ FiledFor(mounts, histories)
        /\ UNCHANGED <<mounts, made, histories, ringSize, listings, reborn>>
    BY DEF MountsInv, ReadMountInfo
  <1>2. MountList(<<>>) /\ DOMAIN <<>> = {}
    BY EmptySeq DEF MountList
  <1>3. MountList(listing)'
    BY Zenon, <1>1, <1>2 DEF MountList
  <1>4. FiledFor(listing, histories)'
    BY Zenon, <1>1, <1>2 DEF FiledFor, Identity, GraphOf, RingOf
  <1>5. \A j \in DOMAIN listing', k \in DOMAIN mounts :
           Identity(listing'[j]) = Identity(mounts[k]) => listing'[j].serial = mounts[k].serial
    <2>1. CASE listing' = mounts
      BY Zenon, <1>1, <2>1, MountListFacts
    <2>2. CASE listing' = <<>>
      BY Zenon, <1>2, <2>2
    <2> QED
      BY Zenon, <1>1, <2>1, <2>2
  <1>6. /\ MountList(mounts)' /\ (made \in Nat)' /\ (ringSize \in Nat \ {0})' /\ (listings \in Nat)'
        /\ (histories \in AllSeries)' /\ WithinRoom(histories)'
        /\ (\A i \in DOMAIN histories : GoodGraph(histories[i], listings))'
        /\ OneSerial(histories)' /\ FiledFor(mounts, histories)'
    BY <1>1 DEF MountsInv, MountList, WithinRoom, GoodGraph, GoodRing, OneSerial, FiledFor
  <1> QED
    BY Zenon, <1>1, <1>3, <1>4, <1>5, <1>6 DEF MountsInv, Identity, GoodGraph, GoodRing

LEMMA SetRingSizeKeeps ==
    ASSUME MountsInv, NEW size \in RingSizes, SetRingSize(size) PROVE MountsInv'
  <1> DEFINE empty == [usage |-> <<>>, available |-> <<>>]
  <1>1. /\ ~ reading /\ ringSize' = size
        /\ histories' = [i \in DOMAIN histories |-> empty]
        /\ UNCHANGED <<mounts, made, listing, reading, listings, reborn>>
    BY DEF SetRingSize
  <1>2. size \in Nat \ {0}
    BY FilesystemConstants
  <1>3. /\ DOMAIN histories' = DOMAIN histories
        /\ \A i \in DOMAIN histories' : histories'[i] = empty
    BY <1>1
  <1>4. empty \in Graphs /\ \A serial : GraphOf(empty, serial)
    BY NewGraphFacts
  <1>5. GoodGraph(empty, listings)'
    <2>1. Len(<<>>) = 0 /\ DOMAIN <<>> = {}
      BY EmptySeq
    <2> QED
      BY <1>1, <1>2, <2>1 DEF GoodGraph, GoodRing
  <1>6. (\A i \in DOMAIN histories : GoodGraph(histories[i], listings))'
    <2> HIDE DEF empty
    <2> QED
      BY Zenon, <1>1, <1>3, <1>5 DEF GoodGraph, GoodRing
  <1>7. (histories \in AllSeries)'
    <2>1. DOMAIN histories \in SUBSET AllIdentities
      BY SeriesFacts DEF MountsInv
    <2> HIDE DEF empty
    <2> QED
      BY <1>1, <1>4, <2>1 DEF AllSeries
  <1> HIDE DEF empty
  <1>8. OneSerial(histories)'
    <2>1. 0 \in Nat
      OBVIOUS
    <2>2. \A i \in DOMAIN histories' : GraphOf(histories'[i], 0)
      BY Zenon, <1>3, <1>4
    <2>3. \A i \in DOMAIN histories' \ reborn' : \E serial \in Nat : GraphOf(histories'[i], serial)
      BY <2>1, <2>2
    <2> QED
      BY <2>3 DEF OneSerial, GraphOf, RingOf
  <1>9. FiledFor(mounts, histories)'
    <2>1. \A k : Identity(mounts'[k]) \in DOMAIN histories' =>
                    GraphOf(histories'[Identity(mounts'[k])], mounts'[k].serial)
      BY Zenon, <1>3, <1>4
    <2> QED
      BY Zenon, <2>1 DEF FiledFor, Identity, GraphOf, RingOf
  <1>10. /\ MountList(mounts)' /\ MountList(listing)' /\ (made \in Nat)' /\ (listings \in Nat)'
         /\ WithinRoom(histories)' /\ (ringSize \in Nat \ {0})'
         /\ (DOMAIN histories \subseteq ListedIdentities)'
    BY <1>1, <1>2, <1>3 DEF MountsInv, MountList, WithinRoom, ListedIdentities, Identity
  <1> QED
    BY Zenon, <1>1, <1>6, <1>7, <1>8, <1>9, <1>10 DEF MountsInv

LEMMA RecordHistoryKeeps == ASSUME MountsInv, RecordHistory PROVE MountsInv'
  <1>1. PICK answered \in [DOMAIN listing -> Outcomes] :
           histories' = KeptOfMounts(AllSampled(answered))
    BY Zenon DEF RecordHistory
  <1>2. /\ reading /\ ~ reading' /\ listings' = listings + 1
        /\ reborn' = reborn \cap DOMAIN histories'
        /\ UNCHANGED <<mounts, made, listing, ringSize>>
    BY DEF RecordHistory
  <1> DEFINE all == AllSampled(answered)
  <1>3. Sampling(all, Len(listing))
    BY <1>2, SampledAreGood
  <1> HIDE DEF all
  <1>4. /\ DOMAIN histories' = ListedIdentities \cap DOMAIN all
        /\ \A i \in DOMAIN histories' : histories'[i] = all[i]
    BY <1>1 DEF KeptOfMounts, all
  <1>5. /\ all \in AllSeries /\ WithinRoom(all) /\ FiledFor(listing, all)
        /\ \A i \in DOMAIN all : GoodGraph(all[i], listings + 1)
    BY Zenon, <1>3 DEF Sampling
  <1>6. \A i \in DOMAIN histories' :
           /\ i \in DOMAIN all /\ i \in ListedIdentities /\ histories'[i] = all[i]
           /\ i \notin reborn' => i \notin reborn
    BY <1>2, <1>4
  <1>7. (histories \in AllSeries)'
    <2>1. DOMAIN all \in SUBSET AllIdentities /\ \A i \in DOMAIN all : all[i] \in Graphs
      BY <1>5, SeriesFacts
    <2>2. /\ DOMAIN histories' \in SUBSET AllIdentities
          /\ \A i \in DOMAIN histories' : histories'[i] \in Graphs
      BY <1>4, <2>1
    <2>3. histories' = [i \in DOMAIN histories' |-> histories'[i]]
      BY <1>1 DEF KeptOfMounts
    <2>4. histories' \in [DOMAIN histories' -> Graphs]
      BY <2>2, <2>3
    <2> QED
      BY <2>2, <2>4 DEF AllSeries
  <1>8. WithinRoom(histories)'
    <2>1. /\ IsFiniteSet(DOMAIN all) /\ Cardinality(DOMAIN all) <= MaxSeriesKept
          /\ DOMAIN histories' \in SUBSET DOMAIN all
      BY <1>4, <1>5 DEF WithinRoom
    <2>2. /\ IsFiniteSet(DOMAIN histories')
          /\ Cardinality(DOMAIN histories') <= Cardinality(DOMAIN all)
      BY <2>1, FS_Subset
    <2>3. Cardinality(DOMAIN all) \in Nat /\ Cardinality(DOMAIN histories') \in Nat
      BY <2>1, <2>2, FS_CardinalityType
    <2> QED
      BY <2>1, <2>2, <2>3, FilesystemConstants DEF WithinRoom
  <1>9. \A i \in DOMAIN histories' : GoodGraph(histories'[i], listings')
    BY Zenon, <1>2, <1>5, <1>6
  <1>10. \A k \in DOMAIN listing : Identity(listing[k]) \in DOMAIN all
                                    /\ Identity(listing[k]) \notin reborn =>
                                      GraphOf(all[Identity(listing[k])], listing[k].serial)
    BY Zenon, <1>5 DEF FiledFor
  <1>11. OneSerial(histories)'
    <2>1. ASSUME NEW i \in DOMAIN histories' \ reborn'
          PROVE  \E serial \in Nat : GraphOf(histories'[i], serial)
      <3>1. i \in DOMAIN histories' /\ i \notin reborn
        BY <1>6
      <3>2. PICK k \in DOMAIN listing : i = Identity(listing[k])
        BY <1>6, <3>1 DEF ListedIdentities
      <3>3. GraphOf(histories'[i], listing[k].serial)
        BY Zenon, <1>6, <1>10, <3>1, <3>2
      <3>4. listing[k].serial \in Nat
        BY <3>2, MountListFacts DEF MountsInv, Mounts
      <3> QED
        BY <3>3, <3>4
    <2> QED
      BY <2>1 DEF OneSerial, GraphOf, RingOf
  <1>12. FiledFor(mounts, histories)'
    <2>1. ASSUME NEW k \in DOMAIN mounts, Identity(mounts[k]) \in DOMAIN histories',
                 Identity(mounts[k]) \notin reborn'
          PROVE  GraphOf(histories'[Identity(mounts[k])], mounts[k].serial)
      <3>1. PICK j \in DOMAIN listing : Identity(mounts[k]) = Identity(listing[j])
        BY <1>6, <2>1 DEF ListedIdentities
      <3>2. Identity(mounts[k]) \notin reborn
        BY Zenon, <1>6, <2>1
      <3>3. listing[j].serial = mounts[k].serial
        BY Zenon, <1>2, <3>1, <3>2 DEF MountsInv
      <3> QED
        BY Zenon, <1>6, <1>10, <2>1, <3>1, <3>2, <3>3
    <2>2. mounts' = mounts
      BY <1>2
    <2> QED
      BY Zenon, <2>1, <2>2 DEF FiledFor, Identity, GraphOf, RingOf
  <1>13. /\ MountList(mounts)' /\ MountList(listing)' /\ (made \in Nat)' /\ (listings \in Nat)'
         /\ (ringSize \in Nat \ {0})' /\ (DOMAIN histories \subseteq ListedIdentities)'
    BY <1>2, <1>4 DEF MountsInv, MountList, ListedIdentities, Identity
  <1>14. (\A i \in DOMAIN histories : GoodGraph(histories[i], listings))'
    BY <1>2, <1>9 DEF GoodGraph, GoodRing
  <1> QED
    BY Zenon, <1>2, <1>7, <1>8, <1>11, <1>12, <1>13, <1>14 DEF MountsInv

LEMMA MountsInvHolds == FilesystemsSpec => []MountsInv
  <1>1. FilesystemsInit => MountsInv
    <2> SUFFICES ASSUME FilesystemsInit PROVE MountsInv
      OBVIOUS
    <2>1. /\ mounts = <<>> /\ listing = <<>> /\ DOMAIN histories = {} /\ made = 0
          /\ listings = 0 /\ ~ reading /\ ringSize \in RingSizes
          /\ histories = [i \in {} |-> 0]
      BY DEF FilesystemsInit, NoSeries
    <2>2. MountList(<<>>) /\ DOMAIN <<>> = {}
      BY EmptySeq DEF MountList
    <2>3. histories \in AllSeries
      <3>1. histories \in [{} -> Graphs]
        BY <2>1
      <3> QED
        BY <3>1 DEF AllSeries
    <2>4. WithinRoom(histories)
      BY <2>1, FS_EmptySet, FilesystemConstants DEF WithinRoom
    <2>5. OneSerial(histories) /\ FiledFor(mounts, histories)
      BY <2>1 DEF OneSerial, FiledFor
    <2>6. made \in Nat /\ listings \in Nat /\ ringSize \in Nat \ {0}
      BY <2>1, FilesystemConstants
    <2>7. DOMAIN histories \subseteq ListedIdentities
      BY <2>1
    <2>8. \A i \in DOMAIN histories : GoodGraph(histories[i], listings)
      BY <2>1
    <2> QED
      BY Zenon, <2>1, <2>2, <2>3, <2>4, <2>5, <2>6, <2>7, <2>8 DEF MountsInv
  <1>2. MountsInv /\ [FilesystemsNext]_mountVars => MountsInv'
    <2> SUFFICES ASSUME MountsInv, [FilesystemsNext]_mountVars PROVE MountsInv'
      OBVIOUS
    <2>1. CASE \E point \in MountPoints : (\E pseudo \in BOOLEAN : Mounted(point, pseudo))
                                          \/ Unmounted(point)
      BY Zenon, <2>1, MountedKeeps, UnmountedKeeps
    <2>2. CASE ReadMountInfo
      BY <2>2, ReadMountInfoKeeps
    <2>3. CASE RecordHistory
      BY <2>3, RecordHistoryKeeps
    <2>4. CASE \E size \in RingSizes : SetRingSize(size)
      BY Zenon, <2>4, SetRingSizeKeeps
    <2>5. CASE UNCHANGED mountVars
      BY <2>5 DEF mountVars, MountsInv, MountList, WithinRoom, GoodGraph, GoodRing, OneSerial,
                  FiledFor, ListedIdentities, Identity, GraphOf, RingOf
    <2> QED
      BY Zenon, <2>1, <2>2, <2>3, <2>4, <2>5 DEF FilesystemsNext
  <1> QED
    BY <1>1, <1>2, PTL DEF FilesystemsSpec

\* A graph is of the mount it stands beside, in the order of its refreshes, within its room
\* and, whatever statvfs counts, within the whole: recordHistory files each sample under the
\* identity that the list of mounts gave, and pruneHistory drops what is no longer listed.
THEOREM SeriesOfTheirMounts == FilesystemsSpec => []SeriesFollowMounts
  <1>1. MountsInv => SeriesFollowMounts
    <2> SUFFICES ASSUME MountsInv PROVE SeriesFollowMounts
      OBVIOUS
    <2>1. ASSUME NEW i \in DOMAIN histories, NEW ring \in {histories[i].usage, histories[i].available}
          PROVE  /\ Len(ring) <= ringSize
                 /\ \A n \in DOMAIN ring :
                       /\ ring[n].value >= 0
                       /\ ring[n].most # Unavailable => ring[n].value <= ring[n].most
                 /\ \A n \in 2 .. Len(ring) :
                       /\ ring[n - 1].at < ring[n].at
                       /\ i \notin reborn => ring[n - 1].of = ring[n].of
      <3>1. histories[i] \in Graphs /\ GoodGraph(histories[i], listings)
        BY SeriesFacts DEF MountsInv
      <3>2. ring \in Seq(Samples) /\ GoodRing(ring, listings)
        BY <3>1 DEF Graphs, GoodGraph
      <3>3. DOMAIN ring = 1 .. Len(ring) /\ Len(ring) \in Nat /\ \A n \in DOMAIN ring : ring[n] \in Samples
        BY <3>2, ElementOfSeq, LenProperties
      <3>4. ASSUME NEW n \in DOMAIN ring
            PROVE  /\ ring[n].value >= 0
                   /\ ring[n].most # Unavailable => ring[n].value <= ring[n].most
        BY <3>3 DEF Samples
      <3>5. ASSUME NEW n \in 2 .. Len(ring), i \notin reborn PROVE ring[n - 1].of = ring[n].of
        <4>1. PICK serial \in Nat : GraphOf(histories[i], serial)
          BY <3>5 DEF MountsInv, OneSerial
        <4>2. RingOf(ring, serial)
          BY <4>1 DEF GraphOf
        <4>3. n \in DOMAIN ring /\ n - 1 \in DOMAIN ring
          BY <3>3
        <4> QED
          BY <4>2, <4>3 DEF RingOf
      <3> QED
        BY <3>2, <3>4, <3>5 DEF GoodRing
    <2>2. WithinRoom(histories) /\ (DOMAIN histories \subseteq ListedIdentities \/ reading)
      BY DEF MountsInv
    <2> QED
      BY Zenon, <2>1, <2>2 DEF SeriesFollowMounts, WithinRoom
  <1> QED
    BY <1>1, MountsInvHolds, PTL

=============================================================================
