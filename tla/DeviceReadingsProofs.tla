------------------------- MODULE DeviceReadingsProofs -------------------------
(***************************************************************************)
(* Theorems about what is known of devices, for every set of names, devices *)
(* and clients: the health of the disks (DiskHealth) and the hardware       *)
(* behind the interfaces (NetworkHardware).                                *)
(***************************************************************************)
EXTENDS DiskHealth, NetworkHardware, FiniteSetTheorems, TLAPS

(* The health of the disks.                                                *)

\* The records the cache is made of keep their type.
LEMMA NoSnapshotType == NoSnapshot \in Snapshots
  BY DEF NoSnapshot, Snapshots, Categories

LEMMA FailSnapshotType ==
  ASSUME NEW snap \in Snapshots, NEW category \in Categories
  PROVE  FailSnapshot(snap, category) \in Snapshots
  BY DEF FailSnapshot, Snapshots

LEMMA EmptyEntryType == EmptyEntry \in Entries
  BY NoSnapshotType DEF EmptyEntry, Entries, Categories

LEMMA UpdatedEntryType ==
  ASSUME NEW entry \in Entries, NEW snap \in Snapshots
  PROVE  UpdatedEntry(entry, snap) \in Entries
<1>1. CASE snap.ok
  BY <1>1 DEF UpdatedEntry, Entries, Categories
<1>2. CASE ~snap.ok
  <2>1. snap.error \in Categories BY DEF Snapshots
  <2>2. (IF entry.last_success # None THEN entry.last_success ELSE snap) \in Snapshots
    BY DEF Entries
  <2> QED BY <1>2, <2>1, <2>2 DEF UpdatedEntry, Entries
<1> QED BY <1>1, <1>2

\* The type invariant, preserved one action at a time.
LEMMA TypeOKInit == ASSUME Init PROVE TypeOK
<1>1. DOMAIN results = {} /\ results \in [DOMAIN results -> Entries]
  BY DEF Init
<1>2. DOMAIN attempts = {} /\ attempts \in [DOMAIN attempts -> Categories]
  BY DEF Init
<1>3. cpc \in [Clients -> {"idle", "waiting", "joining", "gone"}]
  BY DEF Init
<1>4. moved \in 0..MaxMoves BY MovesAssumption DEF Init
<1> QED BY <1>1, <1>2, <1>3, <1>4, NoSnapshotType DEF Init, TypeOK

LEMMA TypeOKWorker == ASSUME TypeOK, WorkerSteps PROVE TypeOK'
<1> USE ConstantsAssumption, MovesAssumption
        DEF TypeOK, env, flags, cache, worker, history,
            NotifyAll, Idle, TakeRequest, KeptNames
<1>1. CASE WorkerSleeps BY <1>1 DEF WorkerSleeps
<1>2. CASE WorkerExits BY <1>2 DEF WorkerExits
<1>3. CASE CycleBegins BY <1>3 DEF CycleBegins
<1>4. CASE CycleStops BY <1>4 DEF CycleStops
<1>5. CASE CycleRunsOut BY <1>5 DEF CycleRunsOut
<1>6. CASE CycleEnds BY <1>6 DEF CycleEnds
<1>7. CASE ReadHealth
  <2>1. result' \in Snapshots
    <3>1. CASE slot[cur] # None /\ result' = [result EXCEPT !.ok = TRUE, !.disk = slot[cur]]
      <4>1. slot[cur] \in Disks BY <1>7, <3>1 DEF ReadHealth
      <4> QED BY <3>1, <4>1 DEF Snapshots
    <3>2. CASE \E category \in Failures : result' = FailSnapshot(result, category)
      BY <3>2, FailSnapshotType
    <3> QED BY <1>7, <3>1, <3>2 DEF ReadHealth
  <2> QED BY <1>7, <2>1 DEF ReadHealth
<1>8. CASE CheckIdentity
  <2>1. result' \in Snapshots
    BY <1>8, FailSnapshotType DEF CheckIdentity, Categories
  <2> QED BY <1>8, <2>1 DEF CheckIdentity
<1>9. CASE Record
  <2>1. cur \in Names BY <1>9 DEF Record
  <2>2. /\ DOMAIN results' = DOMAIN results \cup {cur}
        /\ results' \in [DOMAIN results' -> Entries]
    BY <1>9, UpdatedEntryType, EmptyEntryType DEF Record
  <2>3. /\ DOMAIN attempts' = DOMAIN attempts \cup {cur}
        /\ attempts' \in [DOMAIN attempts' -> Categories]
    BY <1>9 DEF Record, Snapshots
  <2> QED BY <1>9, <2>1, <2>2, <2>3, NoSnapshotType DEF Record
<1>10. ASSUME NEW n \in Names, SkipDevice(n) PROVE TypeOK'
  BY <1>10 DEF SkipDevice
<1>11. ASSUME NEW n \in Names, ReadIdentity(n) PROVE TypeOK'
  <2>1. CASE slot[n] = None
    BY <1>11, <2>1, NoSnapshotType, FailSnapshotType DEF ReadIdentity, Categories
  <2>2. CASE slot[n] # None
    <3>1. IdentityOf[slot[n]] \in Identities BY <2>2
    <3>2. [NoSnapshot EXCEPT !.ident = IdentityOf[slot[n]]] \in Snapshots
      BY <3>1, NoSnapshotType DEF Snapshots
    <3> QED BY <1>11, <2>2, <3>1, <3>2 DEF ReadIdentity
  <2> QED BY <2>1, <2>2
<1> QED
  BY <1>1, <1>2, <1>3, <1>4, <1>5, <1>6, <1>7, <1>8, <1>9, <1>10, <1>11
  DEF WorkerSteps

LEMMA TypeOKClient ==
  ASSUME TypeOK, NEW c \in Clients, ClientSteps(c)
  PROVE  TypeOK'
<1> USE ConstantsAssumption DEF TypeOK, env, flags, cache, worker, history,
            NotifyAll, Idle, TakeRequest, KeptNames
<1>1. ASSUME NEW new \in SUBSET Names, SetDevices(c, new) PROVE TypeOK'
  <2>1. DOMAIN results' = new /\ results' \in [DOMAIN results' -> Entries]
    BY <1>1, EmptyEntryType DEF SetDevices
  <2> QED BY <1>1, <2>1 DEF SetDevices
<1>2. ASSUME NEW f \in BOOLEAN, RequestRefresh(c, f) PROVE TypeOK'
  BY <1>2 DEF RequestRefresh
<1>3. CASE WaitForIdle(c) BY <1>3 DEF WaitForIdle
<1>4. CASE Destroy(c) BY <1>4 DEF Destroy
<1>5. CASE WaitSleeps(c) BY <1>5 DEF WaitSleeps
<1>6. CASE WaitReturns(c) BY <1>6 DEF WaitReturns
<1>7. CASE Joined(c) BY <1>7 DEF Joined
<1> QED
  BY <1>1, <1>2, <1>3, <1>4, <1>5, <1>6, <1>7 DEF ClientSteps, ClientReturns

LEMMA TypeOKSystem == ASSUME TypeOK, SystemSteps PROVE TypeOK'
<1> USE MovesAssumption DEF TypeOK, env, flags, cache, worker, history,
            NotifyAll, Idle, TakeRequest, KeptNames
<1>1. ASSUME NEW n \in Names, NEW d \in Disks \cup {None}, Replug(n, d) PROVE TypeOK'
  BY <1>1 DEF Replug
<1>2. ASSUME NEW n \in Names, BackoffElapses(n) PROVE TypeOK'
  BY <1>2 DEF BackoffElapses
<1> QED BY <1>1, <1>2 DEF SystemSteps

LEMMA TypeOKStutter == ASSUME TypeOK, UNCHANGED vars PROVE TypeOK'
  BY DEF TypeOK, vars, env, flags, cache, worker, history,
            NotifyAll, Idle, TakeRequest, KeptNames

\* Every variable keeps its type, whatever the clients, the worker and the
\* system do.
THEOREM TypeCorrect == Spec => []TypeOK
<1>1. Init => TypeOK BY TypeOKInit
<1>2. TypeOK /\ [Next]_vars => TypeOK'
  BY TypeOKWorker, TypeOKClient, TypeOKSystem, TypeOKStutter DEF Next, Destroyed
<1> QED BY <1>1, <1>2, PTL DEF Spec

-----------------------------------------------------------------------------
\* No disk but the monitored ones is cached, or will be by the running cycle.
CycleInv ==
    /\ CacheFollowsDevices
    /\ ~raced /\ refreshing =>
          /\ todo \subseteq devices
          /\ wpc \in {"read", "check", "record"} => cur \in devices

LEMMA BusyInvariant == Spec => []BusyWhileCycleRuns
<1>1. Init => BusyWhileCycleRuns BY DEF Init, BusyWhileCycleRuns
<1>2. TypeOK /\ BusyWhileCycleRuns /\ [Next]_vars => BusyWhileCycleRuns'
  <2> SUFFICES ASSUME TypeOK, BusyWhileCycleRuns, [Next]_vars PROVE BusyWhileCycleRuns'
    OBVIOUS
  <2> USE DEF TypeOK, BusyWhileCycleRuns, env, flags, cache, worker, history,
            NotifyAll, Idle, TakeRequest, KeptNames
  <2>1. CASE WorkerSteps
    BY <2>1 DEF WorkerSteps, WorkerSleeps, WorkerExits, CycleBegins, CycleStops,
       CycleRunsOut, CycleEnds, ReadHealth, CheckIdentity, Record, SkipDevice,
       ReadIdentity
  <2>2. ASSUME NEW c \in Clients, ClientSteps(c) PROVE BusyWhileCycleRuns'
    <3>1. CASE \E new \in SUBSET Names : SetDevices(c, new) BY <3>1 DEF SetDevices
    <3>2. CASE \E f \in BOOLEAN : RequestRefresh(c, f) BY <3>2 DEF RequestRefresh
    <3>3. CASE WaitForIdle(c) BY <3>3 DEF WaitForIdle
    <3>4. CASE Destroy(c) BY <3>4 DEF Destroy
    <3>5. CASE ClientReturns(c)
      BY <3>5 DEF ClientReturns, WaitSleeps, WaitReturns, Joined
    <3> QED BY <2>2, <3>1, <3>2, <3>3, <3>4, <3>5 DEF ClientSteps
  <2>3. CASE SystemSteps BY <2>3 DEF SystemSteps, Replug, BackoffElapses
  <2>4. CASE Destroyed \/ UNCHANGED vars BY <2>4 DEF Destroyed, vars
  <2> QED BY <2>1, <2>2, <2>3, <2>4 DEF Next
<1> QED BY <1>1, <1>2, TypeCorrect, PTL DEF Spec

\* Every monitored disk always has a cache entry, and no other disk has one
\* unless setDevices ran while a cycle was in flight.
THEOREM CacheFollows == Spec => []CacheFollowsDevices
<1>1. Init => CycleInv BY DEF Init, CycleInv, CacheFollowsDevices
<1>2. TypeOK /\ BusyWhileCycleRuns /\ CycleInv /\ [Next]_vars => CycleInv'
  <2> SUFFICES ASSUME TypeOK, BusyWhileCycleRuns, CycleInv, [Next]_vars
               PROVE  CycleInv'
    OBVIOUS
  <2> USE DEF CycleInv, CacheFollowsDevices, BusyWhileCycleRuns,
              env, flags, cache, worker, history, NotifyAll, Idle, TakeRequest,
              KeptNames
  <2>1. CASE WorkerSteps
    <3>1. CASE WorkerSleeps \/ WorkerExits BY <2>1, <3>1 DEF WorkerSleeps, WorkerExits
    <3>2. CASE CycleBegins BY <3>2 DEF CycleBegins
    <3>3. CASE CycleStops \/ CycleRunsOut BY <3>3 DEF CycleStops, CycleRunsOut
    <3>4. CASE CycleEnds BY <3>4 DEF CycleEnds
    <3>5. CASE ReadHealth \/ CheckIdentity BY <3>5 DEF ReadHealth, CheckIdentity
    <3>6. CASE Record
      <4>1. DOMAIN results' = DOMAIN results \cup {cur} BY <3>6 DEF Record
      <4> QED BY <3>6, <4>1 DEF Record
    <3>7. ASSUME NEW n \in Names, SkipDevice(n) \/ ReadIdentity(n) PROVE CycleInv'
      BY <3>7 DEF SkipDevice, ReadIdentity
    <3> QED BY <2>1, <3>1, <3>2, <3>3, <3>4, <3>5, <3>6, <3>7 DEF WorkerSteps
  <2>2. ASSUME NEW c \in Clients, ClientSteps(c) PROVE CycleInv'
    <3>1. ASSUME NEW new \in SUBSET Names, SetDevices(c, new) PROVE CycleInv'
      <4>1. DOMAIN results' = new BY <3>1 DEF SetDevices
      <4> QED BY <3>1, <4>1 DEF SetDevices
    <3>2. ASSUME NEW f \in BOOLEAN, RequestRefresh(c, f) PROVE CycleInv'
      BY <3>2 DEF RequestRefresh
    <3>3. CASE WaitForIdle(c) \/ Destroy(c) \/ ClientReturns(c)
      BY <3>3 DEF WaitForIdle, Destroy, ClientReturns, WaitSleeps, WaitReturns, Joined
    <3> QED BY <2>2, <3>1, <3>2, <3>3 DEF ClientSteps
  <2>3. CASE SystemSteps BY <2>3 DEF SystemSteps, Replug, BackoffElapses
  <2>4. CASE Destroyed \/ UNCHANGED vars BY <2>4 DEF Destroyed, vars
  <2> QED BY <2>1, <2>2, <2>3, <2>4 DEF Next
<1> QED BY <1>1, <1>2, TypeCorrect, BusyInvariant, PTL DEF Spec, CycleInv

-----------------------------------------------------------------------------
\* What is known of the read under way.  Before the read an unmoved slot still
\* shows the identity; after it the data is either from a disk that showed it,
\* or from the disk that replaced that one and is still there to be checked.
ReadInv ==
    /\ wpc \in {"read", "check"} => result.ident = ident /\ moved \in {0, 1}
    /\ wpc \in {"read", "check"} /\ moved = 0 =>
          slot[cur] \in Disks /\ IdentityOf[slot[cur]] = ident
    /\ wpc = "check" /\ result.ok =>
          /\ result.disk \in Disks
          /\ \/ IdentityOf[result.disk] = ident
             \/ moved = 1 /\ slot[cur] = result.disk
    /\ wpc = "record" /\ result.ok =>
          result.disk \in Disks /\ result.ident = IdentityOf[result.disk]

\* Only results is named by the label property.
LEMMA SuccessUnchanged ==
  ASSUME SuccessIsOfItsDisk, UNCHANGED results PROVE SuccessIsOfItsDisk'
  BY DEF SuccessIsOfItsDisk

LabelInv == ReadInv /\ SuccessIsOfItsDisk

\* A success in the cache carries the identity of the disk it was read from,
\* wherever around the read that disk was swapped.
THEOREM SuccessLabelled == Spec => []SuccessIsOfItsDisk
<1>1. Init => LabelInv
  BY DEF Init, LabelInv, ReadInv, SuccessIsOfItsDisk
<1>2. TypeOK /\ LabelInv /\ [Next]_vars => LabelInv'
  <2> SUFFICES ASSUME TypeOK, LabelInv, [Next]_vars PROVE LabelInv'
    OBVIOUS
  <2> USE ConstantsAssumption
          DEF LabelInv, TypeOK, env, flags, cache, worker, history,
            NotifyAll, Idle, TakeRequest, KeptNames
  <2>1. CASE WorkerSteps
    <3>1. CASE \/ WorkerSleeps \/ WorkerExits \/ CycleBegins \/ CycleStops
               \/ CycleRunsOut \/ CycleEnds \/ \E n \in Names : SkipDevice(n)
      BY <3>1 DEF ReadInv, SuccessIsOfItsDisk, WorkerSleeps, WorkerExits,
         CycleBegins, CycleStops, CycleRunsOut, CycleEnds, SkipDevice
    <3>2. ASSUME NEW n \in Names, ReadIdentity(n) PROVE LabelInv'
      <4>1. SuccessIsOfItsDisk' BY <3>2 DEF ReadIdentity, SuccessIsOfItsDisk
      <4>2. CASE slot[n] = None
        BY <3>2, <4>1, <4>2 DEF ReadIdentity, ReadInv, FailSnapshot, NoSnapshot
      <4>3. CASE slot[n] # None
        BY <3>2, <4>1, <4>3 DEF ReadIdentity, ReadInv, NoSnapshot
      <4> QED BY <4>2, <4>3
    <3>3. CASE ReadHealth
      <4>1. SuccessIsOfItsDisk' BY <3>3 DEF ReadHealth, SuccessIsOfItsDisk
      <4>2. CASE slot[cur] # None /\ result' = [result EXCEPT !.ok = TRUE, !.disk = slot[cur]]
        <5>1. slot[cur] \in Disks BY <3>3, <4>2 DEF ReadHealth
        <5>2. /\ result'.ident = result.ident
              /\ result'.disk = slot[cur]
          BY <4>2 DEF Snapshots
        <5> QED BY <3>3, <4>1, <5>1, <5>2 DEF ReadHealth, ReadInv
      <4>3. CASE \E category \in Failures : result' = FailSnapshot(result, category)
        <5>1. result'.ok = FALSE /\ result'.ident = result.ident
          BY <4>3 DEF FailSnapshot, Snapshots
        <5> QED BY <3>3, <4>1, <5>1 DEF ReadHealth, ReadInv
      <4> QED BY <3>3, <4>2, <4>3 DEF ReadHealth
    <3>4. CASE CheckIdentity
      <4>1. SuccessIsOfItsDisk' BY <3>4 DEF CheckIdentity, SuccessIsOfItsDisk
      <4>2. CASE IdentityUnchanged
        BY <3>4, <4>1, <4>2 DEF CheckIdentity, IdentityUnchanged, ReadInv
      <4>3. CASE ~IdentityUnchanged
        <5>1. result'.ok = FALSE BY <3>4, <4>3 DEF CheckIdentity, FailSnapshot, Snapshots
        <5> QED BY <3>4, <4>1, <5>1 DEF CheckIdentity, ReadInv
      <4> QED BY <4>2, <4>3
    <3>5. CASE Record
      <4>1. ReadInv' BY <3>5 DEF Record, ReadInv, NoSnapshot
      <4>2. ASSUME NEW n \in DOMAIN results', results'[n].last_success # None
            PROVE  LET good == results'[n].last_success
                   IN  /\ good.ok /\ good.disk \in Disks
                       /\ good.ident = IdentityOf[good.disk]
        <5>1. CASE n # cur
          BY <3>5, <4>2, <5>1 DEF Record, SuccessIsOfItsDisk
        <5>2. CASE n = cur /\ result.ok
          <6>1. results'[n].last_success = result
            BY <3>5, <5>2 DEF Record, UpdatedEntry
          <6> QED BY <3>5, <5>2, <6>1 DEF Record, ReadInv
        <5>3. CASE n = cur /\ ~result.ok
          <6>1. cur \in DOMAIN results /\ results[cur] \in Entries
            BY <3>5, <4>2, <5>3, EmptyEntryType
            DEF Record, UpdatedEntry, EmptyEntry, Entries
          <6>2. results'[n].last_success = results[cur].last_success
            BY <3>5, <5>3, <6>1 DEF Record, UpdatedEntry, Entries
          <6> QED BY <4>2, <6>1, <6>2 DEF SuccessIsOfItsDisk
        <5> QED BY <5>1, <5>2, <5>3
      <4> QED BY <4>1, <4>2 DEF SuccessIsOfItsDisk
    <3> QED BY <2>1, <3>1, <3>2, <3>3, <3>4, <3>5 DEF WorkerSteps
  <2>2. ASSUME NEW c \in Clients, ClientSteps(c) PROVE LabelInv'
    <3>1. ReadInv'
      BY <2>2 DEF ReadInv, ClientSteps, ClientReturns, SetDevices, RequestRefresh,
         WaitForIdle, Destroy, WaitSleeps, WaitReturns, Joined
    <3>2. ASSUME NEW new \in SUBSET Names, SetDevices(c, new) PROVE SuccessIsOfItsDisk'
      BY <3>2 DEF SetDevices, SuccessIsOfItsDisk, EmptyEntry
    <3>3. CASE \/ \E f \in BOOLEAN : RequestRefresh(c, f)
               \/ WaitForIdle(c) \/ Destroy(c) \/ ClientReturns(c)
      <4>1. UNCHANGED results
        BY <3>3 DEF ClientReturns, RequestRefresh, WaitForIdle, Destroy, WaitSleeps,
           WaitReturns, Joined
      <4> QED BY <3>1, <4>1, SuccessUnchanged
    <3> QED BY <2>2, <3>1, <3>2, <3>3 DEF ClientSteps
  <2>3. CASE SystemSteps
    <3>1. SuccessIsOfItsDisk'
      BY <2>3 DEF SystemSteps, Replug, BackoffElapses, SuccessIsOfItsDisk
    <3>2. ASSUME NEW n \in Names, NEW d \in Disks \cup {None}, Replug(n, d)
          PROVE  ReadInv'
      <4>1. CASE n = cur /\ wpc \in {"read", "check"}
        BY <3>2, <4>1, MovesAssumption DEF Replug, ReadInv
      <4>2. CASE ~(n = cur /\ wpc \in {"read", "check"})
        BY <3>2, <4>2 DEF Replug, ReadInv
      <4> QED BY <4>1, <4>2
    <3>3. ASSUME NEW n \in Names, BackoffElapses(n) PROVE ReadInv'
      BY <3>3 DEF BackoffElapses, ReadInv
    <3> QED BY <2>3, <3>1, <3>2, <3>3 DEF SystemSteps
  <2>4. CASE Destroyed \/ UNCHANGED vars
    BY <2>4 DEF Destroyed, vars, ReadInv, SuccessIsOfItsDisk
  <2> QED BY <2>1, <2>2, <2>3, <2>4 DEF Next
<1> QED BY <1>1, <1>2, TypeCorrect, PTL DEF Spec, LabelInv

-----------------------------------------------------------------------------
\* The accepted request not yet served is the one that is pending or that the
\* running cycle carries out, and a forced cycle has every disk it has not
\* attempted still before it.
OwedInv ==
    /\ owed \subseteq IF refreshing THEN {force} ELSE IF pending THEN {forced} ELSE {}
    /\ refreshing /\ force =>
          \A n \in unread : n \in todo \/ (wpc \in {"read", "check", "record"} /\ n = cur)
    /\ wpc = "finish" /\ ~stop => todo = {}

\* A forced cycle that nobody stopped attempted every disk it was started for.
THEOREM ForcedReadsAll == Spec => []ForcedCycleReadsAll
<1>1. Init => OwedInv BY DEF Init, OwedInv
<1>2. TypeOK /\ BusyWhileCycleRuns /\ OwedInv /\ [Next]_vars => OwedInv'
  <2> SUFFICES ASSUME TypeOK, BusyWhileCycleRuns, OwedInv, [Next]_vars PROVE OwedInv'
    OBVIOUS
  <2> USE DEF OwedInv, BusyWhileCycleRuns, env, flags, cache, worker, history, NotifyAll,
              Idle, TakeRequest
  <2>1. CASE WorkerSteps
    <3>1. CASE WorkerSleeps \/ WorkerExits BY <2>1, <3>1 DEF WorkerSleeps, WorkerExits
    <3>2. CASE CycleBegins
      <4>1. owed \subseteq {forced} /\ refreshing' /\ force' = forced /\ owed' = owed
        BY <3>2, Zenon DEF CycleBegins
      <4>2. wpc' = "device" /\ unread' = devices /\ todo' = devices
        BY <3>2 DEF CycleBegins
      <4> QED BY <4>1, <4>2
    <3>3. CASE CycleStops \/ CycleRunsOut BY <3>3 DEF CycleStops, CycleRunsOut
    <3>4. CASE CycleEnds BY <3>4 DEF CycleEnds
    <3>5. CASE ReadHealth \/ CheckIdentity BY <3>5 DEF ReadHealth, CheckIdentity
    <3>6. CASE Record BY <3>6 DEF Record
    <3>7. ASSUME NEW n \in Names, SkipDevice(n) PROVE OwedInv'
      BY <3>7 DEF SkipDevice, InBackoff
    <3>8. ASSUME NEW n \in Names, ReadIdentity(n) PROVE OwedInv'
      <4>1. /\ wpc = "device" /\ cur' = n /\ todo' = todo \ {n} /\ wpc' \in {"read", "record"}
            /\ UNCHANGED <<flags, force, history>>
        BY <3>8 DEF ReadIdentity
      <4> QED BY <4>1
    <3> QED BY <2>1, <3>1, <3>2, <3>3, <3>4, <3>5, <3>6, <3>7, <3>8 DEF WorkerSteps
  <2>2. ASSUME NEW c \in Clients, ClientSteps(c) PROVE OwedInv'
    <3>1. CASE \E new \in SUBSET Names : SetDevices(c, new) BY <3>1 DEF SetDevices
    <3>2. CASE \E f \in BOOLEAN : RequestRefresh(c, f) BY <3>2 DEF RequestRefresh
    <3>3. CASE WaitForIdle(c) \/ Destroy(c) \/ ClientReturns(c)
      BY <3>3 DEF WaitForIdle, Destroy, ClientReturns, WaitSleeps, WaitReturns, Joined
    <3> QED BY <2>2, <3>1, <3>2, <3>3 DEF ClientSteps
  <2>3. CASE SystemSteps BY <2>3 DEF SystemSteps, Replug, BackoffElapses
  <2>4. CASE Destroyed \/ UNCHANGED vars BY <2>4 DEF Destroyed, vars
  <2> QED BY <2>1, <2>2, <2>3, <2>4 DEF Next
<1>3. BusyWhileCycleRuns /\ OwedInv => ForcedCycleReadsAll
  BY DEF BusyWhileCycleRuns, OwedInv, ForcedCycleReadsAll
<1> QED BY <1>1, <1>2, <1>3, TypeCorrect, BusyInvariant, PTL DEF Spec

-----------------------------------------------------------------------------
\* An entry that has had a success shows it; one that has not claims no data
\* and shows the error it ended with.
EntryInv ==
    /\ wpc = "read" => result.error = "None"
    /\ wpc \in {"check", "record"} => (result.ok <=> result.error = "None")
    /\ \A n \in DOMAIN results :
          LET e == results[n]
          IN  /\ e.last_success # None => e.state = e.last_success
              /\ e.last_success = None => ~e.state.ok /\ e.state.error = e.last_error
              /\ e.last_error = "None" => e.state.error = "None"

LEMMA EntriesUnchanged ==
  ASSUME EntryInv, UNCHANGED <<wpc, result, results>> PROVE EntryInv'
  BY DEF EntryInv

\* Recording a read keeps the entry whole: a success replaces everything, a
\* failure leaves what is shown to the last success.
LEMMA EntryAfterRead ==
  ASSUME NEW entry \in Entries, NEW snap \in Snapshots,
         snap.ok <=> snap.error = "None",
         entry.last_success # None => entry.state = entry.last_success
  PROVE  LET e == UpdatedEntry(entry, snap)
         IN  /\ entry.last_success # None => e.last_success # None
             /\ e.last_success # None => e.state = e.last_success
             /\ e.last_success = None => ~e.state.ok /\ e.state.error = e.last_error
             /\ e.last_error = "None" => e.state.error = "None"
<1>1. CASE snap.ok
  <2>1. UpdatedEntry(entry, snap) =
          [state |-> snap, last_success |-> snap, last_error |-> "None"]
    BY <1>1 DEF UpdatedEntry
  <2>2. snap # None BY SnapshotAssumption
  <2> QED BY <1>1, <2>1, <2>2
<1>2. CASE ~snap.ok
  <2> DEFINE e == UpdatedEntry(entry, snap)
  <2>1. /\ e.state = IF entry.last_success # None THEN entry.last_success ELSE snap
        /\ e.last_success = entry.last_success
        /\ e.last_error = snap.error
    BY <1>2 DEF UpdatedEntry, Entries
  <2> QED BY <1>2, <2>1
<1> QED BY <1>1, <1>2

\* A step that keeps the entries it does not create keeps every last success.
KeepsLastSuccess ==
    \A n \in DOMAIN results \cap DOMAIN results' :
        results[n].last_success # None => results'[n].last_success # None

\* The entries stay whole and no step costs a last success, whether a read
\* succeeds or fails and whoever reconfigures the devices.
LEMMA EntryInvStep ==
  ASSUME TypeOK, EntryInv, [Next]_vars
  PROVE  EntryInv' /\ KeepsLastSuccess
<1> USE DEF TypeOK, env, flags, cache, worker, history, NotifyAll, Idle, TakeRequest
<1>1. ASSUME UNCHANGED results PROVE KeepsLastSuccess
  BY <1>1 DEF KeepsLastSuccess
<1>2. CASE \/ WorkerSleeps \/ WorkerExits \/ CycleBegins \/ CycleStops
           \/ CycleRunsOut \/ CycleEnds \/ \E n \in Names : SkipDevice(n)
  <2>1. UNCHANGED results /\ wpc' \notin {"read", "check", "record"}
    BY <1>2 DEF WorkerSleeps, WorkerExits, CycleBegins, CycleStops, CycleRunsOut,
       CycleEnds, SkipDevice
  <2> QED BY <1>1, <2>1 DEF EntryInv
<1>3. ASSUME NEW n \in Names, ReadIdentity(n) PROVE EntryInv' /\ KeepsLastSuccess
  <2>1. UNCHANGED results /\ wpc' # "check" BY <1>3 DEF ReadIdentity
  <2>2. wpc' = "record" => result' = FailSnapshot(NoSnapshot, "DeviceUnavailable")
    BY <1>3 DEF ReadIdentity
  <2>3. wpc' = "record" => ~result'.ok /\ result'.error # "None"
    BY <2>2 DEF FailSnapshot, NoSnapshot
  <2>4. wpc' = "read" => result' = [NoSnapshot EXCEPT !.ident = IdentityOf[slot[n]]]
    BY <1>3 DEF ReadIdentity
  <2>5. wpc' = "read" => result'.error = "None" BY <2>4 DEF NoSnapshot
  <2> QED BY <1>1, <2>1, <2>3, <2>5 DEF EntryInv
<1>4. CASE ReadHealth
  <2>1. UNCHANGED results /\ wpc = "read" /\ wpc' = "check" BY <1>4 DEF ReadHealth
  <2>2. CASE result' = [result EXCEPT !.ok = TRUE, !.disk = slot[cur]]
    <3>1. result'.ok /\ result'.error = result.error BY <2>2 DEF Snapshots
    <3> QED BY <1>1, <2>1, <3>1 DEF EntryInv
  <2>3. ASSUME NEW category \in Failures, result' = FailSnapshot(result, category)
        PROVE  EntryInv' /\ KeepsLastSuccess
    <3>1. result'.ok = FALSE /\ result'.error = category /\ category # "None"
      BY <2>3, ConstantsAssumption DEF FailSnapshot, Snapshots
    <3> QED BY <1>1, <2>1, <3>1 DEF EntryInv
  <2> QED BY <1>4, <2>2, <2>3 DEF ReadHealth
<1>5. CASE CheckIdentity
  <2>1. UNCHANGED results /\ wpc = "check" /\ wpc' = "record" BY <1>5 DEF CheckIdentity
  <2>2. CASE IdentityUnchanged
    BY <1>1, <1>5, <2>1, <2>2 DEF CheckIdentity, EntryInv
  <2>3. CASE ~IdentityUnchanged
    <3>1. result'.ok = FALSE /\ result'.error # "None"
      BY <1>5, <2>3 DEF CheckIdentity, FailSnapshot, Snapshots
    <3> QED BY <1>1, <2>1, <3>1 DEF EntryInv
  <2> QED BY <2>2, <2>3
<1>6. CASE Record
  <2> DEFINE entry == IF cur \in DOMAIN results THEN results[cur] ELSE EmptyEntry
  <2>1. wpc' = "device" /\ wpc = "record" BY <1>6 DEF Record
  <2>2. DOMAIN results' = DOMAIN results \cup {cur} BY <1>6 DEF Record
  <2>3. results'[cur] = UpdatedEntry(entry, result) BY <1>6 DEF Record
  <2>4. \A n \in DOMAIN results \ {cur} : results'[n] = results[n] BY <1>6 DEF Record
  <2>5. entry \in Entries BY EmptyEntryType
  <2>6. entry.last_success # None => entry.state = entry.last_success
    BY DEF EntryInv, EmptyEntry
  <2>7. result.ok <=> result.error = "None" BY <2>1 DEF EntryInv
  <2> HIDE DEF entry
  <2>8. LET e == results'[cur]
        IN  /\ entry.last_success # None => e.last_success # None
            /\ e.last_success # None => e.state = e.last_success
            /\ e.last_success = None => ~e.state.ok /\ e.state.error = e.last_error
            /\ e.last_error = "None" => e.state.error = "None"
    BY <2>3, <2>5, <2>6, <2>7, EntryAfterRead
  <2>9. EntryInv' BY <2>1, <2>2, <2>4, <2>8 DEF EntryInv
  <2>10. KeepsLastSuccess BY <2>4, <2>8 DEF KeepsLastSuccess, entry
  <2> QED BY <2>9, <2>10
<1>7. ASSUME NEW c \in Clients, NEW new \in SUBSET Names, SetDevices(c, new)
      PROVE  EntryInv' /\ KeepsLastSuccess
  <2>1. DOMAIN results' = new /\ UNCHANGED <<wpc, result>>
    BY <1>7 DEF SetDevices, KeptNames
  <2>2. \A n \in new : results'[n] = IF n \in DOMAIN results THEN results[n] ELSE EmptyEntry
    BY <1>7 DEF SetDevices, KeptNames
  <2>3. KeepsLastSuccess BY <2>1, <2>2 DEF KeepsLastSuccess
  <2>4. EntryInv' BY <2>1, <2>2 DEF EntryInv, EmptyEntry, NoSnapshot
  <2> QED BY <2>3, <2>4
<1>8. ASSUME NEW c \in Clients,
             \/ \E f \in BOOLEAN : RequestRefresh(c, f)
             \/ WaitForIdle(c) \/ Destroy(c) \/ ClientReturns(c)
      PROVE  EntryInv' /\ KeepsLastSuccess
  <2>1. UNCHANGED <<wpc, result, results>>
    BY <1>8 DEF ClientReturns, RequestRefresh, WaitForIdle, Destroy, WaitSleeps,
       WaitReturns, Joined
  <2> QED BY <1>1, <2>1, EntriesUnchanged
<1>9. CASE SystemSteps \/ Destroyed \/ UNCHANGED vars
  <2>1. UNCHANGED <<wpc, result, results>>
    BY <1>9 DEF SystemSteps, Replug, BackoffElapses, Destroyed, vars
  <2> QED BY <1>1, <2>1, EntriesUnchanged
<1> QED
  BY <1>2, <1>3, <1>4, <1>5, <1>6, <1>7, <1>8, <1>9
  DEF Next, WorkerSteps, ClientSteps

\* A failed read never costs the last success, and what an entry shows is that
\* success or, without one, no data and the error.
THEOREM LastSuccessStays == Spec => LastSuccessKept
<1>1. Init => EntryInv BY DEF Init, EntryInv
<1>2. TypeOK /\ EntryInv /\ [Next]_vars => EntryInv' BY EntryInvStep
<1>3. TypeOK /\ EntryInv /\ [Next]_vars => KeepsLastSuccess BY EntryInvStep
<1>4. EntryInv' /\ KeepsLastSuccess =>
        /\ \A n \in DOMAIN results \cap DOMAIN results' :
              results[n].last_success # None => results'[n].last_success # None
        /\ \A n \in DOMAIN results' :
              LET e == results'[n]
              IN  /\ e.last_success # None => e.state = e.last_success
                  /\ e.last_success = None => ~e.state.ok /\ e.state.error = e.last_error
                  /\ e.last_error = "None" => e.state.error = "None"
  BY DEF EntryInv, KeepsLastSuccess
<1> QED BY <1>1, <1>2, <1>3, <1>4, TypeCorrect, PTL DEF Spec, LastSuccessKept

-----------------------------------------------------------------------------
\* Each step of the monitor is a step of RefreshService or leaves it alone, so
\* an accepted request is carried out by one cycle, with its force value.
THEOREM ImplementsRefreshService == Spec => Refresh!Safety
<1>1. Init => Refresh!Init BY DEF Init, Refresh!Init
<1>2. TypeOK /\ BusyWhileCycleRuns /\ [Next]_vars => [Refresh!Next]_(Refresh!vars)
  <2> SUFFICES ASSUME TypeOK, BusyWhileCycleRuns, [Next]_vars
               PROVE  [Refresh!Next]_(Refresh!vars)
    OBVIOUS
  <2> USE DEF TypeOK, BusyWhileCycleRuns, env, flags, cache, worker, history,
            NotifyAll, Idle, TakeRequest, KeptNames,
              Refresh!Next, Refresh!vars
  <2>1. CASE CycleBegins
    <3>1. ~refreshing /\ pending /\ refreshing' /\ force' = forced /\ ~stop /\ stop' = stop
      BY <2>1 DEF CycleBegins
    <3>2. Refresh!Begin BY <3>1, Zenon DEF Refresh!Begin
    <3> QED BY <3>2
  <2>2. CASE CycleEnds BY <2>2 DEF CycleEnds, Refresh!End
  <2>3. CASE \/ WorkerSleeps \/ WorkerExits \/ CycleStops \/ CycleRunsOut \/ ReadHealth
             \/ CheckIdentity \/ Record
             \/ \E n \in Names : SkipDevice(n) \/ ReadIdentity(n)
    BY <2>3 DEF WorkerSleeps, WorkerExits, CycleStops, CycleRunsOut, ReadHealth,
       CheckIdentity, Record, SkipDevice, ReadIdentity
  <2>4. ASSUME NEW c \in Clients, NEW f \in BOOLEAN, RequestRefresh(c, f)
        PROVE  Refresh!Request(f)
    BY <2>4 DEF RequestRefresh, Refresh!Request
  <2>5. ASSUME NEW c \in Clients, Destroy(c) PROVE Refresh!Close
    BY <2>5 DEF Destroy, Refresh!Close
  <2>6. ASSUME NEW c \in Clients,
               \/ \E new \in SUBSET Names : SetDevices(c, new)
               \/ WaitForIdle(c) \/ ClientReturns(c)
        PROVE  UNCHANGED Refresh!vars
    <3>1. UNCHANGED <<flags, force>>
      BY <2>6 DEF SetDevices, WaitForIdle, ClientReturns, WaitSleeps, WaitReturns, Joined
    <3> QED BY <3>1
  <2>7. CASE SystemSteps BY <2>7 DEF SystemSteps, Replug, BackoffElapses
  <2>8. CASE Destroyed \/ UNCHANGED vars BY <2>8 DEF Destroyed, vars
  <2> QED
    BY <2>1, <2>2, <2>3, <2>4, <2>5, <2>6, <2>7, <2>8
    DEF Next, WorkerSteps, ClientSteps
<1> QED BY <1>1, <1>2, TypeCorrect, BusyInvariant, PTL DEF Spec, Refresh!Safety

-----------------------------------------------------------------------------
(* The hardware of the interfaces.                                         *)

States == {Unknown, Available, Stale, Unavailable}
Bindings == Drivers \cup {Unbound}
HardwareEntries ==
    [name : NicNames \cup {""}, present : BOOLEAN, device : BOOLEAN, deviceState : States,
     driver : Bindings, driverState : States, readOk : BOOLEAN, firstSeen : Nat,
     lastProbe : Nat]

HardwareTypeOK ==
    /\ backed \subseteq Nics
    /\ DOMAIN nameOf \subseteq Nics /\ nameOf \in [DOMAIN nameOf -> NicNames]
    /\ DOMAIN found \subseteq Nics /\ found \in [DOMAIN found -> NicNames]
    /\ IsFiniteSet(DOMAIN nameOf) /\ IsFiniteSet(DOMAIN found)
    /\ driver \in [Nics -> Bindings]
    /\ fresh \in BOOLEAN /\ probings \in Nat
    /\ DOMAIN hardware \subseteq Nics /\ hardware \in [DOMAIN hardware -> HardwareEntries]
    /\ IsFiniteSet(DOMAIN hardware)
    /\ lastHad \in [Nics -> [Drivers -> {Never} \cup Nat]]

\* No two interfaces have a name, and a driver that is bound was had just now.
KernelInv ==
    /\ \A m, n \in DOMAIN nameOf : nameOf[m] = nameOf[n] => m = n
    /\ \A n \in Nics : driver[n] # Unbound => lastHad[n][driver[n]] = probings
    /\ \A n \in Nics : \A d \in Drivers : lastHad[n][d] <= probings

\* An entry shows a device or driver only if it has one.
Shape(hw) ==
    /\ hw.deviceState \in {Available, Stale} => hw.device
    /\ hw.driverState \in {Available, Stale} => hw.driver # Unbound
    /\ hw.lastProbe <= probings

\* What an entry holds was its interface's: the device, the driver, and as available only
\* one the interface had when it was probed last.
Own(n, hw) ==
    /\ hw.device => n \in backed
    /\ hw.driver # Unbound => lastHad[n][hw.driver] # Never
    /\ hw.driverState = Available => lastHad[n][hw.driver] >= hw.lastProbe

EntriesInv ==
    /\ \A n \in DOMAIN hardware :
          /\ Shape(hardware[n])
          /\ ~fresh /\ hardware[n].present => probings - hardware[n].lastProbe < Reread
          /\ n \notin misread => Own(n, hardware[n])
    /\ ~fresh => DOMAIN found = {n \in DOMAIN hardware : hardware[n].present}
    /\ ~fresh => Cardinality(DOMAIN hardware) <= MaxNics \/ DOMAIN hardware = DOMAIN found

Answers == {Refused, NoDevice, Denied} \cup {Driven(d) : d \in Bindings}

\* A probe is answered by the interface that has the name: refused, without a device, or
\* with its driver as it is bound.
LEMMA ProbeFacts ==
  ASSUME HardwareTypeOK, KernelInv, NEW name, NEW read \in Probe(name)
  PROVE  /\ read \in Answers
         /\ \A n \in DOMAIN nameOf : nameOf[n] = name =>
               \/ read \in {Refused, NoDevice}
               \/ n \in backed /\ read \in {Denied, Driven(driver[n])}
<1>1. CASE \E n \in DOMAIN nameOf \cap backed : nameOf[n] = name
  <2> DEFINE owner == CHOOSE m \in DOMAIN nameOf : nameOf[m] = name
  <2>1. owner \in DOMAIN nameOf /\ nameOf[owner] = name BY <1>1
  <2>2. \A n \in DOMAIN nameOf : nameOf[n] = name => n = owner BY <2>1 DEF KernelInv
  <2>3. owner \in backed BY <1>1, <2>2
  <2>4. read \in {Refused, Denied, Driven(driver[owner])} BY <1>1, Zenon DEF Probe
  <2> HIDE DEF owner
  <2>5. driver[owner] \in Bindings BY <2>1 DEF HardwareTypeOK
  <2>6. read \in Answers BY <2>4, <2>5, Zenon DEF Answers
  <2> QED BY <2>2, <2>3, <2>4, <2>6
<1>2. CASE ~(\E n \in DOMAIN nameOf \cap backed : nameOf[n] = name)
  <2>1. read \in {Refused, NoDevice} BY <1>2, Zenon DEF Probe
  <2> QED BY <2>1 DEF Answers
<1> QED BY <1>1, <1>2

\* The fields of an answer.
LEMMA AnswerFields ==
  ASSUME NEW read \in Answers
  PROVE  /\ read.ok \in BOOLEAN /\ read.device \in BOOLEAN /\ read.denied \in BOOLEAN
         /\ read.driver \in Bindings
         /\ ~read.ok <=> read = Refused
<1>1. CASE read = Refused BY <1>1 DEF Refused, Bindings
<1>2. CASE read = NoDevice BY <1>2 DEF NoDevice, Refused, Bindings
<1>3. CASE read = Denied BY <1>3 DEF Denied, Refused, Bindings
<1>4. ASSUME NEW d \in Bindings, read = Driven(d)
      PROVE  /\ read.ok \in BOOLEAN /\ read.device \in BOOLEAN /\ read.denied \in BOOLEAN
             /\ read.driver \in Bindings
             /\ ~read.ok <=> read = Refused
  BY <1>4 DEF Driven, Refused
<1> QED BY <1>1, <1>2, <1>3, <1>4 DEF Answers

LEMMA NewHardwareType ==
  ASSUME HardwareTypeOK, NEW n
  PROVE  NewHardware(n) \in HardwareEntries /\ Shape(NewHardware(n)) /\ Own(n, NewHardware(n))
<1>1. probings \in Nat BY DEF HardwareTypeOK
<1> DEFINE hw == NewHardware(n)
<1>2. /\ hw.name = "" /\ hw.present = TRUE /\ hw.device = FALSE /\ hw.deviceState = Unknown
      /\ hw.driver = Unbound /\ hw.driverState = Unknown /\ hw.readOk = FALSE
      /\ hw.firstSeen = probings /\ hw.lastProbe = probings
  BY DEF NewHardware
<1>3. hw \in HardwareEntries
  BY <1>1 DEF NewHardware, HardwareEntries, States, Bindings, Unknown, Unbound
<1>4. Unknown \notin {Available, Stale} BY DEF Unknown, Available, Stale
<1> HIDE DEF hw
<1>5. Shape(hw)
  <2>1. hw.lastProbe <= probings
    <3>1. hw.lastProbe = probings BY <1>2, Zenon
    <3> QED BY <1>1, <3>1
  <2>2. hw.deviceState \notin {Available, Stale} /\ hw.driverState \notin {Available, Stale}
    BY <1>2, <1>4, Zenon
  <2> QED BY <2>1, <2>2, Zenon DEF Shape
<1>6. Own(n, hw) BY <1>2, <1>4 DEF Own
<1> QED BY <1>3, <1>5, <1>6 DEF hw

\* What a look at an interface of the snapshot leaves of its entry: as it was, or probed
\* now, with the answer or with the old values.
LEMMA LookedFields ==
  ASSUME HardwareTypeOK, NEW n \in DOMAIN found, NEW read \in Answers
  PROVE  LET hw == IF n \in DOMAIN hardware THEN hardware[n] ELSE NewHardware(n)
             now == Looked(n, read)
             kept == NextDriver(hw, read)
         IN  /\ hw \in HardwareEntries
             /\ now \in HardwareEntries /\ now.present
             /\ ~NeedsProbe(n) =>
                   /\ now.device = hw.device /\ now.deviceState = hw.deviceState
                   /\ now.driver = hw.driver /\ now.driverState = hw.driverState
                   /\ now.lastProbe = hw.lastProbe
             /\ NeedsProbe(n) /\ ~read.ok =>
                   /\ now.device = hw.device /\ now.driver = hw.driver
                   /\ now.deviceState = IF hw.device THEN Stale ELSE Unavailable
                   /\ now.driverState = IF hw.driver = Unbound THEN Unavailable ELSE Stale
                   /\ now.lastProbe = probings
             /\ NeedsProbe(n) /\ read.ok =>
                   /\ now.device = read.device /\ now.driver = kept
                   /\ now.deviceState = IF read.device THEN Available ELSE Unavailable
                   /\ now.driverState = DriverState(read, kept)
                   /\ now.lastProbe = probings
<1> DEFINE hw == IF n \in DOMAIN hardware THEN hardware[n] ELSE NewHardware(n)
           now == Looked(n, read)
           kept == NextDriver(hw, read)
           named == [hw EXCEPT !.name = found[n], !.present = TRUE, !.readOk = read.ok,
                               !.lastProbe = probings]
<1>1. hw \in HardwareEntries BY NewHardwareType DEF HardwareTypeOK
<1>2. /\ found[n] \in NicNames /\ probings \in Nat
      /\ read.ok \in BOOLEAN /\ read.device \in BOOLEAN /\ read.driver \in Bindings
  BY AnswerFields DEF HardwareTypeOK
<1>3. now = IF ~NeedsProbe(n) THEN [hw EXCEPT !.present = TRUE]
            ELSE IF read.ok THEN Probed(named, read) ELSE Preserved(named)
  BY DEF Looked
<1>4. kept \in Bindings BY <1>1, <1>2 DEF NextDriver, HardwareEntries
<1>5. {Available, Stale, Unavailable} \subseteq States BY DEF States
<1> HIDE DEF hw, now
<1>6. /\ named \in HardwareEntries
      /\ named.device = hw.device /\ named.driver = hw.driver /\ named.present
      /\ named.lastProbe = probings
  BY <1>1, <1>2 DEF HardwareEntries
<1>7. CASE ~NeedsProbe(n)
  <2>1. now = [hw EXCEPT !.present = TRUE] BY <1>3, <1>7
  <2>2. /\ now \in HardwareEntries /\ now.present
        /\ now.device = hw.device /\ now.deviceState = hw.deviceState
        /\ now.driver = hw.driver /\ now.driverState = hw.driverState
        /\ now.lastProbe = hw.lastProbe
    BY <1>1, <2>1 DEF HardwareEntries
  <2> QED BY <1>1, <1>7, <2>2 DEF hw, now
<1>8. CASE NeedsProbe(n) /\ ~read.ok
  <2> HIDE DEF named
  <2>1. now = [named EXCEPT
                  !.deviceState = IF named.device THEN Stale ELSE Unavailable,
                  !.driverState = IF named.driver = Unbound THEN Unavailable ELSE Stale]
    BY <1>3, <1>8 DEF Preserved
  <2>2. /\ now \in HardwareEntries /\ now.present
        /\ now.device = named.device /\ now.driver = named.driver
        /\ now.deviceState = IF named.device THEN Stale ELSE Unavailable
        /\ now.driverState = IF named.driver = Unbound THEN Unavailable ELSE Stale
        /\ now.lastProbe = probings
    BY <1>5, <1>6, <2>1 DEF HardwareEntries
  <2> QED BY <1>1, <1>6, <1>8, <2>2 DEF hw, now
<1>9. CASE NeedsProbe(n) /\ read.ok
  <2>1. NextDriver(named, read) = kept BY <1>6 DEF NextDriver
  <2> HIDE DEF named, kept
  <2>2. now = [named EXCEPT
                  !.device = read.device,
                  !.deviceState = IF read.device THEN Available ELSE Unavailable,
                  !.driver = kept, !.driverState = DriverState(read, kept)]
    BY <1>3, <1>9, <2>1 DEF Probed
  <2>3. DriverState(read, kept) \in States BY <1>5 DEF DriverState
  <2>4. /\ now \in HardwareEntries /\ now.present
        /\ now.device = read.device /\ now.driver = kept
        /\ now.deviceState = IF read.device THEN Available ELSE Unavailable
        /\ now.driverState = DriverState(read, kept)
        /\ now.lastProbe = probings
    BY <1>2, <1>4, <1>5, <1>6, <2>2, <2>3 DEF HardwareEntries
  <2> QED BY <1>1, <1>9, <2>4 DEF hw, now, kept
<1> QED BY <1>7, <1>8, <1>9

\* A look leaves an entry that shows a device or a driver only if it has one, and probed
\* within the last interval.
LEMMA LookedShape ==
  ASSUME HardwareTypeOK, EntriesInv, NEW n \in DOMAIN found, NEW read \in Answers
  PROVE  /\ Shape(Looked(n, read))
         /\ probings - Looked(n, read).lastProbe < Reread
<1> DEFINE hw == IF n \in DOMAIN hardware THEN hardware[n] ELSE NewHardware(n)
           now == Looked(n, read)
           kept == NextDriver(hw, read)
<1>1. Shape(hw) BY NewHardwareType DEF EntriesInv
<1>2. probings \in Nat /\ Reread \in Nat \ {0} BY HardwareConstants DEF HardwareTypeOK
<1>3. Available # Unavailable /\ Stale # Unavailable BY DEF Available, Stale, Unavailable
<1>4. CASE ~NeedsProbe(n)
  <2>1. /\ now.device = hw.device /\ now.deviceState = hw.deviceState
        /\ now.driver = hw.driver /\ now.driverState = hw.driverState
        /\ now.lastProbe = hw.lastProbe
    BY <1>4, LookedFields
  <2>2. n \in DOMAIN hardware /\ probings - hardware[n].lastProbe < Reread
    <3>1. n \in DOMAIN hardware /\ ~(probings - hardware[n].lastProbe >= Reread)
      BY <1>4 DEF NeedsProbe
    <3>2. hardware[n].lastProbe \in Nat BY <3>1 DEF HardwareTypeOK, HardwareEntries
    <3> QED BY <1>2, <3>1, <3>2
  <2> HIDE DEF now
  <2>3. Shape(now) BY <1>1, <2>1 DEF Shape
  <2>4. hw = hardware[n] BY <2>2
  <2> HIDE DEF hw
  <2> QED BY <2>1, <2>2, <2>3, <2>4 DEF now
<1>5. CASE NeedsProbe(n) /\ ~read.ok
  <2>1. /\ now.device = hw.device /\ now.driver = hw.driver
        /\ now.deviceState = IF hw.device THEN Stale ELSE Unavailable
        /\ now.driverState = IF hw.driver = Unbound THEN Unavailable ELSE Stale
        /\ now.lastProbe = probings
    BY <1>5, LookedFields
  <2> HIDE DEF now, hw
  <2>2. now.deviceState \in {Available, Stale} => now.device BY <1>3, <2>1, Zenon
  <2>3. now.driverState \in {Available, Stale} => now.driver # Unbound BY <1>3, <2>1, Zenon
  <2>4. now.lastProbe <= probings /\ probings - now.lastProbe < Reread BY <1>2, <2>1
  <2> QED BY <2>2, <2>3, <2>4 DEF Shape, now
<1>6. CASE NeedsProbe(n) /\ read.ok
  <2>1. /\ now.device = read.device /\ now.driver = kept
        /\ now.deviceState = IF read.device THEN Available ELSE Unavailable
        /\ now.driverState = DriverState(read, kept)
        /\ now.lastProbe = probings
    BY <1>6, LookedFields
  <2> HIDE DEF now, kept
  <2>2. now.deviceState \in {Available, Stale} => now.device BY <1>3, <2>1, Zenon
  <2>3. now.driverState \in {Available, Stale} => now.driver # Unbound
    BY <1>3, <2>1, Zenon DEF DriverState
  <2>4. now.lastProbe <= probings /\ probings - now.lastProbe < Reread BY <1>2, <2>1
  <2> QED BY <2>2, <2>3, <2>4 DEF Shape, now
<1> QED BY <1>4, <1>5, <1>6

\* And if no probe under a lost name is behind it, what it holds is its interface's.
LEMMA LookedOwn ==
  ASSUME HardwareTypeOK, KernelInv, EntriesInv,
         NEW n \in DOMAIN found, NEW read \in Probe(found[n]),
         IF NeedsProbe(n) /\ read.ok
         THEN n \in DOMAIN nameOf /\ nameOf[n] = found[n] /\ ~(n \in misread /\ read.denied)
         ELSE n \notin misread
  PROVE  Own(n, Looked(n, read))
<1> DEFINE hw == IF n \in DOMAIN hardware THEN hardware[n] ELSE NewHardware(n)
           now == Looked(n, read)
           kept == NextDriver(hw, read)
<1>1. read \in Answers BY ProbeFacts
<1>2. n \notin misread => Own(n, hw) BY NewHardwareType DEF EntriesInv
<1>3. /\ Available # Unavailable /\ Available # Stale
      /\ probings \in Nat /\ probings # Never /\ n \in Nics
  BY DEF Available, Stale, Unavailable, HardwareTypeOK, Never
<1>4. CASE ~NeedsProbe(n)
  <2>1. /\ now.device = hw.device /\ now.deviceState = hw.deviceState
        /\ now.driver = hw.driver /\ now.driverState = hw.driverState
        /\ now.lastProbe = hw.lastProbe
    BY <1>1, <1>4, LookedFields
  <2>2. Own(n, hw) BY <1>2, <1>4
  <2> HIDE DEF now, hw
  <2>3. Own(n, now) BY <2>1, <2>2 DEF Own
  <2> QED BY <2>3 DEF now
<1>5. CASE NeedsProbe(n) /\ ~read.ok
  <2>1. /\ now.device = hw.device /\ now.driver = hw.driver
        /\ now.driverState = IF hw.driver = Unbound THEN Unavailable ELSE Stale
    BY <1>1, <1>5, LookedFields
  <2>2. Own(n, hw) BY <1>2, <1>5
  <2> HIDE DEF now, hw
  <2>3. now.driverState # Available BY <1>3, <2>1
  <2>4. Own(n, now) BY <2>1, <2>2, <2>3 DEF Own
  <2> QED BY <2>4 DEF now
<1>6. CASE NeedsProbe(n) /\ read.ok
  <2>1. /\ now.device = read.device /\ now.driver = kept
        /\ now.driverState = DriverState(read, kept)
        /\ now.lastProbe = probings
    BY <1>1, <1>6, LookedFields
  <2>2. n \in DOMAIN nameOf /\ nameOf[n] = found[n] /\ ~(n \in misread /\ read.denied)
    BY <1>6
  <2>3. read # Refused BY <1>1, <1>6, AnswerFields
  <2>4. read = NoDevice \/ (n \in backed /\ read \in {Denied, Driven(driver[n])})
    BY <2>2, <2>3, ProbeFacts
  <2>5. CASE read = NoDevice
    <3>1. kept = Unbound /\ read.device = FALSE /\ DriverState(read, kept) = Unavailable
      BY <2>5 DEF NoDevice, NextDriver, DriverState
    <3> HIDE DEF now, kept
    <3>2. Own(n, now) BY <1>3, <2>1, <3>1 DEF Own
    <3> QED BY <3>2 DEF now
  <2>6. CASE n \in backed /\ read = Denied
    <3>1. kept = hw.driver /\ read.denied BY <2>6 DEF Denied, NextDriver
    <3>2. Own(n, hw) BY <1>2, <2>2, <3>1
    <3>3. DriverState(read, kept) # Available BY <1>3, <3>1, Zenon DEF DriverState
    <3> HIDE DEF now, kept, hw
    <3>4. Own(n, now) BY <2>1, <2>6, <3>1, <3>2, <3>3 DEF Own
    <3> QED BY <3>4 DEF now
  <2>7. CASE n \in backed /\ read = Driven(driver[n])
    <3>1. kept = driver[n] /\ ~read.denied BY <2>7 DEF Driven, NextDriver
    <3>2. kept = Unbound => DriverState(read, kept) # Available
      BY <1>3, Zenon DEF DriverState
    <3>3. kept # Unbound => lastHad[n][kept] = probings BY <1>3, <3>1 DEF KernelInv
    <3> HIDE DEF now, kept
    <3>4. Own(n, now) BY <1>3, <2>1, <2>7, <3>2, <3>3 DEF Own
    <3> QED BY <3>4 DEF now
  <2> QED BY <2>4, <2>5, <2>6, <2>7
<1> QED BY <1>4, <1>5, <1>6

\* evictOverflow never pushes out an interface that is there, and leaves more than the
\* limit only if all that is left is there.
LEMMA KeptFacts ==
  ASSUME NEW entries, IsFiniteSet(DOMAIN entries), NEW kept \in Kept(entries)
  PROVE  LET there == {n \in DOMAIN entries : entries[n].present}
         IN  /\ kept \subseteq DOMAIN entries /\ IsFiniteSet(kept)
             /\ there \subseteq kept
             /\ Cardinality(kept) <= MaxNics \/ kept = there
<1> DEFINE there == {n \in DOMAIN entries : entries[n].present}
           excess == Cardinality(DOMAIN entries) - MaxNics
           gone == {n \in DOMAIN entries : ~ entries[n].present}
           count == IF excess < 0 THEN 0
                    ELSE IF excess < Cardinality(gone) THEN excess ELSE Cardinality(gone)
<1>1. PICK out \in SUBSET gone : Cardinality(out) = count /\ kept = DOMAIN entries \ out
  BY Zenon DEF Kept
<1>2. gone \in SUBSET DOMAIN entries /\ out \in SUBSET DOMAIN entries
  BY <1>1
<1>3. /\ IsFiniteSet(gone) /\ IsFiniteSet(out) /\ IsFiniteSet(kept)
      /\ Cardinality(kept) = Cardinality(DOMAIN entries) - Cardinality(DOMAIN entries \cap out)
  BY <1>1, <1>2, FS_Subset, FS_Difference
<1>4. DOMAIN entries \cap out = out BY <1>2
<1>5. /\ Cardinality(gone) \in Nat /\ Cardinality(out) \in Nat
      /\ Cardinality(DOMAIN entries) \in Nat /\ MaxNics \in Nat \ {0}
  BY <1>3, FS_CardinalityType, HardwareConstants
<1>6. there \subseteq kept BY <1>1
<1>7. there = DOMAIN entries \ gone OBVIOUS
<1>8. kept \subseteq DOMAIN entries BY <1>1
<1>9. Cardinality(kept) = Cardinality(DOMAIN entries) - count BY <1>1, <1>3, <1>4
<1>10. count = Cardinality(gone) => kept = there
  <2>1. count = Cardinality(gone) => out = gone BY <1>1, <1>3, FS_Subset
  <2> QED BY <1>1, <1>7, <2>1
<1>11. count # Cardinality(gone) => Cardinality(kept) <= MaxNics
  <2> HIDE DEF there, gone
  <2> QED BY <1>5, <1>9
<1> QED BY <1>3, <1>6, <1>8, <1>10, <1>11

\* Whatever leaves the entries alone, and lets drivers only be had later,
\* leaves the entries true.
LEMMA EntriesKept ==
  ASSUME HardwareTypeOK, EntriesInv,
         UNCHANGED <<backed, hardware, misread>>,
         probings' \in Nat, probings' >= probings,
         fresh' \/ UNCHANGED <<fresh, found, probings>>,
         lastHad' \in [Nics -> [Drivers -> {Never} \cup Nat]],
         \A n \in Nics : \A d \in Drivers :
            lastHad'[n][d] = lastHad[n][d] \/ lastHad'[n][d] = probings'
  PROVE  EntriesInv'
<1> SUFFICES ASSUME NEW n \in DOMAIN hardware
             PROVE  /\ Shape(hardware[n])'
                    /\ n \notin misread => Own(n, hardware[n])'
  BY DEF EntriesInv
<1> DEFINE hw == hardware[n]
<1>1. hw \in HardwareEntries /\ n \in Nics /\ probings \in Nat BY DEF HardwareTypeOK
<1>2. hw.lastProbe \in Nat /\ hw.driver \in Bindings BY <1>1 DEF HardwareEntries
<1>3. Shape(hw) /\ (n \notin misread => Own(n, hw)) BY DEF EntriesInv
<1>4. Shape(hw)' BY <1>1, <1>2, <1>3 DEF Shape
<1>5. ASSUME n \notin misread PROVE Own(n, hw)'
  <2>1. Own(n, hw) BY <1>3, <1>5
  <2>2. CASE hw.driver # Unbound
    <3>1. hw.driver \in Drivers BY <1>2, <2>2 DEF Bindings
    <3>2. lastHad[n][hw.driver] \in {Never} \cup Nat BY <1>1, <3>1 DEF HardwareTypeOK
    <3>3. \/ lastHad'[n][hw.driver] = lastHad[n][hw.driver]
          \/ lastHad'[n][hw.driver] = probings'
      BY <1>1, <3>1
    <3>4. hw.lastProbe <= probings BY <1>3 DEF Shape
    <3>5. lastHad'[n][hw.driver] # Never BY <2>1, <2>2, <3>3 DEF Own, Never
    <3>6. hw.driverState = Available => lastHad'[n][hw.driver] >= hw.lastProbe
      BY <1>1, <1>2, <2>1, <3>2, <3>3, <3>4 DEF Own
    <3> QED BY <2>1, <3>5, <3>6 DEF Own
  <2>3. CASE hw.driver = Unbound
    <3>1. hw.driverState # Available BY <1>3, <2>3 DEF Shape
    <3> QED BY <2>1, <2>3, <3>1 DEF Own
  <2> QED BY <2>2, <2>3
<1> QED BY <1>4, <1>5

HardwareInv == HardwareTypeOK /\ KernelInv /\ EntriesInv

\* Interfaces appear, are renamed and go; drivers are bound and unbound.
LEMMA EventStep ==
  ASSUME HardwareInv, NEW n \in Nics,
         \/ \E name \in NicNames : Named(n, name)
         \/ \E d \in Drivers \cup {Unbound} : Bound(n, d)
         \/ Removed(n)
  PROVE  HardwareInv'
<1> USE DEF HardwareInv
<1>1. UNCHANGED <<backed, found, fresh, hardware, probings, misread>>
  BY DEF Named, Bound, Removed, Happening
<1>2. probings \in Nat /\ probings >= probings BY DEF HardwareTypeOK
<1>3. ASSUME NEW name \in NicNames, Named(n, name) PROVE HardwareInv'
  <2>1. /\ nameOf' = [m \in DOMAIN nameOf \cup {n} |-> IF m = n THEN name ELSE nameOf[m]]
        /\ \A m \in DOMAIN nameOf : nameOf[m] # name
        /\ UNCHANGED <<driver, lastHad>>
    BY <1>3 DEF Named, NameIsFree
  <2>2. IsFiniteSet(DOMAIN nameOf \cup {n}) BY FS_AddElement DEF HardwareTypeOK
  <2>3. HardwareTypeOK' BY <1>1, <2>1, <2>2 DEF HardwareTypeOK
  <2>4. KernelInv' BY <1>1, <2>1 DEF KernelInv
  <2>5. EntriesInv' BY <1>1, <1>2, <2>1, EntriesKept DEF HardwareTypeOK
  <2> QED BY <2>3, <2>4, <2>5
<1>4. CASE Removed(n)
  <2>1. /\ nameOf' = [m \in DOMAIN nameOf \ {n} |-> nameOf[m]]
        /\ UNCHANGED <<driver, lastHad>>
    BY <1>4 DEF Removed
  <2>2. IsFiniteSet(DOMAIN nameOf \ {n}) BY FS_RemoveElement DEF HardwareTypeOK
  <2>3. HardwareTypeOK' BY <1>1, <2>1, <2>2 DEF HardwareTypeOK
  <2>4. KernelInv' BY <1>1, <2>1 DEF KernelInv
  <2>5. EntriesInv' BY <1>1, <1>2, <2>1, EntriesKept DEF HardwareTypeOK
  <2> QED BY <2>3, <2>4, <2>5
<1>5. ASSUME NEW d \in Drivers \cup {Unbound}, Bound(n, d) PROVE HardwareInv'
  <2>1. /\ driver' = [driver EXCEPT ![n] = d] /\ nameOf' = nameOf
        /\ lastHad' = IF d = Unbound THEN lastHad ELSE [lastHad EXCEPT ![n][d] = probings]
    BY <1>5 DEF Bound
  <2>2. /\ lastHad' \in [Nics -> [Drivers -> {Never} \cup Nat]]
        /\ \A m \in Nics : \A e \in Drivers :
              lastHad'[m][e] = IF d # Unbound /\ m = n /\ e = d THEN probings
                               ELSE lastHad[m][e]
    <3>1. CASE d = Unbound BY <2>1, <3>1 DEF HardwareTypeOK
    <3>2. CASE d # Unbound BY <2>1, <3>2 DEF HardwareTypeOK
    <3> QED BY <3>1, <3>2
  <2>3. driver' \in [Nics -> Bindings] BY <2>1 DEF HardwareTypeOK, Bindings
  <2>4. HardwareTypeOK' BY <1>1, <2>1, <2>2, <2>3 DEF HardwareTypeOK
  <2>5. \A m \in Nics : driver'[m] = IF m = n THEN d ELSE driver[m]
    BY <2>1 DEF HardwareTypeOK
  <2>6. \A m \in Nics : driver'[m] # Unbound => lastHad'[m][driver'[m]] = probings
    <3> SUFFICES ASSUME NEW m \in Nics, driver'[m] # Unbound
                 PROVE  lastHad'[m][driver'[m]] = probings
      OBVIOUS
    <3>1. CASE m = n BY <2>2, <2>5, <3>1
    <3>2. CASE m # n
      <4>1. driver[m] \in Drivers /\ driver'[m] = driver[m] /\ driver[m] # Unbound
        BY <2>5, <3>2 DEF HardwareTypeOK, Bindings
      <4> QED BY <2>2, <3>2, <4>1 DEF KernelInv
    <3> QED BY <3>1, <3>2
  <2>7. \A m \in Nics : \A e \in Drivers : lastHad'[m][e] <= probings
    BY <1>2, <2>2 DEF KernelInv
  <2>8. KernelInv' BY <1>1, <2>1, <2>6, <2>7 DEF KernelInv
  <2>9. EntriesInv' BY <1>1, <1>2, <2>2, EntriesKept DEF HardwareTypeOK
  <2> QED BY <2>4, <2>8, <2>9
<1> QED BY <1>3, <1>4, <1>5

\* The snapshot of a refresh, at which the drivers that are bound are had.
LEMMA SnapshotStep == ASSUME HardwareInv, Snapshot PROVE HardwareInv'
<1> USE DEF HardwareInv
<1>1. /\ fresh' /\ probings' = probings + 1 /\ found' \in {nameOf, NoNics}
      /\ lastHad' = [n \in Nics |-> [d \in Drivers |->
                        IF d = driver[n] THEN probings' ELSE lastHad[n][d]]]
      /\ UNCHANGED <<backed, nameOf, driver, hardware, misread>>
  BY DEF Snapshot
<1>2. probings \in Nat /\ probings' \in Nat /\ probings' >= probings
  BY <1>1 DEF HardwareTypeOK
<1>3. /\ DOMAIN found' \subseteq Nics /\ found' \in [DOMAIN found' -> NicNames]
      /\ IsFiniteSet(DOMAIN found')
  BY <1>1, FS_EmptySet DEF HardwareTypeOK, NoNics
<1>4. \A n \in Nics : \A d \in Drivers :
        lastHad'[n][d] = IF d = driver[n] THEN probings' ELSE lastHad[n][d]
  BY <1>1
<1>5. lastHad' \in [Nics -> [Drivers -> {Never} \cup Nat]]
  BY <1>1, <1>2 DEF HardwareTypeOK
<1>6. fresh' = TRUE BY DEF Snapshot
<1>7. HardwareTypeOK' BY <1>1, <1>2, <1>3, <1>5, <1>6 DEF HardwareTypeOK
<1>8. \A n \in Nics : driver[n] # Unbound => lastHad'[n][driver[n]] = probings'
  BY <1>4 DEF HardwareTypeOK, Bindings
<1>9. \A n \in Nics : \A d \in Drivers : lastHad'[n][d] <= probings'
  <2> SUFFICES ASSUME NEW n \in Nics, NEW d \in Drivers PROVE lastHad'[n][d] <= probings'
    OBVIOUS
  <2>1. lastHad[n][d] \in {Never} \cup Nat /\ lastHad[n][d] <= probings
    BY DEF HardwareTypeOK, KernelInv
  <2> QED BY <1>1, <1>2, <1>4, <2>1 DEF Never
<1>10. KernelInv' BY <1>1, <1>8, <1>9 DEF KernelInv
<1>11. EntriesInv' BY <1>1, <1>2, <1>4, <1>5, EntriesKept
<1> QED BY <1>7, <1>10, <1>11

\* The update: every interface of the snapshot is looked at, the others are marked, and
\* those that are gone make room.
LEMMA UpdateHardwareStep == ASSUME HardwareInv, UpdateHardware PROVE HardwareInv'
<1> USE DEF HardwareInv
<1>1. PICK reads \in [DOMAIN found -> UNION {Probe(found[n]) : n \in DOMAIN found}] :
        /\ \A n \in DOMAIN found : reads[n] \in Probe(found[n])
        /\ LET all == [n \in DOMAIN found \cup DOMAIN hardware |->
                         IF n \in DOMAIN found THEN Looked(n, reads[n])
                         ELSE [hardware[n] EXCEPT !.present = FALSE]]
           IN \E kept \in Kept(all) : hardware' = [n \in kept |-> all[n]]
        /\ misread' = {n \in DOMAIN hardware' :
                      IF n \in DOMAIN found /\ NeedsProbe(n) /\ reads[n].ok
                      THEN \/ n \notin DOMAIN nameOf \/ nameOf[n] # found[n]
                           \/ n \in misread /\ reads[n].denied
                      ELSE n \in misread}
  BY Zenon DEF UpdateHardware
<1> DEFINE all == [n \in DOMAIN found \cup DOMAIN hardware |->
                     IF n \in DOMAIN found THEN Looked(n, reads[n])
                     ELSE [hardware[n] EXCEPT !.present = FALSE]]
<1>2. PICK kept \in Kept(all) : hardware' = [n \in kept |-> all[n]] BY <1>1
<1>3. /\ fresh' = FALSE /\ UNCHANGED <<backed, nameOf, driver, found, probings, lastHad>>
  BY DEF UpdateHardware
<1>4. DOMAIN all = DOMAIN found \cup DOMAIN hardware /\ IsFiniteSet(DOMAIN all)
  BY FS_Union DEF HardwareTypeOK
<1>5. \A n \in DOMAIN found : reads[n] \in Answers BY <1>1, ProbeFacts
<1>6. \A n \in DOMAIN found :
        /\ all[n] = Looked(n, reads[n])
        /\ all[n] \in HardwareEntries /\ all[n].present
        /\ Shape(all[n]) /\ probings - all[n].lastProbe < Reread
  BY <1>5, LookedFields, LookedShape
<1>7. \A n \in DOMAIN hardware \ DOMAIN found :
        /\ all[n] = [hardware[n] EXCEPT !.present = FALSE]
        /\ all[n] \in HardwareEntries /\ ~all[n].present
        /\ all[n].device = hardware[n].device /\ all[n].deviceState = hardware[n].deviceState
        /\ all[n].driver = hardware[n].driver /\ all[n].driverState = hardware[n].driverState
        /\ all[n].lastProbe = hardware[n].lastProbe
  BY DEF HardwareTypeOK, HardwareEntries
<1> HIDE DEF all
<1>8. {n \in DOMAIN all : all[n].present} = DOMAIN found BY <1>4, <1>6, <1>7
<1>9. /\ kept \subseteq DOMAIN all /\ IsFiniteSet(kept) /\ DOMAIN found \subseteq kept
      /\ Cardinality(kept) <= MaxNics \/ kept = DOMAIN found
  BY <1>2, <1>4, <1>8, KeptFacts
<1>10. DOMAIN hardware' = kept /\ \A n \in kept : hardware'[n] = all[n] BY <1>2
<1>11. HardwareTypeOK'
  <2>1. \A n \in kept : all[n] \in HardwareEntries BY <1>4, <1>6, <1>7, <1>9
  <2>2. hardware' \in [kept -> HardwareEntries] BY <1>2, <2>1
  <2>3. DOMAIN hardware' \subseteq Nics BY <1>4, <1>9, <1>10 DEF HardwareTypeOK
  <2> QED BY <1>3, <1>9, <1>10, <2>2, <2>3 DEF HardwareTypeOK
<1>12. KernelInv' BY <1>3 DEF KernelInv
<1>13. \A n \in kept : Shape(all[n])
  <2>1. \A n \in DOMAIN hardware \ DOMAIN found : Shape(all[n])
    BY <1>7 DEF Shape, EntriesInv
  <2> QED BY <1>4, <1>6, <1>9, <2>1
<1>14. ASSUME NEW n \in kept, n \notin misread' PROVE Own(n, all[n])
  <2>1. CASE n \in DOMAIN found
    <3>1. IF NeedsProbe(n) /\ reads[n].ok
          THEN n \in DOMAIN nameOf /\ nameOf[n] = found[n] /\ ~(n \in misread /\ reads[n].denied)
          ELSE n \notin misread
      BY <1>1, <1>10, <1>14, <2>1
    <3> QED BY <1>1, <1>6, <2>1, <3>1, LookedOwn
  <2>2. CASE n \notin DOMAIN found
    <3>1. n \in DOMAIN hardware \ DOMAIN found BY <1>4, <1>9, <2>2
    <3>2. n \notin misread BY <1>1, <1>10, <1>14, <2>2
    <3>3. Own(n, hardware[n]) BY <3>1, <3>2 DEF EntriesInv
    <3> QED BY <1>7, <3>1, <3>3 DEF Own
  <2> QED BY <2>1, <2>2
<1>15. \A n \in kept : all[n].present => probings - all[n].lastProbe < Reread
  BY <1>6, <1>8, <1>9
<1>16. {n \in kept : all[n].present} = DOMAIN found BY <1>8, <1>9
<1>17. /\ \A n \in DOMAIN hardware' :
             /\ Shape(hardware'[n])
             /\ hardware'[n].present => probings - hardware'[n].lastProbe < Reread
             /\ n \notin misread' => Own(n, hardware'[n])
       /\ DOMAIN found = {n \in DOMAIN hardware' : hardware'[n].present}
       /\ Cardinality(DOMAIN hardware') <= MaxNics \/ DOMAIN hardware' = DOMAIN found
  BY <1>9, <1>10, <1>13, <1>14, <1>15, <1>16
<1>18. EntriesInv' BY <1>3, <1>17 DEF EntriesInv, Shape, Own
<1> QED BY <1>11, <1>12, <1>18

\* A driver shown as available is one the interface had within the last interval, nothing is
\* shown of an interface that it never had, and those that are gone are kept only while
\* there is room, unless a probe met a name that had changed hands.
THEOREM HardwareOfItsInterface == HardwareSpec => []HardwareIsItsOwn
<1>1. HardwareInit => HardwareInv
  <2> SUFFICES ASSUME HardwareInit PROVE HardwareInv OBVIOUS
  <2>1. /\ DOMAIN nameOf = {} /\ DOMAIN found = {} /\ DOMAIN hardware = {}
        /\ nameOf = NoNics /\ found = NoNics /\ hardware = NoNics
    BY DEF HardwareInit, NoNics
  <2>2. lastHad \in [Nics -> [Drivers -> {Never} \cup Nat]] BY DEF HardwareInit
  <2>3. HardwareTypeOK
    BY <2>1, <2>2, FS_EmptySet DEF HardwareInit, HardwareTypeOK, NoNics, Bindings
  <2>4. KernelInv
    <3>1. \A n \in Nics : \A d \in Drivers : lastHad[n][d] = IF d = driver[n] THEN 0 ELSE Never
      BY DEF HardwareInit
    <3>2. \A n \in Nics : driver[n] # Unbound => driver[n] \in Drivers
      BY <2>3 DEF HardwareTypeOK, Bindings
    <3> QED BY <2>1, <3>1, <3>2 DEF HardwareInit, KernelInv, Never
  <2>5. EntriesInv BY <2>1, FS_EmptySet DEF EntriesInv
  <2> QED BY <2>3, <2>4, <2>5 DEF HardwareInv
<1>2. HardwareInv /\ [HardwareNext]_hardwareVars => HardwareInv'
  <2>1. HardwareInv /\ UNCHANGED hardwareVars => HardwareInv'
    BY DEF hardwareVars, HardwareInv, HardwareTypeOK, KernelInv, EntriesInv, Shape, Own
  <2> QED BY <2>1, EventStep, SnapshotStep, UpdateHardwareStep DEF HardwareNext
<1>3. HardwareInv => HardwareIsItsOwn
  <2> SUFFICES ASSUME HardwareInv PROVE HardwareIsItsOwn OBVIOUS
  <2>1. ASSUME NEW n \in DOMAIN hardware \ misread
        PROVE  LET hw == hardware[n] IN
               /\ hw.deviceState \in {Available, Stale} => n \in backed
               /\ hw.driverState = Available /\ hw.present /\ ~ fresh =>
                     probings - lastHad[n][hw.driver] < Reread
               /\ hw.driverState = Stale => lastHad[n][hw.driver] # Never
    <3> DEFINE hw == hardware[n]
    <3>1. hw \in HardwareEntries /\ n \in Nics /\ probings \in Nat
      BY DEF HardwareInv, HardwareTypeOK
    <3>2. Shape(hw) /\ Own(n, hw) BY DEF HardwareInv, EntriesInv
    <3>3. ~fresh /\ hw.present => probings - hw.lastProbe < Reread
      BY DEF HardwareInv, EntriesInv
    <3>4. hw.lastProbe \in Nat /\ hw.driver \in Bindings BY <3>1 DEF HardwareEntries
    <3> HIDE DEF hw
    <3>5. hw.deviceState \in {Available, Stale} => n \in backed BY <3>2 DEF Shape, Own
    <3>6. hw.driverState = Stale => lastHad[n][hw.driver] # Never BY <3>2 DEF Shape, Own
    <3>7. ASSUME hw.driverState = Available, hw.present, ~fresh
          PROVE  probings - lastHad[n][hw.driver] < Reread
      <4>1. hw.driver \in Drivers BY <3>2, <3>4, <3>7 DEF Shape, Bindings
      <4>2. lastHad[n][hw.driver] \in {Never} \cup Nat
        BY <3>1, <4>1 DEF HardwareInv, HardwareTypeOK
      <4>3. lastHad[n][hw.driver] >= hw.lastProbe BY <3>2, <3>7 DEF Own
      <4>4. probings - hw.lastProbe < Reread BY <3>3, <3>7
      <4> QED BY <3>1, <3>4, <4>2, <4>3, <4>4, HardwareConstants DEF Never
    <3> QED BY <3>5, <3>6, <3>7 DEF hw
  <2> QED BY <2>1 DEF HardwareIsItsOwn, HardwareInv, EntriesInv
<1> QED BY <1>1, <1>2, <1>3, PTL DEF HardwareSpec
=============================================================================
