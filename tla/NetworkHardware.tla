--------------------------- MODULE NetworkHardware --------------------------
(***************************************************************************)
(* NetworkInterfaceHardwareMonitor (network_interface_hardware.cpp): the   *)
(* device and the driver behind every interface, fed once per refresh from *)
(* the snapshot of the interfaces.  What is probed is kept for a while; a  *)
(* probe goes by the interface's name, after the snapshot was taken, and   *)
(* may be refused.  Drivers are bound and unbound, and interfaces renamed, *)
(* removed and brought back meanwhile.                                     *)
(***************************************************************************)
EXTENDS Integers, FiniteSets

CONSTANTS
    Nics,            \* identities of interfaces
    NicNames,
    Drivers,
    Reread,          \* kNetworkHardwareRereadInterval, in refreshes
    MaxNics,         \* kMaxTrackedHardwareInterfaces
    MaxProbings,     \* bound: refreshes
    MaxEvents        \* bound: what happens to the interfaces

ASSUME HardwareConstants ==
    /\ Reread \in Nat \ {0} /\ MaxNics \in Nat \ {0} /\ MaxProbings \in Nat /\ MaxEvents \in Nat

VARIABLES
    backed,      \* external: the interfaces that have a device
    nameOf,      \* external: the names of the interfaces that are there
    driver,      \* external: the driver bound to the device of each
    found,       \* the snapshot: names
    fresh,       \* the snapshot has not been given to the monitor
    hardware,    \* tracked_
    probings,    \* refreshes so far, the clock
    happened,    \* events so far
    lastHad,     \* ghost: when each interface had each driver last
    misread        \* ghost: interfaces with what a probe under a name they had lost found

hardwareVars ==
    <<backed, nameOf, driver, found, fresh, hardware, probings, happened, lastHad, misread>>

Unbound == "none"
Never == -1
NoNics == [n \in {} |-> 0]

HardwareInit ==
    /\ backed \in SUBSET Nics /\ nameOf = NoNics
    /\ driver \in [Nics -> Drivers \cup {Unbound}]
    /\ \A n \in Nics \ backed : driver[n] = Unbound
    /\ found = NoNics /\ fresh = FALSE /\ hardware = NoNics
    /\ probings = 0 /\ happened = 0
    /\ lastHad = [n \in Nics |-> [d \in Drivers |-> IF d = driver[n] THEN 0 ELSE Never]]
    /\ misread = {}

-----------------------------------------------------------------------------
(* The kernel.                                                             *)

Happening ==
    /\ happened < MaxEvents /\ happened' = happened + 1
    /\ UNCHANGED <<backed, found, fresh, hardware, probings, misread>>

NameIsFree(name) == \A n \in DOMAIN nameOf : nameOf[n] # name

\* It appears, comes back, or is renamed.
Named(n, name) ==
    /\ NameIsFree(name)
    /\ nameOf' = [m \in DOMAIN nameOf \cup {n} |-> IF m = n THEN name ELSE nameOf[m]]
    /\ Happening /\ UNCHANGED <<driver, lastHad>>

Removed(n) ==
    /\ n \in DOMAIN nameOf
    /\ nameOf' = [m \in DOMAIN nameOf \ {n} |-> nameOf[m]]
    /\ Happening /\ UNCHANGED <<driver, lastHad>>

Bound(n, d) ==
    /\ n \in backed /\ d # driver[n]
    /\ driver' = [driver EXCEPT ![n] = d]
    /\ lastHad' = IF d = Unbound THEN lastHad ELSE [lastHad EXCEPT ![n][d] = probings]
    /\ Happening /\ UNCHANGED nameOf

-----------------------------------------------------------------------------
(* readNetworkInterfaceHardware                                            *)

\* The device could not be resolved, was not there, or has a driver that is bound, not bound
\* or may not be looked at.
Refused == [ok |-> FALSE, device |-> FALSE, denied |-> TRUE, driver |-> Unbound]
NoDevice == [ok |-> TRUE, device |-> FALSE, denied |-> FALSE, driver |-> Unbound]
Denied == [ok |-> TRUE, device |-> TRUE, denied |-> TRUE, driver |-> Unbound]
Driven(d) == [ok |-> TRUE, device |-> TRUE, denied |-> FALSE, driver |-> d]

\* What the interface that has the name by now answers.
Probe(name) ==
    {Refused} \cup
    IF \E n \in DOMAIN nameOf \cap backed : nameOf[n] = name
    THEN LET n == CHOOSE m \in DOMAIN nameOf : nameOf[m] = name IN {Denied, Driven(driver[n])}
    ELSE {NoDevice}

-----------------------------------------------------------------------------
(* updateNetworkInterfaceHardware.  A device is known by its being there.  *)

Unknown == "unknown"
Available == "available"
Stale == "stale"
Unavailable == "unavailable"

NewHardware(n) ==
    [name |-> "", present |-> TRUE, device |-> FALSE, deviceState |-> Unknown,
     driver |-> Unbound, driverState |-> Unknown, readOk |-> FALSE,
     firstSeen |-> probings, lastProbe |-> probings]

\* A refused probe keeps the last good values.
Preserved(hw) ==
    [hw EXCEPT !.deviceState = IF hw.device THEN Stale ELSE Unavailable,
               !.driverState = IF hw.driver = Unbound THEN Unavailable ELSE Stale]

\* A driver that may not be looked at is kept, one that is not there is cleared.
NextDriver(hw, read) == IF read.denied THEN hw.driver ELSE read.driver

DriverState(read, kept) ==
    IF kept = Unbound THEN Unavailable ELSE IF read.denied THEN Stale ELSE Available

Probed(hw, read) ==
    LET kept == NextDriver(hw, read)
    IN [hw EXCEPT !.device = read.device,
                  !.deviceState = IF read.device THEN Available ELSE Unavailable,
                  !.driver = kept, !.driverState = DriverState(read, kept)]

-----------------------------------------------------------------------------
(* update()                                                                *)

\* A new identity, a new name, a probe that failed, or one too old.
ProbedOnce(n) == n \in DOMAIN hardware => hardware[n].name # found[n] \/ ~ hardware[n].readOk
NeedsProbe(n) ==
    n \in DOMAIN hardware =>
        \/ hardware[n].name # found[n]
        \/ ~ hardware[n].readOk
        \/ probings - hardware[n].lastProbe >= Reread

Looked(n, read) ==
    LET hw == IF n \in DOMAIN hardware THEN hardware[n] ELSE NewHardware(n)
        named == [hw EXCEPT !.name = found[n], !.present = TRUE, !.readOk = read.ok,
                            !.lastProbe = probings]
    IN IF ~ NeedsProbe(n) THEN [hw EXCEPT !.present = TRUE]
       ELSE IF read.ok THEN Probed(named, read) ELSE Preserved(named)

\* evictOverflow: the interfaces that are gone, the one seen first before the others.
Kept(entries) ==
    LET excess == Cardinality(DOMAIN entries) - MaxNics
        gone == {n \in DOMAIN entries : ~ entries[n].present}
        count == IF excess < 0 THEN 0 ELSE IF excess < Cardinality(gone) THEN excess ELSE Cardinality(gone)
    IN {DOMAIN entries \ out : out \in {s \in SUBSET gone :
            /\ Cardinality(s) = count
            /\ \A n \in s, m \in gone \ s : entries[n].firstSeen <= entries[m].firstSeen}}

\* A refresh takes the snapshot, of none when the listing failed, and feeds it.
Snapshot ==
    /\ ~ fresh /\ probings < MaxProbings
    /\ fresh' = TRUE /\ probings' = probings + 1
    /\ found' \in {nameOf, NoNics}
    /\ lastHad' = [n \in Nics |-> [d \in Drivers |->
                      IF d = driver[n] THEN probings' ELSE lastHad[n][d]]]
    /\ UNCHANGED <<backed, nameOf, driver, hardware, happened, misread>>

UpdateHardware ==
    /\ fresh /\ fresh' = FALSE
    /\ \E reads \in [DOMAIN found -> UNION {Probe(found[n]) : n \in DOMAIN found}] :
          /\ \A n \in DOMAIN found : reads[n] \in Probe(found[n])
          /\ LET all == [n \in DOMAIN found \cup DOMAIN hardware |->
                           IF n \in DOMAIN found THEN Looked(n, reads[n])
                           ELSE [hardware[n] EXCEPT !.present = FALSE]]
             IN \E kept \in Kept(all) : hardware' = [n \in kept |-> all[n]]
          /\ misread' = {n \in DOMAIN hardware' :
                        IF n \in DOMAIN found /\ NeedsProbe(n) /\ reads[n].ok
                        THEN \/ n \notin DOMAIN nameOf \/ nameOf[n] # found[n]
                             \/ n \in misread /\ reads[n].denied
                        ELSE n \in misread}
    /\ UNCHANGED <<backed, nameOf, driver, found, probings, happened, lastHad>>

HardwareNext ==
    \/ \E n \in Nics : \/ \E name \in NicNames : Named(n, name)
                       \/ \E d \in Drivers \cup {Unbound} : Bound(n, d)
                       \/ Removed(n)
    \/ Snapshot \/ UpdateHardware

HardwareSpec == HardwareInit /\ [][HardwareNext]_hardwareVars

-----------------------------------------------------------------------------
\* A driver shown as available is one the interface had within the last interval, though it
\* be renamed, removed and brought back; one shown as stale is one it had; and a device is
\* shown, stale or not, of no interface without one - unless its name changed hands between
\* the snapshot and the probe.  The interfaces of the snapshot all have an entry, and those
\* that are gone only while there is room.
HardwareIsItsOwn ==
    /\ ~ fresh =>
          /\ DOMAIN found = {n \in DOMAIN hardware : hardware[n].present}
          /\ Cardinality(DOMAIN hardware) <= MaxNics \/ DOMAIN hardware = DOMAIN found
    /\ \A n \in DOMAIN hardware \ misread :
          LET hw == hardware[n] IN
          /\ hw.deviceState \in {Available, Stale} => n \in backed
          /\ hw.driverState = Available /\ hw.present /\ ~ fresh =>
                probings - lastHad[n][hw.driver] < Reread
          /\ hw.driverState = Stale => lastHad[n][hw.driver] # Never
=============================================================================
