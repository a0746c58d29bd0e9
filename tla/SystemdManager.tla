---------------------------- MODULE SystemdManager ----------------------------
(***************************************************************************)
(* The list of services (systemd_manager.cpp) and the page that starts and *)
(* stops them (interactSystemdDetail).  The list comes from one D-Bus call *)
(* and is then completed by further calls, a unit at a time, while systemd *)
(* works on; any of the calls may fail.                                    *)
(***************************************************************************)
EXTENDS Naturals, Sequences, SequencesExt, Subsequences

CONSTANTS
    Services,      \* units whose name ends with .service
    OtherUnits,    \* units that are none
    MaxTurns       \* bound: changes of the units

ASSUME SystemdConstants ==
    /\ MaxTurns \in Nat /\ Services \cap OtherUnits = {}
    /\ IsFiniteSet(Services \cup OtherUnits)

VARIABLES
    loaded,        \* external: the units systemd knows, in the order it lists them
    unit,          \* external: active and enabled, of each unit
    enabledOnce,   \* ghost: what each unit's file has said since the list was made
    bus,           \* the connection: "none", "open", or "broken"
    services,      \* services: the entries
    unitPaths,     \* cached_unit_paths: beside them
    enriching,     \* the entry enrichServices is at; 0 when it is not running
    requested,     \* the page's confirmed operation, done by the call
    turns

systemdVars == <<loaded, unit, enabledOnce, bus, services, unitPaths, enriching,
                 requested, turns>>

Units == Services \cup OtherUnits
Listed(name) == [name |-> name, active |-> unit[name].active, file |-> "unknown"]
Now(name) == IF unit[name].enabled THEN "enabled" ELSE "disabled"

SystemdInit ==
    /\ loaded \in UNION {SetToSeqs(some) : some \in SUBSET Units}
    /\ unit = [name \in Units |-> [active |-> name \in ToSet(loaded), enabled |-> FALSE]]
    /\ enabledOnce = [name \in Units |-> {}]
    /\ bus \in {"none", "open"}
    /\ services = <<>> /\ unitPaths = <<>> /\ enriching = 0
    /\ requested = "" /\ turns = 0

-----------------------------------------------------------------------------
(* systemd.                                                                *)

UnitTurns ==
    /\ turns < MaxTurns /\ turns' = turns + 1
    /\ \E name \in Units, field \in {"active", "enabled"} :
          LET others == Picked(loaded, {k \in DOMAIN loaded : loaded[k] # name})
          IN /\ unit' = [unit EXCEPT ![name][field] = ~ @]
             /\ loaded' \in {loaded, others, <<name>> \o others}
    /\ enabledOnce' = [name \in Units |-> enabledOnce[name] \cup {Now(name)'}]
    /\ UNCHANGED <<bus, services, unitPaths, enriching, requested>>

BusBreaks ==
    /\ bus = "open" /\ bus' = "broken"
    /\ UNCHANGED <<loaded, unit, enabledOnce, services, unitPaths, enriching, requested,
                   turns>>

-----------------------------------------------------------------------------
(* systemd_manager.cpp                                                     *)

\* connect(), retried by every read until it has succeeded once; `available` is never
\* taken back, and a connection that broke stays.
Connect ==
    /\ bus = "none" /\ bus' = "open"
    /\ UNCHANGED <<loaded, unit, enabledOnce, services, unitPaths, enriching, requested,
                   turns>>

ServicesOf(units) == Picked(units, {k \in DOMAIN units : units[k] \in Services})
PathsOfAll(units) == units
\* The paths of what is passed over are not kept.
PathsOf(units) == ServicesOf(units)

\* listUnits(): what there is is dropped, and read anew as far as the answer is good.
ListUnits ==
    /\ bus = "open" /\ enriching = 0
    /\ \E read \in 0 .. Len(loaded) :
          LET units == SubSeq(loaded, 1, read)
              names == ServicesOf(units)
          IN /\ services' = [k \in 1 .. Len(names) |-> Listed(names[k])]
             /\ unitPaths' = PathsOf(units)
             /\ enriching' = IF names = <<>> THEN 0 ELSE 1
    /\ enabledOnce' = [name \in Units |-> {Now(name)}]
    /\ UNCHANGED <<loaded, unit, bus, requested, turns>>

\* enrichServices(), one unit: the state of its file, or nothing if the call fails.
EnrichServices ==
    /\ enriching # 0
    /\ \/ /\ bus = "open"
          /\ services' = [services EXCEPT ![enriching].file = Now(unitPaths[enriching])]
       \/ UNCHANGED services
    /\ enriching' = IF enriching = Len(services) THEN 0 ELSE enriching + 1
    /\ UNCHANGED <<loaded, unit, enabledOnce, bus, unitPaths, requested, turns>>

-----------------------------------------------------------------------------
(* The page: one confirmed operation on one name, listed or not.           *)

AsksForService(name) ==
    /\ enriching = 0 /\ requested = "" /\ requested' = name
    /\ UNCHANGED <<loaded, unit, enabledOnce, bus, services, unitPaths, enriching, turns>>

Declined ==
    /\ requested # "" /\ requested' = ""
    /\ UNCHANGED <<loaded, unit, enabledOnce, bus, services, unitPaths, enriching, turns>>

\* callManagerMethod, enableUnitFiles, disableUnitFiles: the job is queued, the page does
\* not wait for it and keeps its list.
Operates ==
    /\ requested # "" /\ requested' = ""
    /\ \/ UNCHANGED <<unit, enabledOnce>>      \* refused, failed, or not done yet
       \/ /\ bus = "open"
          /\ \E field \in {"active", "enabled"}, wish \in BOOLEAN :
                unit' = [unit EXCEPT ![requested][field] = wish]
          /\ enabledOnce' = [name \in Units |-> enabledOnce[name] \cup {Now(name)'}]
    /\ UNCHANGED <<loaded, bus, services, unitPaths, enriching, turns>>

SystemdNext ==
    \/ UnitTurns \/ BusBreaks
    \/ Connect \/ ListUnits \/ EnrichServices
    \/ (\E name \in Services : AsksForService(name)) \/ Declined \/ Operates

SystemdSpec == SystemdInit /\ [][SystemdNext]_systemdVars

-----------------------------------------------------------------------------
\* Every row is about one service: its file, if known, was what the row says at some time
\* since the list was made, although the list and the completion of its rows are separate
\* calls with two arrays between them and systemd works on; and no service has two rows.
RowsAreOfTheirService ==
    /\ IsInjective([k \in 1 .. Len(services) |-> services[k].name])
    /\ \A k \in 1 .. Len(services) :
          /\ services[k].name \in Services
          /\ services[k].file # "unknown" => services[k].file \in enabledOnce[services[k].name]
=============================================================================
