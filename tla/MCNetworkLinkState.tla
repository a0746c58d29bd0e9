------------------------- MODULE MCNetworkLinkState -------------------------
(***************************************************************************)
(* Small instances of the monitors that follow the links of the network    *)
(* interfaces.  They share no state: a behaviour is one of any of them,    *)
(* with the others in a first state.                                       *)
(***************************************************************************)
EXTENDS NetworkLinkState, NetworkWireless, NetworkLinkMetrics, NetworkHardware

CONSTANTS eth, wlan, idx2, idx3

Alike == Permutations({eth, wlan}) \cup Permutations({idx2, idx3})

L(o, c, a) == [oper |-> o, carrier |-> c, admin |-> a]

\* Up, waiting for authentication, and disabled.  A read torn by a disabling also shows what
\* an unplugged link shows: no carrier, not up, but enabled.
ThreeStates == {L("Up", "Carrier", "AdminUp"), L("Dormant", "Carrier", "AdminUp"),
                L("Down", "Unreadable", "AdminDown")}

OneAtATime == {{}, {eth}, {wlan}}

R(native, phy, carrier, files, table) ==
    [native |-> native, phy |-> phy, carrier |-> carrier, files |-> files, table |-> table]

\* Well connected, disconnected with the values in the table only, with nothing but the
\* directory to read, and no longer wireless.
FourReadings ==
    { R(TRUE, "there", "on", "signal" :> -30 @@ "quality" :> 40, NoValues),
      R(FALSE, "there", "off", NoValues, "signal" :> -90 @@ "noise" :> Invalid),
      R(TRUE, "denied", "hidden", NoValues, NoValues),
      R(FALSE, "none", "on", NoValues, NoValues) }

\* The next refresh, and the one after a page was open for long.
SoonOrLate == {[steady |-> 1, wall |-> 1], [steady |-> 4, wall |-> 4]}

P(physical, active, speed, duplex) ==
    [physical |-> physical, active |-> active, speed |-> speed, duplex |-> duplex]

\* Up at two speeds, up and down without one, down with what the driver remembers, and a
\* virtual link.
SixReports ==
    { P(TRUE, TRUE, 1000, "full"), P(TRUE, TRUE, 100, "half"), P(TRUE, TRUE, Nothing, "unknown"),
      P(TRUE, FALSE, Nothing, "unknown"), P(TRUE, FALSE, 100, "full"), P(FALSE, TRUE, 1000, "full") }

VARIABLE watched   \* the monitor whose behaviour this is

WatchedVars == <<vars, wirelessVars, metricsVars, hardwareVars, watched>>

WatchedInit ==
    /\ watched \in {"links", "wireless", "metrics", "hardware"}
    /\ Init /\ (watched # "links" => Existing = {})
    /\ WirelessInit
    /\ MetricsInit
    /\ HardwareInit /\ (watched # "hardware" => backed = {})

WatchedNext ==
    /\ \/ watched = "links" /\ Next /\ UNCHANGED <<wirelessVars, metricsVars, hardwareVars>>
       \/ watched = "wireless" /\ WirelessNext /\ UNCHANGED <<vars, metricsVars, hardwareVars>>
       \/ watched = "metrics" /\ MetricsNext /\ UNCHANGED <<vars, wirelessVars, hardwareVars>>
       \/ watched = "hardware" /\ HardwareNext /\ UNCHANGED <<vars, wirelessVars, metricsVars>>
    /\ UNCHANGED watched

WatchedSpec == WatchedInit /\ [][WatchedNext]_WatchedVars
=============================================================================
