------------------------------ MODULE MCTraffic ------------------------------
(***************************************************************************)
(* Small instances of the four modules that turn the kernel's counters of  *)
(* traffic into what is shown and exported.  They share no state: a        *)
(* behaviour is one of any of them, with the others in a first state.      *)
(***************************************************************************)
EXTENDS NetworkTrafficHistory, RateMonitors, LinkCounters, TrafficExport

Two == {1, 2}
None == {}
Rx == {"rx"}

VARIABLE watched   \* the module whose behaviour this is

TrafficVars == <<vars, rateVars, linkVars, exportVars, watched>>

TrafficInit ==
    /\ watched \in {"history", "monitors", "links", "export"}
    /\ Init /\ (watched # "history" => up = {})
    /\ RatesInit /\ (watched # "monitors" => monitored = "cpu" /\ counters = Nothing)
    /\ LinksInit /\ (watched # "links" => counting = "packets" /\ room = 1)
    /\ ExportInit /\ (watched # "export" => linked = {} /\ ahead = 0)

TrafficNext ==
    /\ \/ watched = "history" /\ Next /\ UNCHANGED <<rateVars, linkVars, exportVars>>
       \/ watched = "monitors" /\ RatesNext /\ UNCHANGED <<vars, linkVars, exportVars>>
       \/ watched = "links" /\ LinksNext /\ UNCHANGED <<vars, rateVars, exportVars>>
       \/ watched = "export" /\ ExportNext /\ UNCHANGED <<vars, rateVars, linkVars>>
    /\ UNCHANGED watched

TrafficSpec == TrafficInit /\ [][TrafficNext]_TrafficVars
=============================================================================
