----------------------- MODULE MCNetworkTrafficAlert -----------------------
(* Rule lists and names for NetworkTrafficAlert: a rate of 10 violates, 9 is
   in the recovery band, 0 recovers. *)
EXTENDS NetworkTrafficAlert

CONSTANTS i1, i2

OneTarget == {i1}
TwoTargets == {i1, i2}
Eth == {"eth0"}
EthLan == {"eth0", "lan0"}
CalledEth == i1 :> "eth0"
CalledBoth == i1 :> "eth0" @@ i2 :> "lan0"

R(i, mode, hold, cooldown, repeat, enabled) ==
    [target |-> i, threshold |-> 10, mode |-> mode, hold |-> hold, notify |-> TRUE,
     cooldown |-> cooldown, repeat |-> repeat, severity |-> "Critical", enabled |-> enabled]

Quiet(rule) == [rule EXCEPT !.notify = FALSE, !.severity = "Warning"]

Sampled == R(i1, "Samples", 2, 2, TRUE, TRUE)
Lasting == R(i1, "Duration", 2, 0, FALSE, TRUE)

TwoTargetRules ==
    { << >>, <<Sampled, Quiet(R(i2, "Samples", 1, 0, TRUE, TRUE))>>,
      <<R(i2, "Duration", 1, 0, TRUE, TRUE), Lasting>>,
      <<R(i1, "Samples", 3, 3, TRUE, TRUE)>>, <<[Sampled EXCEPT !.enabled = FALSE]>> }
SampledOrNone == { << >>, <<Sampled>> }
SampledOnly == {<<Sampled>>}
Ticks == {1}
=============================================================================
