-------------------------- MODULE MCAlertPipeline --------------------------
(* A small instance of AlertPipeline: one fed subject, one rule subject. *)
EXTENDS AlertPipeline, TLC

Usual == [warning |-> 5, critical |-> 8, recovery |-> 3, enabled |-> TRUE]
Lowered == [warning |-> 2, critical |-> 5, recovery |-> 0, enabled |-> TRUE]
Off == [Usual EXCEPT !.enabled = FALSE]
Band == [Usual EXCEPT !.recovery = -1]
EveryConfig == {Usual, Lowered, Off, Band}
CpuOnly == ("cpu" :> "CpuUsage")
NoHardwareLimit == [s \in Subjects |-> 0]
UsualConfig == {Usual}
SevereOrAll == {{"Critical"}, Kinds}

\* Sessions whose bus could be opened at start.
ConnectedSpec == PipelineInit /\ bus = TRUE /\ [][PipelineNext]_pipelineVars
=============================================================================
