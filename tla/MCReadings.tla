----------------------------- MODULE MCReadings ------------------------------
(***************************************************************************)
(* Small instances of what reads the processes and acts on them, and of    *)
(* what every refresh feeds: the history, the mounts and the alerts.  They *)
(* share no state: a behaviour is one of any of them, with the others in a *)
(* first state.                                                            *)
(***************************************************************************)
EXTENDS ProcessControl, ProcessMonitor, ProcessInspector, HistoryManager, FilesystemMonitor,
        MCAlertPipeline

ThreePids == {"1", "atm", "app"}
NiceValues == {0, 10}

\* A filesystem that counts more available than there is, and one too large to count.
Statistics == {[unit |-> 2, blocks |-> 1, free |-> 2, available |-> 9],
               [unit |-> 4, blocks |-> 3, free |-> 1, available |-> 0]}

VARIABLE watched   \* the module whose behaviour this is

ReadingVars == <<vars, processVars, inspectorVars, historyVars, mountVars, pipelineVars, watched>>

ReadingsInit ==
    /\ watched \in {"control", "monitor", "details", "history", "mounts", "alerts"}
    /\ Init /\ current = 0 /\ setting = [p \in Pids |-> 0]
            /\ (watched # "control" => gen = [p \in Pids |-> IF p \in Protected THEN 1 ELSE 0])
    /\ ProcessesInit
    /\ InspectorInit
    /\ (watched # "details" =>
          pid = (CHOOSE p \in Inspectable : TRUE) /\ \A p \in Inspectable : living[p] = 1)
    /\ HistoryInit /\ (watched # "history" => maxSamples = 1 /\ list = "cpus")
    /\ FilesystemsInit /\ (watched # "mounts" => ringSize = 1)
    /\ PipelineInit
    /\ (watched # "alerts" => thresholds = [t \in Types |-> Usual] /\ bus /\ daemon)

ReadingsNext ==
    /\ \/ /\ watched = "control" /\ Next
          /\ UNCHANGED <<processVars, inspectorVars, historyVars, mountVars, pipelineVars>>
       \/ /\ watched = "monitor" /\ ProcessesNext
          /\ UNCHANGED <<vars, inspectorVars, historyVars, mountVars, pipelineVars>>
       \/ /\ watched = "details" /\ InspectorNext
          /\ UNCHANGED <<vars, processVars, historyVars, mountVars, pipelineVars>>
       \/ /\ watched = "history" /\ HistoryNext
          /\ UNCHANGED <<vars, processVars, inspectorVars, mountVars, pipelineVars>>
       \/ /\ watched = "mounts" /\ FilesystemsNext
          /\ UNCHANGED <<vars, processVars, inspectorVars, historyVars, pipelineVars>>
       \/ /\ watched = "alerts" /\ PipelineNext
          /\ UNCHANGED <<vars, processVars, inspectorVars, historyVars, mountVars>>
    /\ UNCHANGED watched

ReadingsSpec == ReadingsInit /\ [][ReadingsNext]_ReadingVars
=============================================================================
