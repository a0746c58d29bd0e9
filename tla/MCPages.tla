------------------------------- MODULE MCPages -------------------------------
(***************************************************************************)
(* Small instances of the main loop, of the pages that change something    *)
(* outside (settings, packages, start-up applications, services) and of    *)
(* the disk health monitor with two disk names.  They share no state: a    *)
(* behaviour is one of any of them, with the others in a first state.      *)
(***************************************************************************)
EXTENDS MCDiskHealth, MCSettingsPage, PackageTransaction, StartupManager, SystemdManager,
        MainLoop

NewAndOld == {"new", "old"}
NewForOld == {<<"new", "old">>}

\* Files as packages, desktops and users write them.
EditedFiles ==
    {Absent, PlainFile, [PlainFile EXCEPT !.hidden = TRUE], [PlainFile EXCEPT !.disabled = TRUE],
     [PlainFile EXCEPT !.shown = FALSE], [PlainFile EXCEPT !.application = FALSE],
     [PlainFile EXCEPT !.group = FALSE], [PlainFile EXCEPT !.repeated = TRUE],
     [PlainFile EXCEPT !.repeated = TRUE, !.hidden = TRUE],
     [PlainFile EXCEPT !.group = FALSE, !.application = FALSE]}

VARIABLE watched   \* the module whose behaviour this is

PageVars == <<vars, settingsVars, packageVars, startupVars, systemdVars, loopVars, watched>>

PageInit ==
    /\ watched \in {"disks", "settings", "packages", "startup", "services", "loop"}
    /\ Init /\ (watched # "disks" => \A n \in Names : slot[n] = None)
    /\ SettingsInit /\ (watched # "settings" =>
                          file = NoFile /\ entry = CHOOSE e \in EntryStates : TRUE)
    /\ PackagesInit /\ (watched # "packages" =>
                          /\ installed = [p \in Packages |-> 1]
                          /\ ~ supported /\ ~ root /\ pmHandle = Closed)
    /\ StartupInit /\ (watched # "startup" =>
                         \A place \in Places, id \in Apps : files[place][id] = Absent)
    /\ SystemdInit /\ IF watched = "services" THEN loaded = SetToSeq(Units)
                      ELSE loaded = <<>> /\ bus = "none"
    /\ LoopInit /\ (watched # "loop" => view = "list" /\ wanted = 1)

PageNext ==
    /\ \/ /\ watched = "disks" /\ Next
          /\ UNCHANGED <<settingsVars, packageVars, startupVars, systemdVars, loopVars>>
       \/ /\ watched = "settings" /\ SettingsNext
          /\ UNCHANGED <<vars, packageVars, startupVars, systemdVars, loopVars>>
       \/ /\ watched = "packages" /\ PackagesNext
          /\ UNCHANGED <<vars, settingsVars, startupVars, systemdVars, loopVars>>
       \/ /\ watched = "startup" /\ StartupNext
          /\ UNCHANGED <<vars, settingsVars, packageVars, systemdVars, loopVars>>
       \/ /\ watched = "services" /\ SystemdNext
          /\ UNCHANGED <<vars, settingsVars, packageVars, startupVars, loopVars>>
       \/ /\ watched = "loop" /\ LoopNext
          /\ UNCHANGED <<vars, settingsVars, packageVars, startupVars, systemdVars>>
    /\ UNCHANGED watched

PageSpec == PageInit /\ [][PageNext]_PageVars
=============================================================================
