# Verification of arch-task-manager

TLA+ models of arch-task-manager, a terminal task manager for Arch Linux
(C++20), with TLC configurations that check them on small instances and proofs
checked by TLAPS. File names below are relative to the repository.

`tlc -config X.cfg M` checks a run; `tlapm M.tla` checks the proofs of a module
whose name ends in `Proofs`: `DeviceReadingsProofs`, `AlertPipelineProofs`,
`ProcessReadingsProofs`, `TrafficProofs`, `NetworkLinkStateProofs`,
`NetworkTrafficAlertProofs`, `PagesProofs` and the lemmas they share in
`SubsequencesProofs`. `PROJECT.json` lists the
runs, the lines every definition models, a mutant for every property, the
hazards, the findings and the theorems.

## 1. The system

One process. The *main thread* runs the loop of `src/main.cpp`: it waits for a
key for at most the refresh interval, refreshes the monitors, feeds the alert
manager and draws a page. A page may be left for a blocking prompt (renice,
kill, upgrade...), during which nothing is refreshed. One *worker thread*
belongs to the disk health monitor. Everything else the program deals with runs
outside: the kernel (processes, interfaces, disks), systemd and the
notification daemon over D-Bus, pacman's databases, the settings file.

| component | state | operations | what is hard | correct when |
|---|---|---|---|---|
| main loop (`main.cpp`) | the last readings, the view, the settings | sleep, command, refresh, frame, pages | the refresh is written three times, a page blocks the loop | a screen shows one refresh, everything is fed every refresh |
| disk health monitor (`disk_health`) | devices, cache, four flags, mutex, condition variable | `setDevices`, `requestRefresh`, `waitForIdle`, `refreshOne`, `results`, destructor; worker cycle | two threads; a disk pulled or swapped, the device list changed, while it is read | results are filed under the right disk, a success is not lost, every call returns |
| alert manager (`alert_manager`) | severity per subject, thresholds, bounded history | `update*`, `recordRuleEvent`, `clearSubject`, `reset`, threshold changes | hysteresis, thresholds changed while alerts are active, a history that forgets | history and active alerts agree; no flapping |
| notification manager (`notification_manager`) | settings, bus handle, last sent, ids | `notify`, `applySettings` | the daemon stops, a call times out, the user closes popups | one popup per source, one message per cooldown |
| traffic history (`network_traffic_history`) | baseline and series per interface, last tick, aggregate | `record`, `clearHistory`, `setHistoryMaxSamples` | counters that reset, interfaces that vanish, the cap on series | a rate is traffic of its window; memory is bounded |
| traffic alerts (`network_traffic_alert`) | rules, runtime state per identity, statuses | `evaluate`, `setRules` | durations, cooldowns, gaps, renamed or missing interfaces, rules edited during an episode | what is shown is what is going on; an episode is a breach |
| traffic export (`network_traffic_history_export`) | rings, selection, snapshot, two files | build, serialise, write | rings of different lengths, two clocks, a stop while writing | a row has its time, a file is whole |
| link state (`network_link_state`) | tracked interfaces, recent events | `update` | links that change while their files are read, failed reads, renames, eviction | warnings are about present interfaces and end; no false alarm |
| wireless (`network_wireless`) | per interface: values, samples, connection tracker, events | `update`, `setHistoryMaxSamples`, summaries | reads that fail, losses, pauses, eviction | events are confirmed, warnings follow events, grades follow the connection |
| link metrics (`network_link_metrics`) | speed and duplex per interface, with their state | `update`, `reset` | values that stop being reported | what is shown is the last report, marked when it is old |
| packet and link statistics (`network_packet_stats`, `network_link_stats`) | samples, baseline and events per interface | `update`, pause, reset, size | resets, renames between listing and reading, failed reads | a rate or total is of the link's own counter |
| rate monitors (`network_monitor`, `disk_monitor`, `advanced_cpu_monitor`) | previous counters, their time | `read` | resets, devices that come and go | no more than was moved, all of it if nothing happened |
| process list (`process_monitor`, `process_statistics`, `process_tree`) | ticks by pid, I/O by identity, identities of the last scan | `read`, `update`, `buildProcessTree` | pids reused between stat and io, and between scans | use is not overstated |
| process details (`process_details` and the section readers) | I/O baselines | inspect, redraw, back | files of one pid read one after another | a section is of one process, a rate is over its window |
| process control (`process_actions`, `process_scheduling`, `process_report`, menus of `main.cpp`) | the frozen list, the chosen pid, the captured identity | signal, renice, affinity, report | pids reused between list, prompt, check and system call | protected pids are spared; a change hits the process it was meant for |
| history (`history_manager`, `resource_history`) | fixed series, series per device | `update*`, `setMaxSamples` | devices found by position | a graph shows its own device |
| settings (`settings`, `settings_manager`, `app_autostart_manager`, settings page) | settings, dirty flag, file, temporary file, autostart entry | `load`, `save`, `updateSettings`, `resetToDefaults`, enable, disable, synchronize | a stop or a failure between truncation and rename, broken files | no half-written file, no forgotten change, entry and preference agree |
| packages (`package_manager`, `package_transaction`) | two libalpm handles, preview, state, recent results | refresh, `sync`, `resolve`, `cancel`, `commit` | other package managers between preview and commit | what is changed was confirmed |
| start-up (`startup_manager`) | the applications of three directories | refresh, enable, disable | packages and users edit the same files, writes are cut short | a choice lasts |
| services (`systemd_manager`) | list, paths beside it, connection | list, complete, start, stop, enable, disable | units change between the calls, calls fail | a row is of its service |
| filesystems (`filesystem_monitor`) | series per mount | `read`, `setHistoryMaxSamples` | mounts made, stacked and undone between the list and the figures, numbers used again | a graph is of one mount, within its size |
| interface hardware (`network_interface_hardware`) | device and driver per interface | `update` | cached answers, refused probes, renames | what is shown is the interface's own, or marked |
| parsers and views (memory, load, pressure, GPU, sensors) | none to speak of | read and draw | parsing | |

They interact by calls of the main thread: monitors are refreshed, their
measurements go to `AlertManager::update*`, whose sink calls
`NotificationManager::notify` in the same call; the traffic, link and wireless
monitors read the network monitor's snapshot and record their own verdicts
with `recordRuleEvent`. The settings page writes all of these through
`applySettingsToRuntime`. Only the disk health monitor shares memory between
threads; the package transaction and the settings manager hold a mutex but are
called by the main thread. Everything else that is concurrent is concurrency
with the outside: between any two reads, or a read and a write, of one refresh
or page, processes exit, devices leave, other programs edit the same files.

`hazards` in `PROJECT.json` lists, at its line, what is hard to test and which
properties would catch it going wrong.

## 2. Modules

| module | models | run | proofs |
|---|---|---|---|
| `RefreshService` | abstract: what the disk health monitor promises about refreshes | `disk_live` | refined by `DiskHealth` |
| `DiskHealth` | `DiskHealthMonitor`, its worker and its clients | `disk_live`, `pages` | `DeviceReadingsProofs` |
| `AlertManager`, `NotificationManager`, `AlertPipeline` | both managers, the daemon, and their composition through `onAlertEvent` and the rule sinks | `readings`, `alerts_reconnect` | `AlertPipelineProofs` |
| `ProcessControl` | the menus, checks and system calls on a process | `readings` | `ProcessReadingsProofs` |
| `ProcessMonitor` | the scan of `/proc`, CPU and I/O use, statistics, tree | `readings` | `ProcessReadingsProofs` |
| `ProcessInspector` | the details page and its seven checked sections | `readings` | `ProcessReadingsProofs` |
| `HistoryManager` | resource history and its sampling by the loop | `readings` | `ProcessReadingsProofs` |
| `FilesystemMonitor` | mounts, their figures and series | `readings` | `ProcessReadingsProofs` |
| `NetworkTrafficHistory` | `NetworkTrafficHistory`, the kernel's counters | `traffic` | `TrafficProofs` |
| `RateMonitors` | network, disk and CPU monitors | `traffic` | `TrafficProofs` |
| `LinkCounters` | packet and link statistics | `traffic` | `TrafficProofs` |
| `TrafficExport` | rings, two clocks, selection, rows, formats and the write of an export | `traffic`, `export_json` | `TrafficProofs` |
| `NetworkTrafficAlert` | `NetworkTrafficAlertMonitor` over the last tick | `rules`, `rules_missing`, `rules_renamed` | `NetworkTrafficAlertProofs` |
| `NetworkLinkState` | `NetworkLinkStateMonitor` and the reads of its snapshot | `link` | `NetworkLinkStateProofs` |
| `NetworkWireless` | `NetworkWirelessMonitor` and its summaries | `link`, `wireless_gone` | `NetworkLinkStateProofs` |
| `NetworkLinkMetrics` | `NetworkLinkMetricsMonitor` and what pages show of it | `link` | `NetworkLinkStateProofs` |
| `NetworkHardware` | `NetworkInterfaceHardwareMonitor` and its probes | `link` | `DeviceReadingsProofs` |
| `SettingsManager`, `AppAutostartManager`, `SettingsPage` | parsing, repair, save, the program's own desktop entry, and the page, start-up and stop around them | `pages`, `settings_exit` | `PagesProofs` |
| `PackageTransaction` | package manager, transaction and upgrade page | `pages` | `PagesProofs` |
| `StartupManager` | start-up applications and their page | `pages` | `PagesProofs` |
| `SystemdManager` | the list of services and its page | `pages` | `PagesProofs` |
| `MainLoop` | the loop, its three refreshes, commands and frames | `pages` | `PagesProofs` |
| `Subsequences` | the entries of a sequence that a loop keeps (`SettingsManager`, `SystemdManager`, `LinkCounters`, `TrafficExport`) | `pages`, `traffic` | `SubsequencesProofs` |

The `MC*` modules give values to constants. `MCReadings`, `MCTraffic`, `MCPages` and
`MCNetworkLinkState` put modules side by side that share no state: the variable
`watched` says which one moves, the others stay in one of their initial states,
so the states of such a run are the sum and not the product of its parts.
Components that do interact are composed in modules of their own
(`AlertPipeline`, `SettingsPage`) or modelled together. Modules with proofs use no
`RECURSIVE` operator.

### DiskHealth (`disk_live`, `pages`)

A critical section of `mutex_` is one action; the worker's program counter
marks the places where the mutex is free: the top of the loop, before a disk's
identity is taken, during the read, before the store. `slot` is the disk behind
a kernel name; `Replug` changes it at any time, and `moved` bounds how often
during one read (`MaxMoves`). A read may end in success or in any category of
`Failures`; its content is the disk it came from, which is all the properties
tell apart. The condition variable is its wait set: `NotifyAll` empties it, a
waiter whose predicate is false goes back. `SetDevices`, `RequestRefresh`,
`WaitForIdle` and `Destroy` are client calls from any thread.

- `disk_live`: one name, two disks with different identities. A successful entry
  is of the disk it names (`SuccessIsOfItsDisk`); a failure neither hides nor
  overwrites the last success (`LastSuccessKept`); the monitor implements
  `RefreshService` with its fairness (`ServesRefreshes`); `waitForIdle` and the
  destructor return (`WaitsReturn`).
- `pages`: two names and a device list that changes under a running cycle. The
  cache follows the list (`CacheFollowsDevices`, which excepts a cycle that
  `setDevices` overtook), a forced cycle reads every disk
  (`ForcedCycleReadsAll`).

### AlertManager, NotificationManager, AlertPipeline (`readings`, `alerts_reconnect`)

All of it runs in calls of the main thread, so an operation is one step. A
subject is a (type, source) pair; `Values` are measurements around the
thresholds of the four configurations. A negative recovery threshold means "no
band" as in the code. The daemon's side (`popups`, `live`, `heard`) is external;
a call may be answered, fail, or time out after the popup was displayed.
`CooldownElapses` ends a cooldown at any moment. `AlertManager::reset` has no caller
and is no action.

- `readings`: the history never contradicts the active list and every recovery
  follows an alert of its subject (`ActiveMatchesHistory`), under overflow, silent
  clears and configurations swapped at any time; an alert and its
  recovery are more than the band apart (`HysteresisSeparates`); a source has one
  popup (`OnePopupPerSource`) and is heard once per cooldown (`OncePerCooldown`).
- `alerts_reconnect` (finding): after one call that failed or timed out no later
  notification reaches a daemon that answers. The trace: the user wants severe
  events, a rule's event times out after the daemon showed it, and the next
  event, of the CPU, is not sent although no cooldown runs.

### ProcessControl (`readings`)

The console's program counter goes through list, menu, prompts, confirmation,
checks and the system call of both pages; between any two steps a process may
exit and its pid be reused (`gen`, a process's start time). Nice value and CPU
affinity are handled alike by the code, one `setting` stands for either. Pid 1
and the program are never touched (`ProtectedUntouched`); a scheduling change
reaches the process whose identity was captured, but for the window between
the last check and the system call, which `raced` marks (`ChangeHitsCaptured`); a
report called complete holds one process's data (`CompleteReportOfOne`).

### ProcessMonitor, ProcessInspector, HistoryManager, FilesystemMonitor (`readings`)

`ProcessMonitor`: a scan takes the total of `/proc/stat`, then of each pid first
stat (`ReadStatOf`) and then io (`ReadIoOf`), while processes fork, work, exit and
pids are reused. CPU ticks are compared by pid, I/O by pid and start time, as
in the code; `done` counts what all holders of a pid did, and a use shown is
never more than that (`UseIsReal`): the CPU of a new process may be charged
with that of its predecessor, but never with more than what was used.
`EndScan` includes the aggregator's update and the tree.

`ProcessInspector`: stat, counters, then each of `Sections` with a check of the
identity before (`GateBefore`), its reads, and a check after (`GateAfter`). What a
file contains is the process it was read from, so data shown must be of
`start` only (`SectionsOfInspected`). One time is kept for all I/O baselines; a
page that is left forgets its baseline, or a rate would be divided by another
page's time (`RateOverItsWindow`).

`HistoryManager`: a sample is the refresh, and the device, it is from. Series of
devices are found by position, so any difference in the list makes new ones
(`SamplesOfTheirDevice`). CPUs without a sample are not handed over, GPUs are
with an unknown value; sensors are treated as GPUs are.

`FilesystemMonitor`: the kernel's mounts have the lowest free number, a path and, in
the model only, a serial. `ReadMountInfo` lists them; `RecordHistory` asks `statvfs`
for each path, which may answer for another filesystem by then, computes the
figures (`Capacity`, with multiplication that overflows at `Bytes`), samples and
prunes. A series holds samples of one mount and none beyond the whole
(`SeriesFollowMounts`), except `reborn` ones: a number and a path given to another
mount between two refreshes are one identity to the code.

### NetworkTrafficHistory (`traffic`)

`passed` counts what an interface's counters have really seen, `epoch` the
value at their last reset, so a counter reads `passed - epoch`. `Record` is
`record()`: rates against the baselines, then series, pruning, aggregate.
`EntryComesOrGoes` removes an interface from `/proc/net/dev`. A rate is the
traffic of the window (the division by its length is the same for all);
windows too short to divide by are not modelled, and pausing is `Record` not
being taken. `RatesAreOfTheWindow` excepts `beyond`, the interfaces last recorded
above the cap on series, whose baseline outlives their absence (section 6).

### RateMonitors, LinkCounters, TrafficExport (`traffic`, `export_json`)

`RateMonitors` is one machine for three monitors; `monitored` selects how a pair of
readings becomes a rate, in arithmetic modulo `Word`. A rate is at most what
the device moved, whatever came and went, and exactly that for a device that
was there all the time (`RatesAreTraffic`).

`LinkCounters` is one machine for two monitors (`counting`). The snapshot fixes names;
the files are read under those names afterwards, when another link may have
the name, and each read may fail. `CountsOfTheLink` says that no rate and no
window total exceeds what the link counted, as long as the files were its own.

`TrafficExport` follows two series, of one interface (`Single`) and of all, as `record()`
and `pruneHistory()` keep them: a total with every refresh, a rate where the
counter did not go back, nothing of an interface that is gone, and the series of
an interface that returns begins anew. Samples are of the steady clock, `updated` is of
the wall clock, and `WallClockMoves` parts the two (a suspend, a time set) between
refreshes. A selection whose series is gone falls back to all (`Identity`), and of
all the other monitors know nothing; without content the page says so and there
is no export (`Opens`). The rings are merged into rows and written. The rows are in
order, each has the wall clock's time of its sample unless that clock has moved
against the steady one since, the window total of one interface is not more
than what it transferred, and a stop at any step leaves the destination whole or
as it was (`ExportIsTrue`). What the other monitors know of an interface that is
there is a free choice from `Known`. `export_json` (finding): for an interface that
is there, has been refreshed and is selected, two parts of the JSON document are
not valid JSON.

### NetworkTrafficAlert (`rules`, `rules_missing`, `rules_renamed`)

`Refresh` is one turn of the main loop: the snapshot (interfaces come and go, a
rate may be missing), `record()`'s update of the last tick, and `evaluate()`
over all rules. `SetRules` is the settings page. Times are ages, kept up to
`MaxAge`, which is at least every duration and cooldown used. That the history may be
paused (`network_traffic_history.cpp:187`) is left out: nothing in the program does.

- `rules`: two interfaces, rules of both modes, rule lists swapped in an
  episode. The dashboard shows exactly the episodes (`DashboardShowsEpisodes`);
  under a Samples rule one begins only after enough measured violations in a row,
  it ends only below the recovery floor unless the rules are edited, and repeats
  keep their cooldown (`EpisodesAreMeasured`); under fairness a lasting breach is raised and a lasting quiet cleared
  (`EpisodesFollowRates`).
- `rules_missing` (finding): the stale rate of an interface that is gone counts
  as another sample and confirms an alert.
- `rules_renamed` (finding): an interface renamed in an episode leaves an alert
  that outlives its rule.

### NetworkLinkState (`link`)

The snapshot is not atomic: `List` is the directory scan, and `ReadIndex`,
`ReadOper`, `ReadCarrier`, `ReadFlags` open one file each, by name, while the
kernel acts (`LinkChanges`, `Unplugged`, `Plugged`, `Renamed`). Each may fail. Then
`update()` takes the infos one by one, one action per branch, and
`FinishUpdate` finds what is gone, evicts entries and clears subjects. `age` and
`unread` count the refreshes since a device changed or a read of it failed; `mixed`
remembers that an unreadable or inconsistent state was stored in a warning.

A warning is about an interface that is there (`WarningOfPresent`); it ends when
the link is fully up again unless it was `mixed` (`WarningEnds`); an interface that
did not change and could be read is never reported, whatever the others do
(`NoFalseAlarm`); after a refresh the entries are those of the snapshot and the
rest is bounded by the cap (`EntriesFollowSnapshot`).

### NetworkWireless, NetworkLinkMetrics, NetworkHardware (`link`, `wireless_gone`)

`WirelessUpdate` is one `update()`: for every interface of the snapshot a reading
(directory, phy80211, carrier, values of the files or of the table), cached
where it was not read, one sample, one observation given to the connection
tracker; for the others the observation "gone"; then eviction and the
warnings. The reread interval and a rename are the free choice `due`. Times are
in units of `UnitSeconds`; `Steps` are the next refresh and one after a long pause, and
both clocks go on by the same: a suspend, which the steady clock does not count, is
not exercised.
Events are confirmed by two observations and follow from each other
(`EventsAreConfirmed`), warnings are those of the last events and end with their
interface (`WarningsFollowEvents`), the summary divides the time and grades it by
the connection (`GradesFollowConnection`). Roaming is left out, as no observation
names an access point. The code computes means, shares and the score in floating
point; the model in whole hundredths and decibels, rounded down, so a score that lies
within the rounding of a threshold may be graded one step beside the code's. `wireless_gone` (finding): an interface that vanishes is
observed as gone once, so its event is never confirmed.

`NetworkLinkMetrics`: `told` is the sequence of reports of an interface, and
`SpeedsAreReported` compares what pages show with the last usable report in it.

The interfaces of one wireless or metrics snapshot report alike: they only meet in
`evictOverflow`.

`NetworkHardware`: `Snapshot` fixes the names, `UpdateHardware` probes those that need
it (`NeedsProbe`) by name, while interfaces appear, leave, swap names and drivers
are bound and unbound. A probe may be refused, or the driver alone. `lastHad` is
when an interface last had a driver: one shown as available was there within
the interval, one shown as stale once, and neither was another interface's
(`HardwareIsItsOwn`), unless the name changed hands between snapshot and probe
(`misread`).

### SettingsManager, AppAutostartManager, SettingsPage (`pages`, `settings_exit`)

A settings record has one value of each kind: the autostart preference, a
switch, one category's levels (with NaN), the rules. Levels are counted in
hundred-thousandths of a percent, as `Serialized` writes them, and the thresholds of
rules, with six digits (`SixDigits`). Reading clamps each value,
`Fixed` repairs pairs and lists, `Valid` is `validate()`. A save is three steps
(truncate and fill the temporary file, flush, rename), each of which may fail
and be followed by a stop. Files are edited by hand while the program is down,
the desktop entry at any time. `UserContents` holds a missing, a broken, a
newer and two wrong files. `config.toml` is never half written, and settings not
marked dirty are those a restart would load, to the six digits a file keeps, or with
the defaults where two levels are the same in six digits (`CleanReloads`, section 6); entry and preference agree unless an operation failed or
somebody else changed the entry (`EntryFollowsPreference`). `settings_exit`
(finding): the program reads a good file, the notification key is pressed, the
program is stopped, and the file has the switch as it was.

### PackageTransaction, StartupManager, SystemdManager (`pages`)

`PackageTransaction`: a libalpm handle holds the databases as it loaded them;
`Plan` is what libalpm makes of them (external). Others may upgrade whenever
nobody holds the lock, also between the questions. A commit is two steps, one that
takes the lock and one that carries the plan out, all of it or a part, and gives the
lock back.
`OnlyConfirmedChanges`: packages change by what was shown and answered, with the
question about removals if there are any, and only while the program holds the
lock; and a result says what happened.

`StartupManager`: files in three directories shadow each other, but for those without a
group or of another `Type`, which the scan passes over (`Readable`). `Updated` sets the
first line of two keys and leaves the rest, `Type` among it, as it was; a write may
fail and leave what was there, a copy, or a file cut short anywhere (`CutShort`).
`ChoiceLasts`: an application disabled with the page stays disabled whatever packages
do to the system's files, until somebody edits the user's - if the program takes the
user's file for an entry and reads the lines it wrote (`Heeded`, section 6).

`SystemdManager`: `ListUnits` takes units from an answer that may break off;
`EnrichServices` completes one row per call from `unitPaths`, a second array.
`RowsAreOfTheirService`: the two arrays stay aligned.

### MainLoop (`pages`)

A reading is the number of the refresh it is from. The three copies of the
refresh (start-up, after the process page, end of the loop) are `LoopInit`, `Manage`
and `Tick`; `Assigned` lists what the second one assigns, `FedAtOnce` what it feeds: not the
histories of pressure and load. The start-up applications are handed out as their
manager last listed them, which is at the start or on their page (`listed`). If the
second one can read the memory and not the CPU, the new memory reading is kept
without a refresh. `ScreenAgrees`: what is shown, what is fed and the sizes of the
histories agree for every sequence of keys, but for what `Late` names; the histories of
pressure and load have a gap where the process page was left, and end with what is
shown of the two.

## 3. Bounds

Every bound is a constant.

| run | bounds | why they are enough |
|---|---|---|
| `disk_live` | `MaxMoves = 1`; one name, two disks, one client | two moves during one read show the code the first identity twice and cannot be noticed; the program has one client |
| `pages` | `MaxMoves = 0`; two names, one disk | names share only the list and the cycle; a disk changes between the reads here, during them in `disk_live` |
| `pages` | five file contents, two rule lists, one accepted pair of levels | every branch of load and repair, and two levels that are one in six digits; a save may be interrupted at each step any number of times |
| `pages` | two packages of which one replaces the other, `MaxVersion = 2`, `MaxChanges = 2`, `MaxRecent = 2` | upgrade, install and removal in one plan; another upgrade before, between or after the questions |
| `pages` | one application, `MaxEdits = 2`, ten kinds of files; two services and a mount, `MaxTurns = 1` | files of different applications do not meet; a unit that is passed over can precede and follow the others |
| `pages` | `MaxRefreshes = 4`, two sizes | each copy of the refresh before and after each other |
| `readings` | pid 1, the program, one other pid, `MaxBirths = 2`; two pids, `MaxForks = 2`, `MaxScans = 2`, `MaxWork = 1` | a pid changes hands once; a rate needs two scans, a tree two processes |
| `readings` | two inspected pids, `MaxRestarts = 2`, `MaxReadings = 3` | a pid changes hands at any read; a page, another one, and the first again |
| `readings` | lists of up to `MaxListed = 2` devices, capacities 1 and 2, `MaxRefreshes = 3` | every change of a list, overflow, a resize |
| `readings` | two paths, `MaxMounts = 3`, `MaxListings = 3`, `MaxSeriesKept = 1`, rings of 1 and 2, two answers | a mount over a mount, more mounts than series, a number used again; an answer that overflows and one with more available than there is |
| `readings` | `MaxHistory = 2`, one fed and one rule subject, `KindSets`: severe and all, none at first | overflow drops an event of a still active subject; subjects share only the history |
| `traffic` | `MaxSeries = 1`, `MaxSamples = 2`, `MaxTraffic = 2`, two interfaces, one metric | one interface more than the cap; every counter can reset and grow again |
| `traffic` | one device, `MaxCount = 2`, `Word = 8`, `MaxReads = 3` | devices do not meet; a counter goes back, comes to zero and grows between reads |
| `traffic` | two links, `MaxTracked = 1`, `MaxHappens = 2`, `MaxUpdates = 3`, rooms 1 and 2 | a rename onto a listed name, an eviction, a failed read between two good ones |
| `traffic`, `export_json` | two interfaces of which one is busy, `Retained = 2`, `MaxClock = 3`, `MaxBytes = 1`, `MaxTransferred = 2`, `Offsets` 0 and 1; in `traffic` CSV only and one set of records | rings overflow, and differ in length; a counter reset between two refreshes; the wall clock moves forward and back between any two samples; what is written does not depend on the format |
| `rules` | `MaxAge = 3`, `MaxEdits = 1`, two interfaces, five rule lists | an edit in any state of an episode; ages beyond every duration behave alike |
| `rules_missing`, `rules_renamed` | one interface, `MaxEdits` 0 and 2 | counterexamples |
| `link` | two names, two indices, three link states, `MaxTracked = 1`, `MaxChanges = 2`, `MaxFailures = 1` | two changes around one read tear it, and a change, a loss and a return fit; names are symmetric, and so are indices: nothing compares or orders them |
| `link` | one wireless interface at a time of two, four readings, `MaxFeeds = 5`, history of 3, two events, one radio; `MinValid` and `MinFactor` 2 instead of 5 and 3 | a confirmed loss and a confirmed return, an eviction, a gap; the minima are reached |
| `link` | two interfaces, six reports, `MaxCards = 1`, `MaxSnapshots = 4` | a speed, another kind of device or a silence, and an eviction |
| `link` | two interfaces and names, one driver, `Reread = 2`, `MaxNics = 1`, `MaxProbings = 3`, `MaxEvents = 3` | a probe, a cached answer and the next probe; a name that changes hands; an eviction |

In most modules a bound on refreshes, reads or changes ends every behaviour, so
these runs do not check deadlock; `disk_live` and `rules`, whose systems never stop,
do. The theorems hold for all values of the constants their modules admit
(`MaxMoves <= 1` of `DiskHealth` among them).

**Fairness.** `DiskHealth`: weak fairness of the worker's steps and of each
client's running call, as the scheduler runs a runnable thread and a provider's
read returns (it has a timeout). Nothing is assumed of clients' next calls or
of the disks. `NetworkTrafficAlert`: weak fairness of `Refresh`, as the loop turns
for ever; `beat` makes a refresh that changes nothing a step. Everything else
is safety only.

**Assumed of the outside.** libalpm loads a database when it is first asked for
and keeps it until the handle updates or commits; a CPU's ticks go on where
they were when it comes back; rename replaces a file at once; a start time
together with a pid names a process.

## 4. Proofs

A theorem holds for every value of the constants that the named `ASSUME` of its
modules allows, and under the hypotheses it states. Where the property alone is not
inductive, the invariant that is, and why it is needed, is named.

**DeviceReadingsProofs**. Of `DiskHealth` (`ConstantsAssumption`, `MovesAssumption`,
`SnapshotAssumption`: no snapshot is the value that stands for "none").
`TypeCorrect`; `BusyInvariant` (lemma: `refreshing_` is set whenever the worker is in
a cycle, needed because `requestRefresh` tests the flag, not the worker);
`CacheFollows` through `CycleInv`, which says of the cycle's copy of the list what
the property says of the cache; `SuccessLabelled` through `LabelInv`, which adds
what is known of the read under way: the identity taken before is that of the
disk then in the slot, and if the slot has not moved since, of the disk being
read. `ForcedReadsAll` through `OwedInv`: a request that is owed is pending or
carried out by the running cycle, and a disk not yet attempted is still before a
forced cycle. `LastSuccessStays` (an action property) through `EntryInv`: an entry
that has had a success shows it, so a failure can only change its error.
`ImplementsRefreshService`: every step is a step of `RefreshService` or a
stutter under the mapping in `DiskHealth`. Of `NetworkHardware`:
`HardwareOfItsInterface` through `HardwareInv`: what an entry holds was its
interface's when it was probed (`Own`), entries that are present were probed
within the interval, and what a device had when (`KernelInv`).

**AlertPipelineProofs**. `AlertTypes`; `ListsAgree`, `RecoveryAfterAlert` and
`HysteresisHolds` from one invariant `HistoryInv` over the newest event of each
subject: an event is recorded with every transition, and dropping the oldest
event cannot drop the newest of a subject and keep an older one. `OnePopup` and
`CooldownRespected` through `DesktopInv`: a popup on screen is `live`, and a live
popup's id is known unless the call that made it timed out, after which no
handle is left to send another with.

**TrafficProofs**. `RatesReportTraffic` through `CountInv`: a counter is never ahead of
its baseline by more than what moved, exactly by that for a device that was there
all the time, and a CPU's is never behind; the differences are then computed
modulo `Word`. Its hypothesis is that a disk's block is one sector: with others
the code multiplies by the wrong size (section 6). `CapHolds` through `SeriesInv`:
the newcomers of a refresh are those whose rank is below the room left, and
counting ranks bounds them for any interfaces and any cap. `NoSpike` through
`CountersInv` (counters never exceed what passed) and `BaselineInv` (the baseline of
an interface within the cap is never less than its counter at its last
`record()`). `CountsAreTheLinks` through `LinkInv`: what a link counted and its
counter no longer shows (`Lost`, the driver was loaded again) only grows from
sample to sample, also in the snapshot that waits for the monitor, so a
difference of two samples of the link's own counter is at most what it counted
between them; the total of a window adds up over the baselines it keeps, which are
samples in their order (`BaselinesFacts`). `ExportsAreTrue` through `ExportInv`: of
both series the newest sample is of the last update, and every sample carries where
the wall clock stood when it was taken (`Truthful`), so the row of the newest anchors
those taken with the wall clock where it stands there; what the counter of the single
interface forgot only grows along its ring, so a window in which the totals never go
down is not more than what was transferred (`TotalsOfOne`); the page holds what the
series held when it opened; and the temporary file is whole before it is renamed. An
aggregate's total is not bounded by the property, as a member's
bytes of before it joined count.

**ProcessReadingsProofs**. Of `ProcessControl`: `TypeCorrect`; `ProtectedSafe` through
`GateInv` (once an action is under way its target is not protected, on either page);
`ChangeIsOfCaptured` through `CapturedInv`; `ReportIsOfOne` through `ReadInv` (a start time
read now is that of the newest process of its pid, so equal start times before
and after mean that nobody else was there in between). Of `ProcessMonitor`:
`UseNotOverstated` through `UseInv`: since a reading, the work of the holder of a pid
grew by no more than the work of all its holders (`Within`), and that is kept by
the half-read entry, the snapshot and both sets of baselines, whoever had the pid
between. Of `ProcessInspector`: `SectionsAreOfInspected` and `RateIsOverItsWindow`
through `InspectorInv`: a start time in hand is at most the newest of its pid, so
while the pid's holder still has it every read so far was of it (`ReadsInv`); every
baseline is of the page's pid, and one not taken at the last reading is of a
process that had the pid before (`BaselinesInv`). Of `HistoryManager`:
`SamplesAreOfTheirDevice` through `HistoryInv`: a series is found by position, so
each one has only samples of the device its position was given to, for any lists,
sizes and refreshes. Of `FilesystemMonitor` (`FilesystemConstants`):
`SeriesOfTheirMounts` through `MountsInv`: no two mounts have one number (a free one
exists, `FreeIdFacts`, as more numbers than mounts are tried); every series outside
`reborn` is of one mount, and what is filed for a mount that is there or being read
is of that mount. While the mounts are sampled (`Sampling`), the series of those to
come end at the refresh before, so each gets one sample of this one; that is kept
by each round of the loop (`SampleKeepsSampling`) and so by all (`LoopKeeps`). That no
use is above 100 and nothing available above the whole follows from the clamps,
for any counts and unit (`OutcomesAreSane`).

**NetworkLinkStateProofs** (`LinkConstants`, `WirelessConstants`, `DebounceAssumption`,
`LinkMetricsConstants`). Of `NetworkLinkState`: `NamesInv`: no two names have one
index, a name is read once. `WarnInv` gives `WarningsArePresent` and `WarningsEnd`: a
warning is about a present entry whose state is either consistent and not up,
or mixed. `CalmInv` gives `NoAlarmWithoutChange`: for a device to which nothing happened
since the refresh began, what is listed, read so far, collected, stored is its
true state, so the comparison finds nothing; two refreshes are needed, the
first to store that state and the second to compare with it. `TakenInv` gives
`EntriesFollow`, with the cardinality of finite sets: when there are not more
entries than infos and each info has an entry, there is no other entry. Of
`NetworkWireless`: `EventsConfirmed` and `WarningsAreOfEvents` through `WirelessInv`, with
`RadioInv` of every interface: the candidate of a tracker is what the last update
saw (`TrackerInv`), so the update that confirms it is the second; the kept events follow
from each other and the confirmed state from the last of them, unless a state was
adopted silently since (`EventsInv`); an interface that is not wireless has nothing
to announce. `DebounceAssumption` (more than one observation confirms) is what the
code's constant is. `GradesAreOfConnection` through `QualityInv`: every sample kept is younger
than those before it and holds measures. The rest is about one summary of such
samples, for which three loops are unrolled into the values they pass through: sums
(`SummedFacts`) give that the times of the states divide the whole (`TimesFacts`); after
sample k the longest-run loop has the longest of the runs that have ended and the one
under way (`LongestUpto`, `UnderWay`, `LongestIsMax`); and the score is a weighted mean,
so between the least and the greatest of its factors (`MeanFacts`, `ScoreFacts`), of
which those of the connection outweigh whatever the signal says (`GradeFacts`). The
thresholds, the size of the history, the readings and the steps of time are any. Of
`NetworkLinkMetrics` (any finite set of interfaces):
`SpeedsReported` through `MetricsInv`: a field is of the last usable report since
the interface was physical, and current only if that is the last report of an
active link (`CardInv`); an eviction takes what is gone before what is present
(`PushedMakesRoom`).

**NetworkTrafficAlertProofs** (`TrafficAlertConstants`). `evaluate()` is a loop over the
rules. That a recursive function over 0..n exists and that what each round keeps
the loop keeps are the lemmas `LoopRuns` and `LoopKeeps` of `SubsequencesProofs`; the
other lemmas say what one rule makes of the state of its target (`Outcome`) and that
it touches no other. `DashboardIsOfEpisodes` through `ShownInv`: every confirmed
episode has its rule, its source is the name of its interface, and the alerts that
are active are those of the sources. Its hypothesis `NamesLast` (names differ and
stay) is what the finding `rules_renamed` is the counterexample without.
`EpisodesMeasured` (an action property) through `MeasuredInv`: what is remembered of
an identity is no more than was measured of it (`Tracked`), a confirmed episode
is of an interface the tick knows and its rule is enabled. Its hypothesis `Unbroken`
excludes the case of the finding `rules_missing` (an interface that vanishes for
good) and says that the unit of time is no shorter than a refresh and that the
bound on ages is not reached before a rule's duration.

**PagesProofs**. `ScreenIsOfOneRefresh` through `LoopInv`: what is held between two
turns is of the last refresh, but for the parts the second copy of the refresh
leaves out (`HeldInv`), everything is fed once per refresh but the two histories
that copy leaves out, and those end with what is held of pressure and load (`FedInv`).
`ChoicesLast` through `ChoiceInv`: a user's file that is heeded carries the last
choice, and a row of the page shows that file; for any files others may write.
`ChangesAreConfirmed` (an action property) through
`QuestionInv`: while the questions are asked the preview is the plan of the open
handle, so what others install meanwhile cannot change what is confirmed.
`CleanSettingsReload` through `StoreInv`: what is in memory is sound, that is, repaired
values are not changed by another repair (`FixedFacts`, `SoundSettingsReload`), and
the temporary file holds it, to its digits, when it is renamed: rounding a value
once more changes nothing (`SixDigitsFacts`). Any contents of the file, any
rules and any pairs of levels are allowed, NaN included (a number of its own,
`MaxLevel + 1`). `EntryAgrees` through `EntryInv`. `RowsAreRight` through
`RowsInv`: both arrays hold the same services in the same order at every moment of
the completion, for any finite set of units.

**SubsequencesProofs**. What a filtering loop keeps of a sequence: order, length,
distinctness (for `FixedRules` and the list of services), and the two lemmas on
loops, for `NetworkTrafficAlertProofs` and for the summaries of `NetworkWireless`.

Only model-checked, and why:

- everything under fairness (`ServesRefreshes`, `WaitsReturn`, `EpisodesFollowRates`):
  liveness is beyond this prover; of the refinement only the safety part is proved.

## 5. Plan

Done: every component that keeps state the program acts on has a module; of the
safety and action properties of the passing runs all are theorems. Next:
`DashboardShowsEpisodes` without `NamesLast`, with the exception the finding needs.

A run answers one question, or, where components share no state, one question
of each.

## 6. Observed, not run

Noted while the code was translated. The models behave the same way; the
properties except these cases, by name, where they touch them.

- Disk health: a device pruned by `setDevices` in mid-cycle is re-created by
  `results_[name]` (`disk_health.cpp:1048`; `disk_health.hpp:343,357` say otherwise); a
  replaced disk keeps its predecessor's last success while its own reads fail
  (`disk_health.hpp:320`).
- Alerts: a hardware limit below the recovery threshold makes the band empty;
  the alert of a disabled type stays active; an escalation within the cooldown
  is never announced; nothing calls `AlertManager::reset` or
  `NetworkLinkStateMonitor::reset`.
- Traffic: an interface above the cap keeps its baseline when it vanishes, and
  its next rate is of a longer window; Duration rules count time over gaps;
  "changed in the window" of an export is computed from the last two samples
  (`network_traffic_history.cpp:341`), and its operstate is 0 where it is unknown; a
  row from before the wall clock moved against the steady one has a time that clock
  did not show (`network_traffic_history_export.cpp:771-780`).
- Process: the identity is captured when an action is chosen, not when the
  process is; a signal reaches whoever has the pid by then (`README.md:904`); a
  report whose process is gone may mix two processes, and says that the process
  is gone. CPU ticks are kept by pid, so a new process may be charged with its
  predecessor's; processes that are each other's parents in one scan are not in
  the tree.
- Pages: after the process page a frame is drawn from a second variable `network`
  (`main.cpp:8342`) and the network page shows the one before it (`main.cpp:6387` says
  about a second old); after a failed refresh there the memory reading is empty or,
  where only the CPU could not be read, newer than the rest.
  The services page shows the list of the last refresh, also on [9]. The fixed
  series of the history keep the room they were made with.
- Packages: the list of updates is not renewed by an upgrade, as its handle keeps
  what it loaded; `cancel_requested` (`package_transaction.hpp:89`) is never read.
- Start-up: an application is chosen by its file name only, `.desktop` appended
  where it is missing (`main.cpp:6828`). A user's file whose `Type` is another, or was
  cut short by a failed write, is changed and said to be disabled
  (`startup_manager.cpp:332-407`), but the scan goes on passing it over (302-305), so
  the system's entry still starts; and where a key comes twice the first line is changed and
  the last one read. Services: once connected, the manager is never unavailable again.
- Settings: the `n` key is to be "saved on exit" (`main.cpp:8515`), but the main
  loop has no exit that saves; a file of a newer version is replaced by
  defaults at the next save (`settings_manager.cpp:249`), and so is one that
  could not be read; `nan` levels survive clamp and validation; doubles are
  written with six digits (`settings.cpp:477-483`), so levels of 94.99999 and 95 are
  saved as 95 and 95 and reload as the defaults 80 and 95 (402); nothing is synced, so the models cover stops of the
  program, not of the machine. Enabling the desktop entry checks and renames in
  one step of the model.
- Link state: a partial read counts as a lost link, so a device whose carrier
  or flags cannot be read, as during its removal, is announced, although
  `network_link_state.hpp` says a temporary read failure fires no alert; a read torn
  over an administrative change raises a warning that its return does not clear;
  a failed listing is the removal of every interface, and the next refresh
  announces that all are available again; a change that both loses and gains
  leaves the alert as it was.
- Filesystems: a mount that gets the number and the path of one undone since the
  last refresh continues its graph, although `filesystem_monitor.cpp:485` says that
  no sample goes to an unrelated mount. Hardware: a probe of which only the driver
  was refused counts as good and is not repeated at the next refresh.
- Packet statistics keep the oldest 32 MTU events (`network_packet_stats.hpp:40` says
  the most recent). Disks: sectors are multiplied by the logical block size,
  although the kernel counts 512 bytes; the model has a block of one sector.
- Wireless: after a pause of more than 30 s a state is adopted silently, and an
  older warning stays; a sample may hold a value kept from before when another
  one was read in its update; the events reach further back than the samples.
- Link metrics: the header calls a value stale that is not of an active link, but
  one that an active link no longer reports is stale too; a type that cannot be
  read is taken for virtual and loses its speed (`network_link_metrics.hpp:48`).

## 7. Not modelled

Drawing, key decoding and layout; the parsing of `/proc`, `/sys`, ATA and NVMe
logs; the text of reports and exports; the logger. They keep no state between
calls, and what could be wrong in them is a matter of text. Memory, load,
pressure, system, GPU and sensor monitors read and parse; the resource history
their values go to is modelled. `components` in `PROJECT.json` gives the reason
for each part.
