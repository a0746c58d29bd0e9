-------------------------- MODULE NetworkLinkState --------------------------
(***************************************************************************)
(* NetworkLinkStateMonitor (network_link_state.cpp), fed in every refresh  *)
(* with the snapshot NetworkInterfaceMonitor::read                         *)
(* (network_interface_details.cpp) takes of /sys/class/net.                *)
(*                                                                         *)
(* The snapshot is not atomic: the directory is listed, and then the files *)
(* of one name after the other are opened by that name, while the kernel   *)
(* changes links and removes, adds and renames devices.  Any of these      *)
(* calls can fail.  update() then compares the snapshot with the entry of  *)
(* each identity, the interface index or, when it is unreadable, the name. *)
(* It reads nothing but the snapshot, so the kernel takes no step then.    *)
(*                                                                         *)
(* Left out: the event history (a ring of log lines), names, timestamps    *)
(* and counters kept for display, and recount().                           *)
(***************************************************************************)
EXTENDS Integers, FiniteSets

CONSTANTS
    Names,         \* interface names
    Indices,       \* kernel interface indices
    LinkStates,    \* [oper, carrier, admin] states a kernel device can have
    MaxTracked,    \* kMaxTrackedLinkStateInterfaces (64 in the program)
    MaxChanges,    \* bound: kernel changes in a behaviour
    MaxFailures    \* bound: failed reads in a behaviour

Opers == {"Up", "Down", "Dormant", "Unknown"}
Carriers == {"Carrier", "NoCarrier", "Unknown"}
Admins == {"AdminUp", "AdminDown", "Unknown"}
NoIndex == "none"
Identities == Indices \cup Names

\* A file that cannot be read gives "Unreadable", as the carrier file of a
\* disabled device always does; a disabled device has operstate "down".
ASSUME LinkConstants ==
    /\ Indices \cap Names = {} /\ NoIndex \notin Identities
    /\ IsFiniteSet(Names) /\ IsFiniteSet(Indices)
    /\ LinkStates \subseteq [oper : Opers,
                             carrier : {"Carrier", "NoCarrier", "Unreadable"},
                             admin : {"AdminUp", "AdminDown"}]
    /\ \A l \in LinkStates :
          l.admin = "AdminDown" => l.oper = "Down" /\ l.carrier = "Unreadable"
    /\ MaxTracked \in Nat \ {0}
    /\ MaxChanges \in Nat /\ MaxFailures \in Nat

VARIABLES
    index,      \* kernel: the index of the device with a name, NoIndex for none
    link,       \* kernel: the state of its link
    phase,      \* "idle", the file being read, or "update"
    toRead,     \* names listed and not read yet
    info,       \* the NetworkInterfaceInfo being read
    snapshot,   \* the infos of the snapshot (current_)
    pending,    \* the infos update() has not looked at yet
    tracked,    \* the keys of tracked_
    state,      \* TrackedInterface: oper, carrier, admin, valid, known
    now,        \* the clock, advanced when interfaces disappear
    goneSince,  \* when a tracked identity disappeared, 0 while it is present
    severity,   \* the LinkStateChanged subjects of the AlertManager
    notified,   \* identities handed to the event sink in the last refresh
    changes, failures,    \* what MaxChanges and MaxFailures bound
    age,        \* ghost: refreshes begun since the device last changed, up to 2
    unread,     \* ghost: the same since a read of it last failed
    mixed       \* ghost: an unreadable or inconsistent state was stored during
                \* the warning of an identity

kernelVars == <<index, link, changes>>
readVars == <<toRead, info, failures, unread>>
entryVars == <<tracked, state, now, goneSince>>
alertVars == <<severity, notified, mixed>>
vars == <<kernelVars, phase, readVars, snapshot, pending, entryVars, alertVars, age>>

Blank == [oper |-> "Unknown", carrier |-> "Unknown", admin |-> "Unknown",
          valid |-> FALSE, known |-> FALSE]
NoLink == CHOOSE l \in LinkStates : TRUE    \* never read
NoInfo == [name |-> NoIndex, index |-> NoIndex, oper |-> "Unreadable",
           carrier |-> "Unreadable", admin |-> "Unreadable"]

Init ==
    /\ index \in [Names -> Indices \cup {NoIndex}]
    /\ \A n, m \in Names : index[n] = index[m] /\ index[n] # NoIndex => n = m
    /\ link \in [Names -> LinkStates]
    /\ \A n \in Names : index[n] = NoIndex => link[n] = NoLink
    /\ phase = "idle" /\ toRead = {} /\ info = NoInfo
    /\ snapshot = {} /\ pending = {}
    /\ tracked = {} /\ state = [id \in Identities |-> Blank] 
    /\ now = 0 /\ goneSince = [id \in Identities |-> 0]
    /\ severity = [id \in Identities |-> "Normal"]
    /\ notified = {}
    /\ changes = 0 /\ failures = 0
    /\ age = [id \in Identities |-> 0]
    /\ unread = [id \in Identities |-> 2]
    /\ mixed = [id \in Identities |-> FALSE]

-----------------------------------------------------------------------------
(* The kernel *)

Existing == {n \in Names : index[n] # NoIndex}
Devices(names) == names \cup {index[n] : n \in names}

Touched(ids) == age' = [id \in Identities |-> IF id \in ids THEN 0 ELSE age[id]]

KernelStep ==
    /\ phase # "update" /\ changes < MaxChanges
    /\ changes' = changes + 1
    /\ UNCHANGED <<phase, readVars, snapshot, pending, entryVars, alertVars>>

LinkChanges(n) ==
    /\ KernelStep
    /\ index[n] # NoIndex
    /\ \E l \in LinkStates \ {link[n]} : link' = [link EXCEPT ![n] = l]
    /\ UNCHANGED index
    /\ Touched(Devices({n}))

Unplugged(n) ==
    /\ KernelStep
    /\ index[n] # NoIndex
    /\ index' = [index EXCEPT ![n] = NoIndex]
    /\ link' = [link EXCEPT ![n] = NoLink]
    /\ Touched(Devices({n}))

\* A device gets an index no other has; a move between network namespaces
\* brings one back under the index it had.
Plugged(n) ==
    /\ KernelStep
    /\ index[n] = NoIndex
    /\ \E i \in Indices \ {index[m] : m \in Existing}, l \in LinkStates :
          /\ index' = [index EXCEPT ![n] = i]
          /\ link' = [link EXCEPT ![n] = l]
          /\ Touched({n, i})

Renamed(n, m) ==
    /\ KernelStep
    /\ index[n] # NoIndex /\ index[m] = NoIndex
    /\ index' = [index EXCEPT ![m] = index[n], ![n] = NoIndex]
    /\ link' = [link EXCEPT ![m] = link[n], ![n] = NoLink]
    /\ Touched({n, m, index[n]})

-----------------------------------------------------------------------------
(* NetworkInterfaceMonitor::read *)

Older(count) == IF count < 2 THEN count + 1 ELSE 2

Begin(name) ==
    info' = [NoInfo EXCEPT !.name = name]

\* listNetworkInterfaces: a failed opendir lists nothing, a failed readdir a
\* part, and update() is called with what there is.
List ==
    /\ phase = "idle"
    /\ \E listed \in SUBSET Existing :
          LET missed == Devices(Existing \ listed)
          IN  /\ IF listed = Existing THEN UNCHANGED failures
                 ELSE failures < MaxFailures /\ failures' = failures + 1
              /\ unread' = [id \in Identities |->
                              IF id \in missed THEN 0 ELSE Older(unread[id])]
              /\ IF listed = {}
                 THEN phase' = "update" /\ toRead' = {} /\ info' = NoInfo
                 ELSE \E n \in listed :
                         phase' = "ifindex" /\ toRead' = listed \ {n} /\ Begin(n)
    /\ age' = [id \in Identities |-> Older(age[id])]
    /\ snapshot' = {} /\ pending' = {}
    /\ notified' = {}
    /\ UNCHANGED <<kernelVars, entryVars, severity, mixed>>

\* readSysfsText and what readLink makes of the text; the files of a name
\* without a device are not there.
Reads(value, missing, got) ==
    \/ /\ got = (IF index[info.name] = NoIndex THEN missing ELSE value)
       /\ UNCHANGED <<failures, unread>>
    \/ /\ failures < MaxFailures
       /\ index[info.name] # NoIndex
       /\ got = missing
       /\ failures' = failures + 1
       /\ unread' = [id \in Identities |->
                        IF id \in Devices({info.name}) THEN 0 ELSE unread[id]]

ReadUnchanged == UNCHANGED <<kernelVars, entryVars, alertVars, age>>

ReadIndex ==
    /\ phase = "ifindex" /\ phase' = "operstate"
    /\ \E got \in Indices \cup {NoIndex} :
          Reads(index[info.name], NoIndex, got) /\ info' = [info EXCEPT !.index = got]
    /\ UNCHANGED <<toRead, snapshot, pending>> /\ ReadUnchanged

ReadOper ==
    /\ phase = "operstate" /\ phase' = "carrier"
    /\ \E got \in Opers \cup {"Unreadable"} :
          Reads(link[info.name].oper, "Unreadable", got) /\ info' = [info EXCEPT !.oper = got]
    /\ UNCHANGED <<toRead, snapshot, pending>> /\ ReadUnchanged

ReadCarrier ==
    /\ phase = "carrier" /\ phase' = "flags"
    /\ \E got \in Carriers \cup {"Unreadable"} :
          Reads(link[info.name].carrier, "Unreadable", got) /\ info' = [info EXCEPT !.carrier = got]
    /\ UNCHANGED <<toRead, snapshot, pending>> /\ ReadUnchanged

\* The last file of a name; after the last name update() is called.
ReadFlags ==
    /\ phase = "flags"
    /\ \E got \in Admins \cup {"Unreadable"} :
          /\ Reads(link[info.name].admin, "Unreadable", got)
          /\ snapshot' = snapshot \cup {[info EXCEPT !.admin = got]}
    /\ IF toRead = {}
       THEN /\ phase' = "update" /\ pending' = snapshot'
            /\ info' = NoInfo /\ toRead' = {}
       ELSE /\ phase' = "ifindex" /\ pending' = {}
            /\ \E n \in toRead : Begin(n) /\ toRead' = toRead \ {n}
    /\ ReadUnchanged

-----------------------------------------------------------------------------
(* NetworkLinkStateMonitor::update *)

\* NetworkInterfaceInfo::identity
Identity(i) == IF i.index # NoIndex THEN i.index ELSE i.name

\* parseOperState, parseCarrierState, parseAdminState
Parsed(value) == IF value = "Unreadable" THEN "Unknown" ELSE value

LinkKnown(i) ==
    \E value \in {i.oper, i.carrier, i.admin} : value # "Unreadable"

Same(s, t) == s.oper = t.oper /\ s.carrier = t.carrier /\ s.admin = t.admin

Stored(i, valid) ==
    [oper |-> Parsed(i.oper), carrier |-> Parsed(i.carrier),
     admin |-> Parsed(i.admin), valid |-> valid, known |-> LinkKnown(i)]

\* linkAvailability of a known link is Connected.
Connected(s) ==
    \/ s.oper = "Up"
    \/ s.oper = "Unknown" /\ s.carrier = "Carrier" /\ s.admin # "AdminDown"

Lost(old, new) ==
    \/ Connected(old) /\ ~Connected(new)
    \/ old.carrier = "Carrier" /\ new.carrier # "Carrier"
    \/ old.admin = "AdminUp" /\ new.admin # "AdminUp"

GainedCarrier(old, new) == old.carrier # "Carrier" /\ new.carrier = "Carrier"
Gained(old, new) ==
    \/ ~Connected(old) /\ Connected(new)
    \/ old.carrier # "Carrier" /\ new.carrier = "Carrier"

\* A state some device has, as a whole, at one time.
Consistent(s) ==
    \E l \in LinkStates :
       s.oper = l.oper /\ s.carrier = Parsed(l.carrier) /\ s.admin = l.admin

SetState(id, s) == state' = [state EXCEPT ![id] = s]

Mixes(id, s, sev) ==
    mixed' = [mixed EXCEPT ![id] = sev # "Normal" /\ (mixed[id] \/ ~Consistent(s))]

\* recordAlert: AlertManager::recordRuleEvent and, always, the sink.
RecordAlert(id, sev) ==
    /\ severity' = [severity EXCEPT ![id] = sev]
    /\ notified' = notified \cup {id}

NoAlert == UNCHANGED <<severity, notified>>

\* The part every branch shares.
Takes(i) ==
    /\ phase = "update" /\ i \in pending
    /\ pending' = pending \ {i}
    /\ UNCHANGED <<kernelVars, phase, readVars, snapshot, age>>

\* The first sight of an identity is a baseline and raises nothing.
Discover(i) ==
    LET id == Identity(i)
    IN  /\ Takes(i)
        /\ id \notin tracked
        /\ tracked' = tracked \cup {id}
        /\ SetState(id, Stored(i, LinkKnown(i)))
        /\ UNCHANGED <<now, goneSince, alertVars>>

IsGone(id) == goneSince[id] > 0

Reappear(i) ==
    LET id == Identity(i)
        s == Stored(i, LinkKnown(i))
    IN  /\ Takes(i)
        /\ id \in tracked /\ IsGone(id)
        /\ goneSince' = [goneSince EXCEPT ![id] = 0]
        /\ SetState(id, s)
        /\ RecordAlert(id, "Normal")
        /\ Mixes(id, s, "Normal")
        /\ UNCHANGED <<tracked, now>>

\* A failed read keeps the last valid state.
KeepLastState(i) ==
    LET id == Identity(i)
    IN  /\ Takes(i)
        /\ id \in tracked /\ ~IsGone(id)
        /\ ~LinkKnown(i)
        /\ SetState(id, [state[id] EXCEPT !.known = FALSE])
        /\ UNCHANGED <<tracked, now, goneSince, alertVars>>

\* The first readable state, when the discovery had none.
Baseline(i) ==
    LET id == Identity(i)
        s == Stored(i, TRUE)
    IN  /\ Takes(i)
        /\ id \in tracked /\ ~IsGone(id)
        /\ LinkKnown(i) /\ ~state[id].valid
        /\ SetState(id, s)
        /\ Mixes(id, s, severity[id])
        /\ NoAlert /\ UNCHANGED <<tracked, now, goneSince>>

Unchanged(i) ==
    LET id == Identity(i)
    IN  /\ Takes(i)
        /\ id \in tracked /\ ~IsGone(id)
        /\ LinkKnown(i) /\ state[id].valid
        /\ Same(state[id], Stored(i, TRUE))
        /\ SetState(id, [state[id] EXCEPT !.known = TRUE])
        /\ UNCHANGED <<tracked, now, goneSince, alertVars>>

\* A change that both loses and gains something alerts about neither.
Change(i) ==
    LET id == Identity(i)
        old == state[id]
        new == Stored(i, TRUE)
        lost == Lost(old, new)
        gained == Gained(old, new)
    IN  /\ Takes(i)
        /\ id \in tracked /\ ~IsGone(id)
        /\ LinkKnown(i) /\ old.valid
        /\ ~Same(old, new)
        /\ SetState(id, new)
        /\ \/ lost /\ ~gained /\ RecordAlert(id, "Warning")
           \/ gained /\ ~lost /\ RecordAlert(id, "Normal")
           \/ (lost <=> gained) /\ NoAlert
        /\ Mixes(id, new, severity'[id])
        /\ UNCHANGED <<tracked, now, goneSince>>

NowGoneByName ==
    {id \in tracked : ~IsGone(id) /\ \A i \in snapshot : i.name # id}

NowGoneOneLate ==
    IF Cardinality(tracked) > Cardinality(snapshot) + 1
    THEN {id \in tracked : ~IsGone(id) /\ \A i \in snapshot : Identity(i) # id}
    ELSE {}

\* Identities without an info are gone, looked for only when there are more
\* entries than infos.
NowGone ==
    IF Cardinality(tracked) > Cardinality(snapshot)
    THEN {id \in tracked : ~IsGone(id) /\ \A i \in snapshot : Identity(i) # id}
    ELSE {}

\* Of too many entries the longest gone are dropped; entries that left in one
\* refresh have one time stamp and are sorted in any order.
Evicted(since) ==
    LET gone == {id \in tracked : since[id] > 0}
        excess == Cardinality(tracked) - MaxTracked
    IN  {out \in SUBSET gone :
            /\ \A id \in out, kept \in gone \ out : since[id] <= since[kept]
            /\ Cardinality(out) <= excess \/ out = {}
            /\ out = gone \/ excess <= Cardinality(out)}

ClearNothing(gone) == UNCHANGED <<severity, mixed>>

\* AlertManager::clearSubject, silent.
ClearSubjects(gone) ==
    /\ severity' = [id \in Identities |->
                       IF id \in gone THEN "Normal" ELSE severity[id]]
    /\ mixed' = [id \in Identities |-> id \notin gone /\ mixed[id]]

FinishUpdate ==
    /\ phase = "update" /\ pending = {}
    /\ phase' = "idle"
    /\ now' = IF NowGone = {} THEN now ELSE now + 1
    /\ LET since == [id \in Identities |->
                        IF id \in NowGone THEN now' ELSE goneSince[id]]
       IN  \E out \in Evicted(since) :
              /\ tracked' = tracked \ out
              /\ goneSince' = [id \in Identities |-> IF id \in out THEN 0 ELSE since[id]]
              /\ state' = [id \in Identities |-> IF id \in out THEN Blank ELSE state[id]]
    /\ ClearSubjects(NowGone)
    /\ UNCHANGED <<kernelVars, readVars, snapshot, pending, notified, age>>

-----------------------------------------------------------------------------
Kernel ==
    \E n \in Names : \/ LinkChanges(n) \/ Unplugged(n) \/ Plugged(n)
                     \/ \E m \in Names : Renamed(n, m)
Read == List \/ ReadIndex \/ ReadOper \/ ReadCarrier \/ ReadFlags
Update ==
    \/ \E i \in pending : \/ Discover(i) \/ Reappear(i) \/ KeepLastState(i)
                          \/ Baseline(i) \/ Unchanged(i) \/ Change(i)
    \/ FinishUpdate
Next == Kernel \/ Read \/ Update
Spec == Init /\ [][Next]_vars

-----------------------------------------------------------------------------
Infos == [name : Names \cup {NoIndex}, index : Indices \cup {NoIndex},
          oper : Opers \cup {"Unreadable"}, carrier : Carriers \cup {"Unreadable"},
          admin : Admins \cup {"Unreadable"}]
Entries == [oper : Opers, carrier : Carriers, admin : Admins,
            valid : BOOLEAN, known : BOOLEAN]

\* Every variable has its type, and only entries that are kept are gone.
TypeOK ==
    /\ index \in [Names -> Indices \cup {NoIndex}] /\ link \in [Names -> LinkStates]
    /\ phase \in {"idle", "ifindex", "operstate", "carrier", "flags", "update"}
    /\ toRead \subseteq Names /\ info \in Infos
    /\ snapshot \subseteq Infos /\ pending \subseteq snapshot
    /\ tracked \subseteq Identities /\ state \in [Identities -> Entries]
    /\ now \in Nat /\ goneSince \in [Identities -> 0..now]
    /\ \A id \in Identities \ tracked : goneSince[id] = 0
    /\ severity \in [Identities -> {"Normal", "Warning"}]
    /\ notified \subseteq Identities
    /\ changes \in 0..MaxChanges /\ failures \in 0..MaxFailures
    /\ age \in [Identities -> 0..2] /\ unread \in [Identities -> 0..2]
    /\ mixed \in [Identities -> BOOLEAN]

\* A warning on the dashboard is about an interface update() has an entry for
\* and that is there: removal clears it, and eviction never hides one.
WarningOfPresent ==
    \A id \in Identities :
       severity[id] = "Warning" => id \in tracked /\ ~IsGone(id)

FullyUp(s) == Connected(s) /\ s.carrier = "Carrier" /\ s.admin = "AdminUp"

\* A warning ends when the interface is up again, unless some refresh during
\* the warning stored a state no device had: files read before and after a
\* change, or a file that could not be read.
WarningEnds ==
    \A id \in Identities :
       severity[id] = "Warning" /\ FullyUp(state[id]) => mixed[id]

\* An interface that did not change since the refresh before last began is
\* never reported, unless a read of it failed since.
NoFalseAlarm ==
    \A id \in notified : age[id] < 2 \/ unread[id] < 2

\* After a refresh whose infos have different identities, the entries that are
\* there are those of the snapshot, and more than MaxTracked entries are kept
\* only when all of them are there.
EntriesFollowSnapshot ==
    LET seen == {Identity(i) : i \in snapshot}
    IN  phase = "idle" /\ Cardinality(seen) = Cardinality(snapshot) =>
           /\ {id \in tracked : ~IsGone(id)} = seen
           /\ Cardinality(tracked) <= MaxTracked \/ tracked = seen
=============================================================================
