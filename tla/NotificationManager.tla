------------------------ MODULE NotificationManager ------------------------
(***************************************************************************)
(* NotificationManager (notification_manager.cpp): turns alert events into *)
(* desktop popups over D-Bus, under the user's settings and a cooldown per *)
(* source, replacing a source's popup by the id the daemon returned.  The  *)
(* daemon, its popups and the clock are external.                          *)
(***************************************************************************)
EXTENDS Naturals

CONSTANTS Sources   \* "type|source" keys

Kinds == {"Normal", "Warning", "Critical"}   \* Normal is a recovery

VARIABLES
    wanted,    \* settings_: the kinds to push; {} when disabled
    bus,       \* bus_ is not null
    last_sent, \* last_sent_: sources sent within the cooldown
    ids,       \* ids_: sources whose last id is known
    daemon,    \* external: the daemon answers calls
    popups,    \* external: popups[k], the number of popups of source k on screen
    live,      \* external: sources whose last id is still on screen
    heard      \* external: popups of each source sent within its cooldown

notifyVars == <<wanted, bus, last_sent, ids, daemon, popups, live, heard>>

NotifyInit ==
    /\ wanted = {} /\ bus \in BOOLEAN /\ last_sent = {} /\ ids = {}
    /\ daemon \in BOOLEAN
    /\ popups = [k \in Sources |-> 0] /\ live = {}
    /\ heard = [k \in Sources |-> 0]

ShouldNotify(kind) == kind \in wanted

InCooldown(k) == k \in last_sent

\* The daemon replaces the popup of a known id that is still there.
AlwaysNew(k) == FALSE
Replaces(k) == k \in ids /\ k \in live

Sent(k) == last_sent' = last_sent \cup {k}

\* The reply carries the id of the popup, kept for the key of the event.
KeepsId(k) == ids' = ids \cup {k}

\* External: the daemon handles a call made with replace_id.
Displayed(k) ==
    /\ popups' = [popups EXCEPT ![k] = IF Replaces(k) THEN @ ELSE @ + 1]
    /\ live' = live \cup {k}
    /\ heard' = [heard EXCEPT ![k] = @ + 1]

\* deliver: sd_bus_call returns the daemon's reply.
Delivered(k) ==
    /\ Displayed(k)
    /\ KeepsId(k)
    /\ Sent(k)
    /\ UNCHANGED <<wanted, bus, daemon>>

\* A failed call drops the handle; nothing is known of the popup, though the
\* daemon may have displayed it before the call timed out.
KeepsHandle == UNCHANGED bus
DropsHandle == bus' = FALSE

CallFails ==
    /\ DropsHandle
    /\ UNCHANGED <<wanted, last_sent, ids, daemon, popups, live, heard>>

CallTimesOut(k) ==
    /\ Displayed(k)
    /\ DropsHandle
    /\ UNCHANGED <<wanted, last_sent, ids, daemon>>

Sends(k, kind) == ShouldNotify(kind) /\ ~InCooldown(k) /\ bus

Notify(k, kind) ==
    \/ ~Sends(k, kind) /\ UNCHANGED notifyVars
    \/ Sends(k, kind) /\ daemon /\ (Delivered(k) \/ CallTimesOut(k))
    \/ Sends(k, kind) /\ ~daemon /\ CallFails

\* applySettingsToRuntime and the 'n' key.
ApplyNotificationSettings(kinds) ==
    /\ kinds # wanted
    /\ wanted' = kinds
    /\ UNCHANGED <<bus, last_sent, ids, daemon, popups, live, heard>>

-----------------------------------------------------------------------------
DaemonStopsOrStarts ==
    /\ daemon' = ~daemon
    /\ popups' = [k \in Sources |-> 0] /\ live' = {}   \* its popups go with it
    /\ UNCHANGED <<wanted, bus, last_sent, ids, heard>>

PopupsCloseFor(k) ==
    /\ popups[k] > 0
    /\ popups' = [popups EXCEPT ![k] = 0]
    /\ live' = live \ {k}
    /\ UNCHANGED <<wanted, bus, last_sent, ids, daemon, heard>>

CooldownElapses(k) ==
    /\ k \in last_sent \/ heard[k] > 0
    /\ last_sent' = last_sent \ {k}
    /\ heard' = [heard EXCEPT ![k] = 0]
    /\ UNCHANGED <<wanted, bus, ids, daemon, popups, live>>

DesktopNext ==
    \/ DaemonStopsOrStarts
    \/ \E k \in Sources : PopupsCloseFor(k) \/ CooldownElapses(k)
=============================================================================
