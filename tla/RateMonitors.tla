---------------------------- MODULE RateMonitors ----------------------------
(***************************************************************************)
(* The monitors that turn counters of the kernel into rates: network       *)
(* interfaces (network_monitor.cpp), disks (disk_monitor.cpp) and CPUs     *)
(* (advanced_cpu_monitor.cpp).  Each keeps the counters of its last read   *)
(* as the baseline of the next.  A device has two counters: received and   *)
(* sent bytes, sectors read and written, or busy and idle ticks.  A rate   *)
(* is kept as the difference the code divides by the time between the two  *)
(* reads.  Differences are taken in unsigned arithmetic.                   *)
(***************************************************************************)
EXTENDS Integers

CONSTANTS
    Devices,
    BlockSectors,    \* the logical block size of a disk, in 512-byte sectors
    Word,            \* unsigned counters are taken modulo this
    MaxCount,        \* bound: what one counter reaches
    MaxReads         \* bound: reads

ASSUME RateConstants ==
    /\ BlockSectors \in Nat \ {0} /\ Word \in Nat /\ MaxCount \in Nat /\ MaxReads \in Nat
    /\ 2 * MaxCount < Word

VARIABLES
    monitored,   \* which monitor is looked at
    counters,    \* external: the counters of the devices that are there
    left,        \* external: the counters of a CPU that went offline
    moved,       \* ghost: what each device really moved since the last read
    steady,      \* ghost: devices there, and not reset, since the last read
    previous,    \* previous_: the counters of the last read
    sampled,     \* previous_time_ holds a value
    measured,    \* the rates of the last read
    window,      \* ghost: moved, as of the last read
    through,     \* ghost: devices steady through the whole window
    readings

rateVars == <<monitored, counters, left, moved, steady, previous, sampled, measured, window,
              through, readings>>

Zero == [in |-> 0, out |-> 0]
Nothing == [d \in {} |-> Zero]
Unsigned(difference) == (difference + Word) % Word

RatesInit ==
    /\ monitored \in {"network", "disk", "cpu"}
    /\ counters \in UNION {[present -> {Zero}] : present \in SUBSET Devices}
    /\ left = [d \in Devices |-> Zero] /\ moved = left /\ steady = {}
    /\ previous = Nothing /\ sampled = FALSE
    /\ measured = Nothing /\ window = moved /\ through = {} /\ readings = 0

-----------------------------------------------------------------------------
(* The kernel.                                                             *)

Moves(d, way) ==
    /\ d \in DOMAIN counters /\ counters[d][way] < MaxCount /\ moved[d][way] < MaxCount
    /\ counters' = [counters EXCEPT ![d][way] = @ + 1]
    /\ moved' = [moved EXCEPT ![d][way] = @ + 1]
    /\ UNCHANGED <<monitored, left, steady, previous, sampled, measured, window, through, readings>>

\* A device is replaced, its driver reloaded, or a CPU goes offline.
Loses(d) ==
    /\ d \in DOMAIN counters
    /\ counters' = [other \in DOMAIN counters \ {d} |-> counters[other]]
    /\ left' = [left EXCEPT ![d] = counters[d]]
    /\ steady' = steady \ {d}
    /\ UNCHANGED <<monitored, moved, previous, sampled, measured, window, through, readings>>

\* A device starts from zero; the ticks of a CPU go on where they were.
Gains(d) ==
    /\ d \in Devices \ DOMAIN counters
    /\ counters' = [other \in DOMAIN counters \cup {d} |->
                        IF other # d THEN counters[other]
                        ELSE IF monitored = "cpu" THEN left[d] ELSE Zero]
    /\ UNCHANGED <<monitored, left, moved, steady, previous, sampled, measured, window, through,
                   readings>>

-----------------------------------------------------------------------------
(* The monitors.                                                           *)

\* What each of them does with a device that has a baseline.
Counted(d, now) == [in |-> Unsigned(now[d].in - previous[d].in),
                    out |-> Unsigned(now[d].out - previous[d].out)]

NeverReset(d, now) == FALSE
\* A counter that went back drops the window, whichever of the two it was.
Reset(d, now) == now[d].in < previous[d].in \/ now[d].out < previous[d].out

Comparable(now) ==
    IF sampled THEN {d \in DOMAIN now \cap DOMAIN previous : ~ Reset(d, now)} ELSE {}

NetworkRates(now) ==
    [d \in DOMAIN now |-> IF d \in Comparable(now) THEN Counted(d, now) ELSE Zero]

\* Bytes are sectors times the logical block size.
DiskRates(now) ==
    [d \in Comparable(now) |-> [in |-> Counted(d, now).in * BlockSectors,
                                out |-> Counted(d, now).out * BlockSectors]]

\* computeCpuDelta: shares of the ticks that passed, none if none did or if their sum
\* went back.  Busy is what is not idle; every share is at most the whole.
AllTicks(counter) == counter.in + counter.out
CpuShare(d, now) ==
    LET passed == AllTicks(now[d]) - AllTicks(previous[d])
        idle == Unsigned(now[d].out - previous[d].out)
        AtMostAll(share) == IF share >= passed THEN passed ELSE share
    IN [in |-> AtMostAll(Unsigned(passed - idle)), out |-> AtMostAll(idle)]
CpuRates(now) ==
    [d \in {c \in DOMAIN now \cap DOMAIN previous : AllTicks(now[c]) > AllTicks(previous[c])} |->
        CpuShare(d, now)]

Rates(now) ==
    CASE monitored = "network" -> NetworkRates(now)
      [] monitored = "disk" -> DiskRates(now)
      [] monitored = "cpu" -> CpuRates(now)

\* read(): the file may be unreadable, which is an empty reading, and becomes the
\* baseline all the same.
Read ==
    /\ readings < MaxReads
    /\ readings' = readings + 1
    /\ \E now \in {counters, Nothing} :
          /\ measured' = Rates(now)
          /\ previous' = now /\ sampled' = TRUE
          /\ steady' = DOMAIN now
          /\ through' = DOMAIN now \cap steady
    /\ window' = moved
    /\ moved' = [d \in Devices |-> Zero]
    /\ UNCHANGED <<monitored, counters, left>>

RatesNext ==
    \/ \E d \in Devices : (\E way \in {"in", "out"} : Moves(d, way)) \/ Loses(d) \/ Gains(d)
    \/ Read

RatesSpec == RatesInit /\ [][RatesNext]_rateVars

-----------------------------------------------------------------------------
\* A rate never reports more than the device moved in the window, whatever came and
\* went between the two reads; and what a device moved that was there all the time,
\* is reported in full.
RatesAreTraffic ==
    \A d \in DOMAIN measured :
        /\ measured[d].in <= window[d].in /\ measured[d].out <= window[d].out
        /\ d \in through => measured[d] = window[d]
=============================================================================
