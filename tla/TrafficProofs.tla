---------------------------- MODULE TrafficProofs ----------------------------
(***************************************************************************)
(* Theorems about traffic: the rates that the monitors make of the         *)
(* kernel's counters (RateMonitors), the history of the interfaces         *)
(* (NetworkTrafficHistory), the histories of the counters of links         *)
(* (LinkCounters) and the exports (TrafficExport), for any devices,        *)
(* counters, cap on series, window and amount of traffic.                  *)
(***************************************************************************)
EXTENDS RateMonitors, NetworkTrafficHistory, LinkCounters, TrafficExport, SubsequencesProofs

(* Rates.                                                                  *)

CounterValues == 0 .. MaxCount
Counters == [in : CounterValues, out : CounterValues]

RatesTypeOK ==
    /\ monitored \in {"network", "disk", "cpu"}
    /\ DOMAIN counters \subseteq Devices /\ counters \in [DOMAIN counters -> Counters]
    /\ DOMAIN previous \subseteq Devices /\ previous \in [DOMAIN previous -> Counters]
    /\ left \in [Devices -> Counters]
    /\ moved \in [Devices -> Counters] /\ window \in [Devices -> Counters]

\* A counter is at most what it was at the last read and what the device moved since.
AtMost(now, before, by) == now.in <= before.in + by.in /\ now.out <= before.out + by.out
Exactly(now, before, by) == now.in = before.in + by.in /\ now.out = before.out + by.out
NotBack(now, before) == before.in <= now.in /\ before.out <= now.out

\* What the counters of the kernel are, measured from the baselines of the last read:
\* never ahead of what moved, exactly there if the device was there all the time, and
\* those of a CPU, wherever it is, never behind the baseline.
CountInv ==
    /\ \A d \in DOMAIN previous \cap DOMAIN counters :
          /\ AtMost(counters[d], previous[d], moved[d])
          /\ monitored = "cpu" => NotBack(counters[d], previous[d])
    /\ monitored = "cpu" =>
          \A d \in DOMAIN previous \ DOMAIN counters :
              AtMost(left[d], previous[d], moved[d]) /\ NotBack(left[d], previous[d])
    /\ \A d \in steady :
          /\ d \in DOMAIN counters /\ d \in DOMAIN previous /\ sampled
          /\ Exactly(counters[d], previous[d], moved[d])

\* A difference that is not negative is what unsigned arithmetic makes of it.
LEMMA UnsignedOfCount ==
  ASSUME NEW n \in Nat, n < Word PROVE Unsigned(n) = n
  BY RateConstants DEF Unsigned

LEMMA ZeroType == Zero \in Counters
  BY RateConstants DEF Zero, Counters, CounterValues

LEMMA RatesTypeInit == ASSUME RatesInit PROVE RatesTypeOK /\ CountInv
<1>1. DOMAIN previous = {} /\ previous \in [DOMAIN previous -> Counters]
  BY DEF RatesInit, Nothing
<1>2. PICK present \in SUBSET Devices : counters \in [present -> {Zero}] BY DEF RatesInit
<1>3. DOMAIN counters \subseteq Devices /\ counters \in [DOMAIN counters -> Counters]
  BY <1>2, ZeroType
<1>4. left \in [Devices -> Counters] /\ moved = left /\ window = moved /\ steady = {}
  BY ZeroType DEF RatesInit
<1> QED BY <1>1, <1>3, <1>4 DEF RatesInit, RatesTypeOK, CountInv

\* The kernel counts: baseline and counter drift apart by what moved.
LEMMA MovesStep ==
  ASSUME RatesTypeOK, CountInv, NEW d \in Devices, NEW way \in {"in", "out"}, Moves(d, way)
  PROVE  RatesTypeOK' /\ CountInv'
<1>1. counters[d] \in Counters /\ moved[d] \in Counters /\ d \in DOMAIN counters
  BY DEF Moves, RatesTypeOK
<1>2. /\ DOMAIN counters' = DOMAIN counters /\ DOMAIN moved' = DOMAIN moved
      /\ \A e \in DOMAIN counters \ {d} : counters'[e] = counters[e]
      /\ \A e \in Devices \ {d} : moved'[e] = moved[e]
      /\ counters'[d] = [counters[d] EXCEPT ![way] = @ + 1]
      /\ moved'[d] = [moved[d] EXCEPT ![way] = @ + 1]
  BY <1>1 DEF Moves, RatesTypeOK
<1>3. counters[d][way] < MaxCount /\ moved[d][way] < MaxCount BY DEF Moves
<1>4. /\ counters'[d] \in Counters /\ moved'[d] \in Counters
      /\ counters'[d].in - counters[d].in = moved'[d].in - moved[d].in
      /\ counters'[d].out - counters[d].out = moved'[d].out - moved[d].out
      /\ NotBack(counters'[d], counters[d])
  <2>1. CASE way = "in"
    <3>1. /\ counters'[d] = [counters[d] EXCEPT !.in = @ + 1]
          /\ moved'[d] = [moved[d] EXCEPT !.in = @ + 1]
          /\ counters[d].in < MaxCount /\ moved[d].in < MaxCount
      BY <1>2, <1>3, <2>1
    <3> QED BY <1>1, <3>1, RateConstants DEF Counters, CounterValues, NotBack
  <2>2. CASE way = "out"
    <3>1. /\ counters'[d] = [counters[d] EXCEPT !.out = @ + 1]
          /\ moved'[d] = [moved[d] EXCEPT !.out = @ + 1]
          /\ counters[d].out < MaxCount /\ moved[d].out < MaxCount
      BY <1>2, <1>3, <2>2
    <3> QED BY <1>1, <3>1, RateConstants DEF Counters, CounterValues, NotBack
  <2> QED BY <2>1, <2>2
<1>5. UNCHANGED <<monitored, left, steady, previous, sampled, measured, window>>
  BY DEF Moves
<1>6. counters' \in [DOMAIN counters -> Counters] /\ moved' \in [Devices -> Counters]
  <2>1. /\ counters' = [counters EXCEPT ![d] = counters'[d]]
        /\ moved' = [moved EXCEPT ![d] = moved'[d]]
    BY <1>1 DEF Moves, RatesTypeOK
  <2> QED BY <1>4, <2>1 DEF RatesTypeOK
<1>7. RatesTypeOK' BY <1>2, <1>5, <1>6 DEF RatesTypeOK
<1>8. ASSUME d \in DOMAIN previous
      PROVE  /\ AtMost(counters'[d], previous[d], moved'[d])
             /\ monitored = "cpu" => NotBack(counters'[d], previous[d])
             /\ d \in steady => Exactly(counters'[d], previous[d], moved'[d])
  <2>1. previous[d] \in Counters BY <1>8 DEF RatesTypeOK
  <2>2. /\ AtMost(counters[d], previous[d], moved[d])
        /\ monitored = "cpu" => NotBack(counters[d], previous[d])
        /\ d \in steady => Exactly(counters[d], previous[d], moved[d])
    BY <1>1, <1>8 DEF CountInv
  <2> QED BY <1>1, <1>4, <2>1, <2>2 DEF Counters, CounterValues, AtMost, Exactly, NotBack
<1>9. CountInv' BY <1>1, <1>2, <1>5, <1>8 DEF CountInv, RatesTypeOK
<1> QED BY <1>7, <1>9

\* Devices come and go: a CPU's counters wait for it, every other device starts from zero.
LEMMA LosesGainsStep ==
  ASSUME RatesTypeOK, CountInv, NEW d \in Devices, Loses(d) \/ Gains(d)
  PROVE  RatesTypeOK' /\ CountInv'
<1>1. UNCHANGED <<monitored, moved, previous, sampled, window>>
  BY DEF Loses, Gains
<1>2. CASE Loses(d)
  <2>1. /\ d \in DOMAIN counters /\ counters[d] \in Counters
        /\ DOMAIN counters' = DOMAIN counters \ {d}
        /\ \A e \in DOMAIN counters' : counters'[e] = counters[e]
        /\ left' \in [Devices -> Counters] /\ left'[d] = counters[d]
        /\ \A e \in Devices \ {d} : left'[e] = left[e]
        /\ steady' = steady \ {d}
        /\ counters' \in [DOMAIN counters' -> Counters]
    BY <1>2 DEF Loses, RatesTypeOK
  <2>2. RatesTypeOK' BY <1>1, <2>1 DEF RatesTypeOK
  <2>3. CountInv' BY <1>1, <2>1 DEF CountInv, RatesTypeOK
  <2> QED BY <2>2, <2>3
<1>3. CASE Gains(d)
  <2>1. /\ d \notin DOMAIN counters
        /\ DOMAIN counters' = DOMAIN counters \cup {d}
        /\ \A e \in DOMAIN counters : counters'[e] = counters[e]
        /\ counters'[d] = IF monitored = "cpu" THEN left[d] ELSE Zero
        /\ UNCHANGED <<left, steady>>
    BY <1>3 DEF Gains
  <2>2. counters'[d] \in Counters BY <2>1, ZeroType DEF RatesTypeOK
  <2>3. counters' \in [DOMAIN counters' -> Counters]
    BY <1>3, <2>1, <2>2 DEF Gains, RatesTypeOK
  <2>4. RatesTypeOK' BY <1>1, <2>1, <2>3 DEF RatesTypeOK
  <2>5. ASSUME d \in DOMAIN previous
        PROVE  /\ AtMost(counters'[d], previous[d], moved[d])
               /\ monitored = "cpu" => NotBack(counters'[d], previous[d])
    <3>1. CASE monitored = "cpu" BY <2>1, <2>5, <3>1 DEF CountInv
    <3>2. CASE monitored # "cpu"
      <4>1. previous[d] \in Counters /\ moved[d] \in Counters BY <2>5 DEF RatesTypeOK
      <4> QED BY <2>1, <3>2, <4>1 DEF Zero, Counters, CounterValues, AtMost
    <3> QED BY <3>1, <3>2
  <2>6. CountInv' BY <1>1, <2>1, <2>5 DEF CountInv
  <2> QED BY <2>4, <2>6
<1> QED BY <1>2, <1>3

\* The rates of one device, from a reading of its counters and their baseline.

\* A counter that did not go back counted exactly what it is ahead of its baseline.
LEMMA CountedFacts ==
  ASSUME NEW now, NEW d, now[d] \in Counters, previous[d] \in Counters,
         NotBack(now[d], previous[d])
  PROVE  /\ Counted(d, now).in = now[d].in - previous[d].in
         /\ Counted(d, now).out = now[d].out - previous[d].out
<1>1. /\ now[d].in - previous[d].in \in Nat /\ now[d].in - previous[d].in < Word
      /\ now[d].out - previous[d].out \in Nat /\ now[d].out - previous[d].out < Word
  BY RateConstants DEF Counters, CounterValues, NotBack
<1> QED BY <1>1, UnsignedOfCount DEF Counted

\* The shares of a CPU's ticks are those of its two counters, for neither goes back.
LEMMA CpuShareFacts ==
  ASSUME NEW now, NEW d, now[d] \in Counters, previous[d] \in Counters,
         NotBack(now[d], previous[d])
  PROVE  /\ CpuShare(d, now).in = now[d].in - previous[d].in
         /\ CpuShare(d, now).out = now[d].out - previous[d].out
<1> DEFINE busy == now[d].in - previous[d].in
           idle == now[d].out - previous[d].out
           gone == AllTicks(now[d]) - AllTicks(previous[d])
<1>1. /\ busy \in Nat /\ busy < Word /\ idle \in Nat /\ idle < Word
      /\ gone = busy + idle
  BY RateConstants DEF Counters, CounterValues, NotBack, AllTicks
<1>2. Unsigned(idle) = idle BY <1>1, UnsignedOfCount
<1>3. gone - idle = busy BY <1>1
<1>4. Unsigned(busy) = busy BY <1>1, UnsignedOfCount
<1>5. CpuShare(d, now) =
        [in |-> IF Unsigned(gone - Unsigned(idle)) >= gone THEN gone
                ELSE Unsigned(gone - Unsigned(idle)),
         out |-> IF Unsigned(idle) >= gone THEN gone ELSE Unsigned(idle)]
  BY DEF CpuShare
<1> HIDE DEF busy, idle, gone
<1>6. CpuShare(d, now) = [in |-> IF busy >= gone THEN gone ELSE busy,
                          out |-> IF idle >= gone THEN gone ELSE idle]
  BY <1>2, <1>3, <1>4, <1>5
<1>7. (IF busy >= gone THEN gone ELSE busy) = busy BY <1>1
<1>8. (IF idle >= gone THEN gone ELSE idle) = idle BY <1>1
<1> QED BY <1>6, <1>7, <1>8 DEF busy, idle

\* What a read reports of a device is at most what the device moved, and all of it if the
\* device was there, and its counters went on, since the read before.
LEMMA RatesOfReading ==
  ASSUME RatesTypeOK, CountInv, monitored = "disk" => BlockSectors = 1,
         NEW now \in {counters, Nothing}, NEW d \in DOMAIN Rates(now)
  PROVE  /\ d \in Devices
         /\ Rates(now)[d].in <= moved[d].in /\ Rates(now)[d].out <= moved[d].out
         /\ d \in steady => Rates(now)[d] = moved[d]
<1>1. DOMAIN Rates(now) \subseteq DOMAIN now
  BY DEF Rates, NetworkRates, DiskRates, CpuRates, Comparable, RatesTypeOK
<1>2. now = counters /\ d \in DOMAIN counters BY <1>1 DEF Nothing
<1>3. d \in Devices /\ now[d] \in Counters /\ moved[d] \in Counters
  BY <1>2 DEF RatesTypeOK
<1>4. d \in DOMAIN previous => previous[d] \in Counters BY DEF RatesTypeOK
<1>5. d \in DOMAIN previous => AtMost(now[d], previous[d], moved[d]) BY <1>2 DEF CountInv
<1>6. d \in steady => /\ d \in DOMAIN previous /\ sampled
                     /\ Exactly(now[d], previous[d], moved[d])
  BY <1>2 DEF CountInv
<1>7. ASSUME NEW rate, d \in DOMAIN previous,
             rate.in = now[d].in - previous[d].in, rate.out = now[d].out - previous[d].out,
             rate = [in |-> rate.in, out |-> rate.out]
      PROVE  /\ rate.in <= moved[d].in /\ rate.out <= moved[d].out
             /\ d \in steady => rate = moved[d]
  <2>1. /\ now[d].in \in Int /\ now[d].out \in Int
        /\ previous[d].in \in Int /\ previous[d].out \in Int
        /\ moved[d].in \in Int /\ moved[d].out \in Int
    BY <1>3, <1>4, <1>7, RateConstants DEF Counters, CounterValues
  <2>2. rate.in <= moved[d].in /\ rate.out <= moved[d].out
    BY <1>5, <1>7, <2>1 DEF AtMost
  <2>3. d \in steady => rate.in = moved[d].in /\ rate.out = moved[d].out
    BY <1>6, <1>7, <2>1 DEF Exactly
  <2>4. moved[d] = [in |-> moved[d].in, out |-> moved[d].out]
    BY <1>3 DEF Counters
  <2>5. d \in steady => rate = moved[d]
    <3>1. SUFFICES ASSUME d \in steady PROVE rate = moved[d] OBVIOUS
    <3>2. rate = [in |-> moved[d].in, out |-> moved[d].out] BY <1>7, <2>3, <3>1
    <3> QED BY <2>4, <3>2
  <2> QED BY <2>2, <2>5
<1>8. ASSUME d \in Comparable(now)
      PROVE  /\ d \in DOMAIN previous
             /\ Counted(d, now).in = now[d].in - previous[d].in
             /\ Counted(d, now).out = now[d].out - previous[d].out
             /\ Counted(d, now) = [in |-> Counted(d, now).in, out |-> Counted(d, now).out]
  <2>1. d \in DOMAIN previous /\ ~Reset(d, now) BY <1>8 DEF Comparable
  <2>2. NotBack(now[d], previous[d])
    BY <1>3, <1>4, <2>1, RateConstants DEF Reset, NotBack, Counters, CounterValues
  <2> QED BY <1>3, <1>4, <2>1, <2>2, CountedFacts DEF Counted
<1>9. CASE monitored = "network"
  <2>1. Rates(now)[d] = IF d \in Comparable(now) THEN Counted(d, now) ELSE Zero
    BY <1>2, <1>9 DEF Rates, NetworkRates
  <2>2. d \in steady => d \in Comparable(now)
    <3>1. SUFFICES ASSUME d \in steady PROVE ~Reset(d, now)
      BY <1>2, <1>6 DEF Comparable
    <3> QED BY <1>3, <1>4, <1>6, <3>1, RateConstants DEF Reset, Exactly, Counters, CounterValues
  <2>3. CASE d \in Comparable(now) BY <1>3, <1>7, <1>8, <2>1, <2>3
  <2>4. CASE d \notin Comparable(now)
    BY <1>3, <2>1, <2>2, <2>4, RateConstants DEF Zero, Counters, CounterValues
  <2> QED BY <2>3, <2>4
<1>10. CASE monitored = "disk"
  <2>1. /\ d \in Comparable(now)
        /\ Rates(now)[d] = [in |-> Counted(d, now).in * BlockSectors,
                            out |-> Counted(d, now).out * BlockSectors]
    BY <1>10 DEF Rates, DiskRates
  <2>2. Counted(d, now).in \in Int /\ Counted(d, now).out \in Int
    BY <1>3, <1>4, <1>8, <2>1, RateConstants DEF Counters, CounterValues
  <2>3. Rates(now)[d] = Counted(d, now) BY <1>8, <1>10, <2>1, <2>2
  <2> QED BY <1>3, <1>7, <1>8, <2>1, <2>3
<1>11. CASE monitored = "cpu"
  <2>1. d \in DOMAIN previous /\ Rates(now)[d] = CpuShare(d, now)
    BY <1>11 DEF Rates, CpuRates
  <2>2. NotBack(now[d], previous[d]) BY <1>2, <1>11, <2>1 DEF CountInv
  <2>3. CpuShare(d, now) = [in |-> CpuShare(d, now).in, out |-> CpuShare(d, now).out]
    BY DEF CpuShare
  <2> QED BY <1>3, <1>4, <1>7, <2>1, <2>2, <2>3, CpuShareFacts
<1> QED BY <1>9, <1>10, <1>11 DEF RatesTypeOK

\* A rate is of the window it is shown for, on disks whose block is a sector of 512 bytes.
RatesInv == (monitored = "disk" => BlockSectors = 1) => RatesAreTraffic

LEMMA ReadStep ==
  ASSUME RatesTypeOK, CountInv, Read
  PROVE  RatesTypeOK' /\ CountInv' /\ RatesInv'
<1>1. PICK now \in {counters, Nothing} :
        /\ measured' = Rates(now)
        /\ previous' = now /\ sampled' = TRUE
        /\ steady' = DOMAIN now
        /\ through' = DOMAIN now \cap steady
  BY DEF Read
<1>2. /\ window' = moved /\ moved' = [e \in Devices |-> Zero]
      /\ UNCHANGED <<monitored, counters, left>>
  BY DEF Read
<1>3. DOMAIN now \subseteq Devices /\ now \in [DOMAIN now -> Counters]
  BY <1>1 DEF RatesTypeOK, Nothing
<1>4. RatesTypeOK' BY <1>1, <1>2, <1>3, ZeroType DEF RatesTypeOK
<1>5. \A e \in DOMAIN now : e \in DOMAIN counters /\ now[e] = counters[e]
  BY <1>1 DEF Nothing
<1>6. \A e \in DOMAIN now :
        /\ AtMost(now[e], now[e], Zero) /\ Exactly(now[e], now[e], Zero)
        /\ NotBack(now[e], now[e])
  BY <1>3, RateConstants DEF Counters, CounterValues, Zero, AtMost, Exactly, NotBack
<1>7. CountInv' BY <1>1, <1>2, <1>3, <1>5, <1>6 DEF CountInv
<1>8. RatesInv'
  BY <1>1, <1>2, RatesOfReading DEF RatesInv, RatesAreTraffic
<1> QED BY <1>4, <1>7, <1>8

\* Neither counters that wrap or start anew nor devices that come and go between two reads
\* make a rate more than the device moved, and what one moved that was there is reported
\* in full; for disks, of those whose logical block is a sector.
THEOREM RatesReportTraffic ==
  RatesSpec => []((monitored = "disk" => BlockSectors = 1) => RatesAreTraffic)
<1>1. RatesInit => RatesTypeOK /\ CountInv /\ RatesInv
  BY RatesTypeInit DEF RatesInit, RatesInv, RatesAreTraffic, Nothing
<1>2. RatesTypeOK /\ CountInv /\ RatesInv /\ [RatesNext]_rateVars =>
        (RatesTypeOK /\ CountInv /\ RatesInv)'
  <2> SUFFICES ASSUME RatesTypeOK, CountInv, RatesInv, [RatesNext]_rateVars
               PROVE  (RatesTypeOK /\ CountInv /\ RatesInv)'
    OBVIOUS
  <2>1. ASSUME UNCHANGED <<monitored, measured, window, through>> PROVE RatesInv'
    BY <2>1 DEF RatesInv, RatesAreTraffic
  <2>2. ASSUME NEW d \in Devices, NEW way \in {"in", "out"}, Moves(d, way)
        PROVE  (RatesTypeOK /\ CountInv /\ RatesInv)'
    BY <2>1, <2>2, MovesStep DEF Moves
  <2>3. ASSUME NEW d \in Devices, Loses(d) \/ Gains(d)
        PROVE  (RatesTypeOK /\ CountInv /\ RatesInv)'
    BY <2>1, <2>3, LosesGainsStep DEF Loses, Gains
  <2>4. CASE Read BY <2>4, ReadStep
  <2>5. CASE UNCHANGED rateVars
    BY <2>1, <2>5 DEF rateVars, RatesTypeOK, CountInv
  <2> QED BY <2>2, <2>3, <2>4, <2>5 DEF RatesNext
<1> QED BY <1>1, <1>2, PTL DEF RatesSpec, RatesInv

-----------------------------------------------------------------------------
(* The history of the interfaces.                                          *)

\* Of a finite set of numbers, no more than k have fewer than k smaller ones:
\* counting the smaller ones maps them injectively into 0..k-1.
LEMMA RankBound ==
  ASSUME NEW A \in SUBSET Nat, IsFiniteSet(A), NEW k \in Nat
  PROVE  LET D == {i \in A : Cardinality({j \in A : j < i}) < k}
         IN  IsFiniteSet(D) /\ Cardinality(D) <= k
<1> DEFINE Below(i) == {j \in A : j < i}
           D == {i \in A : Cardinality(Below(i)) < k}
           rank == [i \in D |-> Cardinality(Below(i))]
<1>1. \A i \in A : IsFiniteSet(Below(i)) /\ Cardinality(Below(i)) \in Nat
  BY FS_Subset, FS_CardinalityType
<1>2. \A i, j \in A : i < j => Cardinality(Below(i)) < Cardinality(Below(j))
  <2> SUFFICES ASSUME NEW i \in A, NEW j \in A, i < j
               PROVE  Cardinality(Below(i)) < Cardinality(Below(j))
    OBVIOUS
  <2>1. i \notin Below(i) /\ Below(i) \cup {i} \subseteq Below(j)
    <3>1. ASSUME NEW x \in Below(i) \cup {i} PROVE x \in Below(j)
      <4>1. x \in Nat /\ i \in Nat /\ j \in Nat /\ x \in A OBVIOUS
      <4>2. x <= i BY <4>1, <3>1
      <4> QED BY <4>1, <4>2
    <3>2. i \in Nat OBVIOUS
    <3>3. i \notin Below(i) BY <3>2
    <3> QED BY <3>1, <3>3
  <2> HIDE DEF Below
  <2>2. IsFiniteSet(Below(i) \cup {i}) /\
        Cardinality(Below(i) \cup {i}) = Cardinality(Below(i)) + 1
    BY <1>1, <2>1, FS_AddElement
  <2>3. Cardinality(Below(i) \cup {i}) <= Cardinality(Below(j))
    BY <1>1, <2>1, FS_Subset
  <2> QED BY <1>1, <2>2, <2>3
<1>3. rank \in Injection(D, 0..(k - 1))
  <2>1. rank \in [D -> 0..(k - 1)]
    <3>1. ASSUME NEW i \in D PROVE Cardinality(Below(i)) \in 0..(k - 1)
      <4>1. i \in A /\ Cardinality(Below(i)) < k BY <3>1
      <4> HIDE DEF D, Below
      <4>2. Cardinality(Below(i)) \in Nat BY <1>1, <4>1
      <4> QED BY <4>1, <4>2
    <3> HIDE DEF D, Below
    <3> QED BY <3>1
  <2>2. ASSUME NEW i \in D, NEW j \in D, rank[i] = rank[j] PROVE i = j
    <3> HIDE DEF Below
    <3>1. i \in Nat /\ j \in Nat /\ ~(i < j) /\ ~(j < i)
      BY <1>1, <1>2, <2>2
    <3> QED BY <3>1
  <2> HIDE DEF D, rank
  <2> QED BY <2>1, <2>2 DEF Injection, IsInjective
<1>4. IsFiniteSet(0..(k - 1)) /\ Cardinality(0..(k - 1)) = k
  BY FS_Interval
<1>5. IsFiniteSet(D) /\ Cardinality(D) <= k
  <2> HIDE DEF D, rank
  <2> QED BY <1>3, <1>4, FS_Injection
<1> QED BY <1>5

-----------------------------------------------------------------------------
\* Only interfaces have a series besides the aggregate.
SeriesInv == up \subseteq Ifaces /\ Series \subseteq Ifaces /\ SeriesCapped

LEMMA SeriesAfterRecord == ASSUME Record, up \subseteq Ifaces PROVE Series' = Kept
<1>1. DOMAIN totals' = Kept \cup {All} BY DEF Record, TotalsAfter, RatesAfter
<1>2. All \notin Kept BY TrafficConstants
  DEF Kept, Series
<1> QED BY <1>1, <1>2 DEF Series

LEMMA SeriesInvariant == Spec => []SeriesInv
<1>1. Init => SeriesInv
  <2>1. Cardinality({}) = 0 BY FS_EmptySet
  <2> QED BY <2>1, TrafficConstants DEF Init, SeriesInv, SeriesCapped, Series, EmptyFunction
<1>2. SeriesInv /\ [Next]_vars => SeriesInv'
  <2> SUFFICES ASSUME SeriesInv, [Next]_vars PROVE SeriesInv'
    OBVIOUS
  <2>1. CASE Record
    <3> DEFINE A == up \ Series
               k == MaxSeries - Cardinality(Series)
               D == {i \in A : Cardinality({j \in A : j < i}) < k}
    <3>1. /\ IsFiniteSet(Series) /\ IsFiniteSet(A) /\ A \in SUBSET Nat
          /\ Cardinality(Series) \in Nat
          /\ \A i \in A : Cardinality({j \in A : j < i}) \in Nat
      BY TrafficConstants, FS_Subset, FS_CardinalityType DEF SeriesInv
    <3>2. k \in Nat BY <3>1, TrafficConstants DEF SeriesInv, SeriesCapped
    <3>3. IsFiniteSet(D) /\ Cardinality(D) <= k BY <3>1, <3>2, RankBound
    <3>4. Kept = (Series \cap up) \cup D
      BY <3>1, TrafficConstants DEF Kept, Admitted
    <3>5. IsFiniteSet(Series \cap up) /\ Cardinality(Series \cap up) <= Cardinality(Series)
      BY <3>1, FS_Intersection
    <3>6. Cardinality(Kept) <= MaxSeries
      <4> HIDE DEF D, k
      <4>1. /\ Cardinality(Kept) =
                  Cardinality(Series \cap up) + Cardinality(D)
                  - Cardinality((Series \cap up) \cap D)
            /\ Cardinality((Series \cap up) \cap D) \in Nat
            /\ Cardinality(Series \cap up) \in Nat /\ Cardinality(D) \in Nat
        BY <3>3, <3>4, <3>5, FS_Union, FS_Intersection, FS_CardinalityType
      <4>2. Cardinality(D) <= MaxSeries - Cardinality(Series) BY <3>3 DEF k
      <4> QED BY <3>1, <3>5, <4>1, <4>2, TrafficConstants
    <3>7. Kept \subseteq Ifaces BY DEF Kept, SeriesInv
    <3> QED BY <2>1, <3>6, <3>7, SeriesAfterRecord DEF Record, TotalsAfter, RatesAfter, SeriesInv, SeriesCapped
  <2>2. CASE Clear
    <3>1. Series' = {} BY <2>2 DEF Clear, Series, EmptyFunction
    <3> QED BY <2>2, <3>1, FS_EmptySet, TrafficConstants DEF Clear, SeriesInv, SeriesCapped
  <2>3. CASE Resize BY <2>3 DEF Resize, SeriesInv, SeriesCapped, Series
  <2>4. ASSUME NEW i \in Ifaces, TrafficPasses(i) \/ CountersReset(i) \/ EntryComesOrGoes(i)
        PROVE  SeriesInv'
    BY <2>4 DEF TrafficPasses, CountersReset, EntryComesOrGoes, SeriesInv, SeriesCapped, Series
  <2>5. CASE UNCHANGED vars BY <2>5 DEF vars, SeriesInv, SeriesCapped, Series
  <2> QED BY <2>1, <2>2, <2>3, <2>4, <2>5 DEF Next
<1> QED BY <1>1, <1>2, PTL DEF Spec

\* However interfaces come and go between refreshes, there are never more series
\* than the cap, so the memory of the history is bounded.
THEOREM CapHolds == Spec => []SeriesCapped
BY SeriesInvariant, PTL DEF SeriesInv

-----------------------------------------------------------------------------
Traffic == 0..MaxTraffic

\* Counters count what has passed since a reset that is not in the future.
CountersInv ==
    /\ passed \in [Ifaces -> [Metrics -> Traffic]]
    /\ epoch \in [Ifaces -> [Metrics -> Traffic]]
    /\ seen \in [Ifaces -> [Metrics -> Traffic]]
    /\ \A i \in Ifaces, m \in Metrics :
          epoch[i][m] <= passed[i][m] /\ seen[i][m] <= passed[i][m]

\* A baseline is of the last record(), or of an interface beyond the cap; it may be
\* too large (taken before a reset), never too small.
BaselineInv ==
    /\ up \subseteq Ifaces /\ DOMAIN baselines \subseteq Ifaces
    /\ DOMAIN baselines \subseteq Series \cup beyond
    /\ \A i \in DOMAIN baselines : baselines[i] \in [Metrics -> Traffic]
    /\ \A i \in DOMAIN baselines \ beyond : \A m \in Metrics :
          seen[i][m] - epoch[i][m] <= baselines[i][m]

LEMMA CounterType ==
  ASSUME CountersInv, NEW i \in Ifaces
  PROVE  /\ Counter(i) \in [Metrics -> Traffic]
         /\ \A m \in Metrics : Counter(i)[m] = passed[i][m] - epoch[i][m]
<1>1. ASSUME NEW m \in Metrics PROVE passed[i][m] - epoch[i][m] \in Traffic
  <2>1. passed[i][m] \in Traffic /\ epoch[i][m] \in Traffic /\ epoch[i][m] <= passed[i][m]
    BY DEF CountersInv
  <2> QED BY <2>1, TrafficConstants DEF Traffic
<1> QED BY <1>1 DEF Counter

LEMMA CountersInvariant == Spec => []CountersInv
<1>1. Init => CountersInv
  BY TrafficConstants DEF Init, CountersInv, Traffic
<1>2. CountersInv /\ [Next]_vars => CountersInv'
  <2> SUFFICES ASSUME CountersInv, [Next]_vars PROVE CountersInv'
    OBVIOUS
  <2>1. CASE Record \/ Clear \/ Resize
    <3>1. UNCHANGED <<passed, epoch>> /\ seen' \in {seen, passed}
      BY <2>1 DEF Record, TotalsAfter, RatesAfter, Clear, Resize
    <3>2. \A i \in Ifaces, m \in Metrics : passed[i][m] \in Nat
      BY TrafficConstants DEF CountersInv, Traffic
    <3> QED BY <3>1, <3>2 DEF CountersInv
  <2>2. ASSUME NEW i \in Ifaces, TrafficPasses(i) PROVE CountersInv'
    <3>1. PICK m \in Metrics :
             passed[i][m] < MaxTraffic /\ passed' = [passed EXCEPT ![i][m] = @ + 1]
      BY <2>2 DEF TrafficPasses
    <3>2. UNCHANGED <<epoch, seen>> BY <2>2 DEF TrafficPasses
    <3>3. passed[i][m] \in Nat /\ passed[i][m] + 1 \in Traffic
      BY <3>1, TrafficConstants DEF CountersInv, Traffic
    <3>4. passed' \in [Ifaces -> [Metrics -> Traffic]] BY <3>1, <3>3 DEF CountersInv
    <3>5. ASSUME NEW j \in Ifaces, NEW n \in Metrics
          PROVE  epoch[j][n] <= passed'[j][n] /\ seen[j][n] <= passed'[j][n]
      <4>1. passed'[j][n] = IF j = i /\ n = m THEN passed[j][n] + 1 ELSE passed[j][n]
        BY <3>1 DEF CountersInv
      <4>2. /\ epoch[j][n] <= passed[j][n] /\ seen[j][n] <= passed[j][n]
            /\ epoch[j][n] \in Nat /\ seen[j][n] \in Nat /\ passed[j][n] \in Nat
        BY TrafficConstants DEF CountersInv, Traffic
      <4> QED BY <4>1, <4>2
    <3> QED BY <3>2, <3>4, <3>5 DEF CountersInv
  <2>3. ASSUME NEW i \in Ifaces, CountersReset(i) PROVE CountersInv'
    <3>1. UNCHANGED <<passed, seen>> /\ epoch' = [epoch EXCEPT ![i] = passed[i]]
      BY <2>3 DEF CountersReset
    <3>2. \A j \in Ifaces, m \in Metrics : passed[j][m] \in Nat
      BY TrafficConstants DEF CountersInv, Traffic
    <3> QED BY <3>1, <3>2 DEF CountersInv
  <2>4. ASSUME NEW i \in Ifaces, EntryComesOrGoes(i) PROVE CountersInv'
    BY <2>4 DEF EntryComesOrGoes, CountersInv
  <2>5. CASE UNCHANGED vars BY <2>5 DEF vars, CountersInv
  <2> QED BY <2>1, <2>2, <2>3, <2>4, <2>5 DEF Next
<1> QED BY <1>1, <1>2, PTL DEF Spec

LEMMA BaselineInvariant == Spec => []BaselineInv
<1>1. Init => BaselineInv BY DEF Init, BaselineInv, EmptyFunction
<1>2. CountersInv /\ BaselineInv /\ [Next]_vars => BaselineInv'
  <2> SUFFICES ASSUME CountersInv, BaselineInv, [Next]_vars PROVE BaselineInv'
    OBVIOUS
  <2>1. CASE Record
    <3> DEFINE B == (DOMAIN baselines \cup up) \ Pruned
    <3>1. /\ baselines' = [i \in B |-> IF i \in up THEN Counter(i) ELSE baselines[i]]
          /\ beyond' = (beyond \cup up) \ Kept
          /\ seen' = passed /\ UNCHANGED <<epoch, up>>
      BY <2>1 DEF Record, TotalsAfter, RatesAfter
    <3>2. Series' = Kept BY <2>1, SeriesAfterRecord DEF BaselineInv
    <3>3. ASSUME NEW i \in B, i \notin up PROVE i \in beyond /\ i \notin Kept
      BY <3>3 DEF BaselineInv, Pruned, Kept
    <3>4. DOMAIN baselines' = B /\ B \subseteq Ifaces BY <3>1 DEF BaselineInv
    <3>5. B \subseteq Series' \cup beyond' BY <3>1, <3>2, <3>3
    <3>6. ASSUME NEW i \in B PROVE baselines'[i] \in [Metrics -> Traffic]
      <4>1. CASE i \in up BY <3>1, <4>1, CounterType DEF BaselineInv
      <4>2. CASE i \notin up BY <3>1, <4>2 DEF BaselineInv
      <4> QED BY <4>1, <4>2
    <3>7. ASSUME NEW i \in B \ beyond', NEW m \in Metrics
          PROVE  seen'[i][m] - epoch'[i][m] <= baselines'[i][m]
      <4>1. i \in up /\ i \in Ifaces BY <3>1, <3>3, <3>4
      <4>2. baselines'[i][m] = passed[i][m] - epoch[i][m] BY <3>1, <4>1, CounterType
      <4>3. passed[i][m] - epoch[i][m] \in Traffic BY <4>1, CounterType
      <4> QED BY <3>1, <4>2, <4>3, TrafficConstants DEF Traffic
    <3> HIDE DEF B
    <3> QED BY <3>1, <3>4, <3>5, <3>6, <3>7 DEF BaselineInv
  <2>2. CASE Clear BY <2>2 DEF Clear, BaselineInv, EmptyFunction
  <2>3. CASE Resize
    <3>1. Series' = Series BY <2>3 DEF Resize, Series
    <3> QED BY <2>3, <3>1 DEF Resize, BaselineInv
  <2>4. ASSUME NEW i \in Ifaces, TrafficPasses(i) \/ EntryComesOrGoes(i) PROVE BaselineInv'
    <3>1. Series' = Series /\ UNCHANGED <<epoch, seen, beyond, baselines>>
      BY <2>4 DEF TrafficPasses, EntryComesOrGoes, Series
    <3>2. up' \subseteq Ifaces BY <2>4 DEF TrafficPasses, EntryComesOrGoes, BaselineInv
    <3> QED BY <3>1, <3>2 DEF BaselineInv
  <2>5. ASSUME NEW i \in Ifaces, CountersReset(i) PROVE BaselineInv'
    <3>1. /\ Series' = Series /\ UNCHANGED <<passed, up, seen, beyond, baselines>>
          /\ epoch' = [epoch EXCEPT ![i] = passed[i]]
      BY <2>5 DEF CountersReset, Series
    <3>2. ASSUME NEW j \in DOMAIN baselines \ beyond, NEW m \in Metrics
          PROVE  seen[j][m] - epoch'[j][m] <= baselines[j][m]
      <4>1. /\ seen[j][m] - epoch[j][m] <= baselines[j][m]
            /\ seen[j][m] \in Traffic /\ epoch[j][m] \in Traffic
            /\ passed[j][m] \in Traffic /\ baselines[j][m] \in Traffic
            /\ epoch[j][m] <= passed[j][m]
        BY DEF BaselineInv, CountersInv
      <4>2. epoch'[j][m] \in {epoch[j][m], passed[j][m]}
        BY <3>1 DEF BaselineInv, CountersInv
      <4> QED BY <4>1, <4>2, TrafficConstants DEF Traffic
    <3> QED BY <3>1, <3>2 DEF BaselineInv
  <2>6. CASE UNCHANGED vars BY <2>6 DEF vars, BaselineInv, Series
  <2> QED BY <2>1, <2>2, <2>3, <2>4, <2>5, <2>6 DEF Next
<1> QED BY <1>1, <1>2, CountersInvariant, PTL DEF Spec

\* A rate is traffic of the window since the last refresh: no reset of the
\* counters and no refresh without the interface turns into a spike.
THEOREM NoSpike == Spec => RatesAreOfTheWindow
<1>1. CountersInv /\ BaselineInv /\ [Next]_vars =>
        [Record => \A i \in up \ beyond : rates'[i] # NoRates =>
            \A m \in Metrics : rates'[i][m] <= passed[i][m] - seen[i][m]]_vars
  <2> SUFFICES ASSUME CountersInv, BaselineInv, Record,
                      NEW i \in up \ beyond, rates'[i] # NoRates, NEW m \in Metrics
               PROVE  rates'[i][m] <= passed[i][m] - seen[i][m]
    OBVIOUS
  <2>1. i \in Ifaces /\ i # All BY TrafficConstants DEF BaselineInv
  <2>2. rates'[i] = WindowRates(i) BY <2>1 DEF Record, TotalsAfter, RatesAfter
  <2>3. i \in DOMAIN baselines /\ ~Decreased(baselines[i], Counter(i))
    BY <2>2 DEF WindowRates, DerivedRates
  <2>4. rates'[i][m] = (Counter(i)[m] - baselines[i][m]) % Wrap
    BY <2>2, <2>3 DEF WindowRates, DerivedRates
  <2>5. /\ Counter(i)[m] = passed[i][m] - epoch[i][m] /\ Counter(i)[m] \in Traffic
        /\ baselines[i][m] \in Traffic /\ ~(Counter(i)[m] < baselines[i][m])
    BY <2>1, <2>3, CounterType DEF BaselineInv, Decreased
  <2>6. /\ passed[i][m] \in Int /\ epoch[i][m] \in Int /\ seen[i][m] \in Int
        /\ seen[i][m] - epoch[i][m] <= baselines[i][m]
    BY <2>1, <2>3, TrafficConstants DEF CountersInv, BaselineInv, Traffic
  <2>7. (Counter(i)[m] - baselines[i][m]) % Wrap = Counter(i)[m] - baselines[i][m]
    <3>1. \A d \in Nat, w \in Nat : d < w => d % w = d OBVIOUS
    <3>2. Counter(i)[m] - baselines[i][m] \in Nat /\ Counter(i)[m] - baselines[i][m] < Wrap
      BY <2>5, TrafficConstants DEF Traffic
    <3> QED BY <3>1, <3>2, TrafficConstants
  <2> QED BY <2>4, <2>5, <2>6, <2>7, TrafficConstants DEF Traffic
<1> QED BY <1>1, CountersInvariant, BaselineInvariant, PTL DEF Spec, RatesAreOfTheWindow

-----------------------------------------------------------------------------
(* The histories of the counters of links.                                 *)

LinkSamples ==
    [fresh : BOOLEAN, own : BOOLEAN, count : Nat, truth : Nat, mtu : Nat,
     rate : [own : BOOLEAN, moved : Int, real : Int]]

\* A sample that may serve as a baseline, of a counter that was the link's own; and what the
\* link counted that the counter does not show, as it was lost when the driver was loaded again.
Reliable(s) == s.fresh /\ s.own
Lost(s) == s.truth - s.count

\* No rate exceeds what was counted; from sample to sample, the link counted more and lost more.
GoodSamples(samples) ==
    /\ \A k \in DOMAIN samples :
          samples[k].rate.own => samples[k].rate.moved <= samples[k].rate.real
    /\ \A j, k \in DOMAIN samples : j < k =>
          /\ samples[j].truth <= samples[k].truth
          /\ Reliable(samples[j]) /\ Reliable(samples[k]) => Lost(samples[j]) <= Lost(samples[k])

\* All samples are from before a link had counted and lost this much.
Before(samples, truth, lost) ==
    \A k \in DOMAIN samples :
        /\ samples[k].truth <= truth
        /\ Reliable(samples[k]) => Lost(samples[k]) <= lost

\* All samples are from before something that was read, or is a sample itself.
Later(samples, read) ==
    \A k \in DOMAIN samples :
        /\ samples[k].truth <= read.truth
        /\ Reliable(samples[k]) /\ Reliable(read) => Lost(samples[k]) <= Lost(read)

LinkInv ==
    /\ units \in [Links -> Nat] /\ restarted \in [Links -> Nat]
    /\ \A d \in Links : restarted[d] <= units[d]
    /\ DOMAIN names \subseteq Links /\ DOMAIN discovered \subseteq Links
    /\ room \in Nat \ {0} /\ DOMAIN tracked \subseteq Links
    /\ \A d \in DOMAIN tracked :
          /\ "samples" \in DOMAIN tracked[d] /\ tracked[d].samples \in Seq(LinkSamples)
          /\ GoodSamples(tracked[d].samples)
          /\ Before(tracked[d].samples, units[d], restarted[d])
    \* The snapshot that waits for the monitor is of before now and after all samples.
    /\ due => \A d \in DOMAIN discovered :
          /\ discovered[d].known \in BOOLEAN
          /\ discovered[d].count \in Nat /\ discovered[d].truth \in Nat
          /\ discovered[d].truth <= units[d] /\ Lost(discovered[d]) <= restarted[d]
          /\ d \in DOMAIN tracked =>
                Before(tracked[d].samples, discovered[d].truth, Lost(discovered[d]))

-----------------------------------------------------------------------------
\* Baselines are samples that were read, in their order.
BaselinesOf(samples) ==
    LET read == Baselines(samples)
    IN /\ read \in Seq(LinkSamples) /\ Len(read) \in Nat
       /\ \E place \in [1 .. Len(read) -> DOMAIN samples] :
             /\ \A n \in 1 .. Len(read) : read[n] = samples[place[n]] /\ samples[place[n]].fresh
             /\ \A m, n \in 1 .. Len(read) : m < n => place[m] < place[n]

LEMMA BaselinesFacts ==
    ASSUME NEW samples \in Seq(LinkSamples)
    PROVE  BaselinesOf(samples)
  <1> DEFINE places == {k \in DOMAIN samples : samples[k].fresh}
             read == Picked(samples, places)
             place == [n \in 1 .. Cardinality(places) |-> Nth(places, n)]
  <1>1. DOMAIN samples = 1 .. Len(samples) /\ Len(samples) \in Nat
    BY LenProperties
  <1>2. places \in SUBSET (1 .. Len(samples))
    BY <1>1
  <1>3. \A k \in places : samples[k].fresh /\ k \in DOMAIN samples
    OBVIOUS
  <1>4. read = Baselines(samples)
    BY DEF Baselines
  <1> HIDE DEF places
  <1>5. /\ IsFiniteSet(places) /\ places \in SUBSET Nat
        /\ read \in Seq(LinkSamples) /\ Len(read) = Cardinality(places)
    BY Zenon, <1>2, PickedIsSeq
  <1>6. /\ Cardinality(places) \in Nat
        /\ \A n \in 1 .. Cardinality(places) :
              Nth(places, n) \in places /\ read[n] = samples[Nth(places, n)]
        /\ \A m, n \in 1 .. Cardinality(places) : m < n => Nth(places, m) < Nth(places, n)
    BY Zenon, <1>5, PickedEntries
  <1> HIDE DEF read
  <1>7. /\ place \in [1 .. Len(read) -> DOMAIN samples]
        /\ \A n \in 1 .. Len(read) : place[n] = Nth(places, n)
    BY <1>3, <1>5, <1>6
  <1> HIDE DEF place
  <1>8. \A n \in 1 .. Len(read) : read[n] = samples[place[n]] /\ samples[place[n]].fresh
    BY Zenon, <1>3, <1>5, <1>6, <1>7
  <1>9. \A m, n \in 1 .. Len(read) : m < n => place[m] < place[n]
    BY <1>5, <1>6, <1>7
  <1>10. Len(read) \in Nat
    BY <1>5, <1>6
  <1> QED
    BY Zenon, <1>4, <1>5, <1>7, <1>8, <1>9, <1>10 DEF BaselinesOf

GoodRate(rate) ==
    rate \in [own : BOOLEAN, moved : Int, real : Int] /\ (rate.own => rate.moved <= rate.real)

\* What was read, later than every sample.
Reads == [fresh : BOOLEAN, own : BOOLEAN, count : Nat, truth : Nat, mtu : Nat]

LEMMA RateFacts ==
    ASSUME NEW samples \in Seq(LinkSamples), NEW read \in Reads,
           Later(samples, read)
    PROVE  GoodRate(RateFrom(Baselines(samples), read))
  <1> DEFINE b == Baselines(samples)
             rate == RateFrom(b, read)
             last == b[Len(b)]
  <1>1. BaselinesOf(samples)
    BY BaselinesFacts
  <1>2. b \in Seq(LinkSamples) /\ Len(b) \in Nat
    BY Zenon, <1>1 DEF BaselinesOf
  <1>3. PICK place \in [1 .. Len(b) -> DOMAIN samples] :
           \A n \in 1 .. Len(b) : b[n] = samples[place[n]] /\ samples[place[n]].fresh
    BY Zenon, <1>1 DEF BaselinesOf
  <1> HIDE DEF b
  <1>4. rate = IF ~ read.fresh \/ b = <<>> THEN NoRate
               ELSE IF read.count < Last(b).count THEN NoRate
               ELSE [own |-> read.own /\ Last(b).own, moved |-> read.count - Last(b).count,
                     real |-> read.truth - Last(b).truth]
    BY Zenon DEF RateFrom
  <1>5. Last(b) = last
    BY DEF Last
  <1>6. GoodRate(NoRate)
    BY DEF NoRate, GoodRate
  <1>7. CASE ~ read.fresh \/ b = <<>>
    <2>1. rate = NoRate
      BY Zenon, <1>4, <1>7
    <2> QED
      BY Zenon, <1>6, <2>1 DEF b
  <1>8. CASE ~ (~ read.fresh \/ b = <<>>)
    <2>1. Len(b) \in 1 .. Len(b)
      BY <1>2, <1>8, EmptySeq
    <2>2. /\ last \in LinkSamples /\ place[Len(b)] \in DOMAIN samples
          /\ last = samples[place[Len(b)]] /\ last.fresh
      BY <1>2, <1>3, <2>1, ElementOfSeq
    <2>3. read.own /\ last.own => Lost(last) <= Lost(read)
      BY Zenon, <1>8, <2>2 DEF Later, Reliable
    <2> HIDE DEF last
    <2>4. /\ last.count \in Nat /\ last.truth \in Nat
          /\ read.count \in Nat /\ read.truth \in Nat
      BY <2>2 DEF LinkSamples, Reads
    <2>10. last.own \in BOOLEAN /\ read.own \in BOOLEAN
      BY <2>2 DEF LinkSamples, Reads
    <2>5. /\ read.count - last.count \in Int /\ read.truth - last.truth \in Int
          /\ Lost(last) <= Lost(read) => read.count - last.count <= read.truth - last.truth
      <3>1. \A c, e, t, u \in Nat :
               /\ e - c \in Int /\ u - t \in Int
               /\ t - c <= u - e => e - c <= u - t
        OBVIOUS
      <3> QED
        BY Zenon, <2>4, <3>1 DEF Lost
    <2>6. CASE read.count < last.count
      <3>1. rate = NoRate
        BY Zenon, <1>4, <1>5, <1>8, <2>6
      <3> QED
        BY Zenon, <1>6, <3>1 DEF b
    <2>7. CASE ~ (read.count < last.count)
      <3> DEFINE o == read.own /\ last.own
                 m == read.count - last.count
                 r == read.truth - last.truth
      <3>1. rate = [own |-> o, moved |-> m, real |-> r]
        BY Zenon, <1>4, <1>5, <1>8, <2>7
      <3>2. o \in BOOLEAN /\ m \in Int /\ r \in Int /\ (o => m <= r)
        BY Zenon, <2>3, <2>5, <2>10
      <3> HIDE DEF o, m, r, rate
      <3>3. rate \in [own : BOOLEAN, moved : Int, real : Int]
        BY <3>1, <3>2
      <3>4. rate.own = o /\ rate.moved = m /\ rate.real = r
        BY Zenon, <3>1
      <3> QED
        BY Zenon, <3>2, <3>3, <3>4 DEF rate, b, GoodRate
    <2> QED
      BY <2>6, <2>7
  <1> QED
    BY <1>7, <1>8

LEMMA SampleFacts ==
    ASSUME NEW samples \in Seq(LinkSamples), NEW read \in Reads,
           Later(samples, read)
    PROVE  LET s == SampleOf(samples, read)
           IN /\ s \in LinkSamples /\ s.truth = read.truth
              /\ s.rate.own => s.rate.moved <= s.rate.real
              /\ Reliable(s) => Reliable(read) /\ Lost(s) = Lost(read)
  <1> DEFINE rate == RateFrom(Baselines(samples), read)
             count == IF read.fresh THEN read.count ELSE LastOf(samples, "count", 0)
             mtu == IF read.mtu # Missing THEN read.mtu ELSE LastOf(samples, "mtu", Missing)
             s == SampleOf(samples, read)
  <1>1. rate \in [own : BOOLEAN, moved : Int, real : Int] /\ (rate.own => rate.moved <= rate.real)
    BY Zenon, RateFacts DEF GoodRate
  <1>2. s = [fresh |-> read.fresh, own |-> read.own, count |-> count, truth |-> read.truth,
             mtu |-> mtu, rate |-> rate]
    BY Zenon DEF SampleOf
  <1> HIDE DEF rate
  <1>3. samples = <<>> \/ Last(samples) \in LinkSamples
    BY EmptySeq, ElementOfSeq, LenProperties DEF Last
  <1>4. LastOf(samples, "count", 0) \in Nat /\ LastOf(samples, "mtu", Missing) \in Nat
    <2>1. CASE samples = <<>>
      BY <2>1 DEF LastOf, Missing
    <2>2. CASE samples # <<>>
      <3>1. Last(samples).count \in Nat /\ Last(samples).mtu \in Nat
        BY <1>3, <2>2 DEF LinkSamples
      <3>2. /\ LastOf(samples, "count", 0) = Last(samples).count
            /\ LastOf(samples, "mtu", Missing) = Last(samples).mtu
        BY <2>2 DEF LastOf
      <3> QED
        BY <3>1, <3>2
    <2> QED
      BY <2>1, <2>2
  <1>5. /\ read.fresh \in BOOLEAN /\ read.own \in BOOLEAN /\ read.count \in Nat
        /\ read.truth \in Nat /\ read.mtu \in Nat
    BY DEF Reads
  <1>6. count \in Nat /\ mtu \in Nat /\ (read.fresh => count = read.count)
    BY Zenon, <1>4, <1>5
  <1> HIDE DEF count, mtu, s
  <1>7. s \in LinkSamples
    BY <1>1, <1>2, <1>5, <1>6 DEF LinkSamples
  <1>8. /\ s.fresh = read.fresh /\ s.own = read.own /\ s.truth = read.truth /\ s.rate = rate
        /\ s.count = count
    BY Zenon, <1>2
  <1>9. Reliable(s) => Reliable(read) /\ Lost(s) = Lost(read)
    BY Zenon, <1>6, <1>8 DEF Reliable, Lost
  <1> QED
    BY Zenon, <1>1, <1>7, <1>8, <1>9 DEF s

-----------------------------------------------------------------------------
\* One more sample in the history, which is then cut to its room.
LEMMA CutFacts ==
    ASSUME NEW all \in Seq(LinkSamples), Len(all) \in Nat \ {0}, room \in Nat \ {0}
    PROVE  /\ Retaining(all) \in Seq(LinkSamples)
           /\ \E from \in Nat :
                 \A k \in DOMAIN Retaining(all) :
                    from + k \in DOMAIN all /\ Retaining(all)[k] = all[from + k]
  <1> DEFINE n == Len(all)
             first == IF n > room THEN n - room + 1 ELSE 1
             new == SubSeq(all, first, n)
  <1>1. DOMAIN all = 1 .. n /\ \A k \in 1 .. n : all[k] \in LinkSamples
    BY ElementOfSeq, LenProperties
  <1>2. first \in 1 .. n
    OBVIOUS
  <1>3. new = Retaining(all)
    BY DEF Retaining
  <1> HIDE DEF n, first
  <1>4. \A k \in first .. n : all[k] \in LinkSamples
    BY <1>1, <1>2
  <1>5. n \in Nat /\ first \in Int
    BY <1>2 DEF n
  <1>6. /\ new \in Seq(LinkSamples)
        /\ Len(new) = IF first <= n THEN n - first + 1 ELSE 0
        /\ \A k \in 1 .. n - first + 1 : new[k] = all[first + k - 1]
    BY <1>4, <1>5, SubSeqProperties
  <1> HIDE DEF new
  <1>7. DOMAIN new = 1 .. n - first + 1
    BY <1>2, <1>5, <1>6, LenProperties
  <1>8. first - 1 \in Nat /\ \A k \in DOMAIN new : /\ (first - 1) + k \in DOMAIN all
                                                   /\ first + k - 1 = (first - 1) + k
    BY <1>1, <1>2, <1>5, <1>7
  <1>9. \A k \in DOMAIN new : new[k] = all[(first - 1) + k]
    BY <1>6, <1>7, <1>8
  <1> QED
    BY Zenon, <1>3, <1>6, <1>8, <1>9

\* What a history with one more sample keeps.
KeptIn(samples, s, new) ==
    /\ new \in Seq(LinkSamples) /\ GoodSamples(new)
    /\ \A truth \in Nat, lost \in Int :
          /\ Before(samples, truth, lost) /\ s.truth <= truth /\ (Reliable(s) => Lost(s) <= lost)
          => Before(new, truth, lost)

LEMMA HistoryFacts ==
    ASSUME NEW samples \in Seq(LinkSamples), GoodSamples(samples), NEW s \in LinkSamples,
           s.rate.own => s.rate.moved <= s.rate.real, Later(samples, s), room \in Nat \ {0}
    PROVE  KeptIn(samples, s, Retaining(Append(samples, s)))
  <1> DEFINE all == Append(samples, s)
             n == Len(samples)
             new == Retaining(all)
  <1>1. /\ n \in Nat /\ DOMAIN samples = 1 .. n
        /\ all \in Seq(LinkSamples) /\ Len(all) = n + 1
        /\ all[n + 1] = s /\ \A k \in 1 .. n : all[k] = samples[k]
    BY LenProperties, AppendProperties
  <1>2. DOMAIN all = 1 .. n + 1
    BY <1>1, LenProperties
  <1> HIDE DEF n, all
  <1>3. \A k \in DOMAIN all : (k = n + 1 /\ all[k] = s) \/ (k \in DOMAIN samples /\ all[k] = samples[k])
    BY <1>1, <1>2
  <1>4. GoodSamples(all)
    <2>1. \A k \in DOMAIN all : all[k].rate.own => all[k].rate.moved <= all[k].rate.real
      BY Zenon, <1>3 DEF GoodSamples
    <2>2. ASSUME NEW j \in DOMAIN all, NEW k \in DOMAIN all, j < k
          PROVE  /\ all[j].truth <= all[k].truth
                 /\ Reliable(all[j]) /\ Reliable(all[k]) => Lost(all[j]) <= Lost(all[k])
      <3>1. j \in DOMAIN samples /\ all[j] = samples[j]
        BY <1>1, <1>2, <1>3, <2>2
      <3>2. CASE k = n + 1 /\ all[k] = s
        BY Zenon, <3>1, <3>2 DEF Later
      <3>3. CASE k \in DOMAIN samples /\ all[k] = samples[k]
        BY Zenon, <2>2, <3>1, <3>3 DEF GoodSamples
      <3> QED
        BY Zenon, <1>3, <3>2, <3>3
    <2> QED
      BY Zenon, <2>1, <2>2 DEF GoodSamples
  <1>6. Len(all) \in Nat \ {0}
    BY <1>1
  <1>5. PICK from \in Nat :
           \A k \in DOMAIN new : from + k \in DOMAIN all /\ new[k] = all[from + k]
    BY Zenon, <1>1, <1>6, CutFacts
  <1>7. new \in Seq(LinkSamples)
    BY <1>1, <1>6, CutFacts
  <1>8. DOMAIN new = 1 .. Len(new) /\ Len(new) \in Nat
    BY <1>7, LenProperties
  <1> HIDE DEF new
  <1>9. GoodSamples(new)
    <2>1. \A j, k \in DOMAIN new : j < k => from + j < from + k
      BY <1>5, <1>8
    <2> QED
      BY Zenon, <1>4, <1>5, <2>1 DEF GoodSamples
  <1>10. ASSUME NEW truth \in Nat, NEW lost \in Int, Before(samples, truth, lost),
                s.truth <= truth, Reliable(s) => Lost(s) <= lost
         PROVE  Before(new, truth, lost)
    <2>1. \A k \in DOMAIN all : all[k].truth <= truth /\ (Reliable(all[k]) => Lost(all[k]) <= lost)
      BY Zenon, <1>3, <1>10 DEF Before
    <2> QED
      BY Zenon, <1>5, <2>1 DEF Before
  <1>11. KeptIn(samples, s, new)
    BY Zenon, <1>7, <1>9, <1>10 DEF KeptIn
  <1> QED
    BY Zenon, <1>11 DEF new, all

-----------------------------------------------------------------------------
\* What is read of a link is of after all its samples.
ReadFor(d, read) ==
    /\ read \in Reads /\ read.truth <= units[d]
    /\ Reliable(read) => Lost(read) <= restarted[d]
    /\ d \in DOMAIN tracked => Later(tracked[d].samples, read)

LEMMA ReadFacts ==
    ASSUME LinkInv, due, NEW d \in DOMAIN discovered, NEW file, NEW mtu \in Nat
    PROVE  ReadFor(d, ReadOf(d, file, mtu))
  <1> DEFINE read == ReadOf(d, file, mtu)
             found == discovered[d]
  <1>1. /\ d \in Links /\ units \in [Links -> Nat] /\ restarted \in [Links -> Nat]
        /\ \A e \in Links : restarted[e] <= units[e]
        /\ DOMAIN names \subseteq Links
    BY DEF LinkInv
  <1>2. /\ found.known \in BOOLEAN /\ found.count \in Nat /\ found.truth \in Nat
        /\ found.truth <= units[d] /\ Lost(found) <= restarted[d]
        /\ d \in DOMAIN tracked => Before(tracked[d].samples, found.truth, Lost(found))
    BY Zenon DEF LinkInv
  <1>3. d \in DOMAIN tracked => Before(tracked[d].samples, units[d], restarted[d])
    BY Zenon DEF LinkInv
  <1>4. 0 \in Nat /\ Missing \in Nat /\ units[d] \in Nat /\ restarted[d] \in Nat /\ units[d] <= units[d]
    BY <1>1 DEF Missing
  <1>5. CASE counting = "packets"
    <2> DEFINE m == IF FileOf(d, file) = "ok" THEN mtu ELSE Missing
    <2>1. read = [fresh |-> found.known, own |-> TRUE, count |-> found.count,
                  truth |-> found.truth, mtu |-> m]
      BY Zenon, <1>5 DEF ReadOf
    <2>2. m \in Nat
      BY <1>4
    <2> HIDE DEF m, read
    <2>3. found.known \in BOOLEAN /\ TRUE \in BOOLEAN
      BY Zenon, <1>2
    <2> HIDE DEF found
    <2>4. read \in Reads
      BY <1>2, <2>1, <2>2, <2>3 DEF Reads
    <2>5. read.truth = found.truth /\ read.count = found.count
      BY Zenon, <2>1
    <2>6. Lost(read) = Lost(found)
      BY Zenon, <2>5 DEF Lost
    <2>7. d \in DOMAIN tracked => Later(tracked[d].samples, read)
      BY Zenon, <1>2, <2>5, <2>6 DEF Before, Later
    <2>8. ReadFor(d, read)
      BY Zenon, <1>2, <2>4, <2>5, <2>6, <2>7 DEF ReadFor
    <2> QED
      BY Zenon, <2>8 DEF read
  <1>6. CASE counting # "packets" /\ FileOf(d, file) = "ok"
    <2> DEFINE owner == Owned(d)
               c == units[owner] - restarted[owner]
    <2>1. read = [fresh |-> TRUE, own |-> (owner = d), count |-> c, truth |-> units[d],
                  mtu |-> Missing]
      BY Zenon, <1>6 DEF ReadOf
    <2>2. owner \in Owner(discovered[d].name)
      <3>1. Owner(discovered[d].name) # {}
        BY Zenon, <1>6 DEF FileOf
      <3> QED
        BY <3>1 DEF Owned
    <2>3. owner \in Links
      BY <1>1, <2>2 DEF Owner
    <2> HIDE DEF owner
    <2>4. c \in Nat
      BY <1>1, <2>3
    <2>5. owner = d => units[d] - c = restarted[d]
      BY <1>1, <2>3
    <2> DEFINE o == owner = d
    <2>6. o \in BOOLEAN /\ TRUE \in BOOLEAN
      OBVIOUS
    <2> HIDE DEF read, c, o
    <2>7. read = [fresh |-> TRUE, own |-> o, count |-> c, truth |-> units[d], mtu |-> Missing]
      BY Zenon, <2>1 DEF o
    <2>8. read \in Reads
      BY <1>4, <2>4, <2>6, <2>7 DEF Reads
    <2>9. read.truth = units[d] /\ read.count = c /\ read.own = o
      BY Zenon, <2>7
    <2>10. Reliable(read) => Lost(read) = restarted[d]
      BY Zenon, <2>5, <2>9 DEF Lost, Reliable, o
    <2>11. d \in DOMAIN tracked => Later(tracked[d].samples, read)
      BY Zenon, <1>3, <2>9, <2>10 DEF Before, Later
    <2>12. restarted[d] <= restarted[d]
      BY <1>4
    <2>13. ReadFor(d, read)
      BY Zenon, <1>4, <2>8, <2>9, <2>10, <2>11, <2>12 DEF ReadFor
    <2> QED
      BY Zenon, <2>13 DEF read
  <1>7. CASE counting # "packets" /\ FileOf(d, file) # "ok"
    <2>1. read = [fresh |-> FALSE, own |-> TRUE, count |-> 0, truth |-> units[d], mtu |-> Missing]
      BY Zenon, <1>7 DEF ReadOf
    <2> HIDE DEF read
    <2>2. read \in Reads
      BY <1>4, <2>1 DEF Reads
    <2>3. read.truth = units[d] /\ ~ Reliable(read)
      BY Zenon, <2>1 DEF Reliable
    <2>4. d \in DOMAIN tracked => Later(tracked[d].samples, read)
      BY Zenon, <1>3, <2>3 DEF Before, Later
    <2>5. ReadFor(d, read)
      BY Zenon, <1>4, <2>2, <2>3, <2>4 DEF ReadFor
    <2> QED
      BY Zenon, <2>5 DEF read
  <1> QED
    BY <1>5, <1>6, <1>7

-----------------------------------------------------------------------------
(* The steps.                                                              *)

\* An entry whose history is that of its link.
EntryOf(d, entry) ==
    /\ "samples" \in DOMAIN entry /\ entry.samples \in Seq(LinkSamples)
    /\ GoodSamples(entry.samples) /\ Before(entry.samples, units[d], restarted[d])

LEMMA EntryFacts ==
    ASSUME LinkInv, due, NEW d \in DOMAIN discovered, NEW file, NEW mtu \in Nat
    PROVE  EntryOf(d, EntryAfter(d, file, mtu))
  <1> DEFINE entry == IF d \in DOMAIN tracked THEN tracked[d] ELSE NoEntry
             old == entry.samples
             read == ReadOf(d, file, mtu)
             s == SampleOf(old, read)
             kept == Retaining(Append(old, s))
             after == EntryAfter(d, file, mtu)
  <1>1. ReadFor(d, read)
    BY Zenon, ReadFacts
  <1> HIDE DEF read
  <1>2. /\ read \in Reads /\ read.truth <= units[d]
        /\ Reliable(read) => Lost(read) <= restarted[d]
        /\ d \in DOMAIN tracked => Later(tracked[d].samples, read)
    BY Zenon, <1>1 DEF ReadFor
  <1>3. /\ old \in Seq(LinkSamples) /\ GoodSamples(old) /\ Later(old, read)
        /\ Before(old, units[d], restarted[d])
    <2>1. CASE d \in DOMAIN tracked
      <3>1. old = tracked[d].samples
        BY Zenon, <2>1
      <3> QED
        BY Zenon, <1>2, <2>1, <3>1 DEF LinkInv
    <2>2. CASE d \notin DOMAIN tracked
      <3>1. old = <<>>
        BY <2>2 DEF NoEntry
      <3>2. DOMAIN <<>> = {} /\ <<>> \in Seq(LinkSamples)
        BY EmptySeq
      <3>3. GoodSamples(<<>>) /\ Later(<<>>, read) /\ Before(<<>>, units[d], restarted[d])
        BY Zenon, <3>2 DEF GoodSamples, Later, Before
      <3> QED
        BY Zenon, <3>1, <3>2, <3>3
    <2> QED
      BY <2>1, <2>2
  <1> HIDE DEF old
  <1>4. /\ s \in LinkSamples /\ s.truth = read.truth
        /\ s.rate.own => s.rate.moved <= s.rate.real
        /\ Reliable(s) => Reliable(read) /\ Lost(s) = Lost(read)
    BY Zenon, <1>2, <1>3, SampleFacts
  <1> HIDE DEF s
  <1>5. Later(old, s)
    BY Zenon, <1>3, <1>4 DEF Later
  <1>6. room \in Nat \ {0} /\ units[d] \in Nat /\ restarted[d] \in Int
    BY DEF LinkInv
  <1>7. KeptIn(old, s, kept)
    BY Zenon, <1>3, <1>4, <1>5, <1>6, HistoryFacts
  <1>8. "samples" \in DOMAIN after /\ after.samples = kept
    <2>1. after.samples = kept
      BY Zenon DEF EntryAfter, s, old, read
    <2>2. "samples" \in DOMAIN after
      BY DEF EntryAfter
    <2> QED
      BY <2>1, <2>2
  <1> HIDE DEF kept, after
  <1>9. s.truth <= units[d] /\ (Reliable(s) => Lost(s) <= restarted[d])
    BY Zenon, <1>2, <1>4
  <1>10. EntryOf(d, after)
    BY Zenon, <1>3, <1>6, <1>7, <1>8, <1>9 DEF KeptIn, EntryOf
  <1> QED
    BY Zenon, <1>10 DEF after

LEMMA UpdateKeepsLinks == ASSUME LinkInv, Update PROVE LinkInv'
  <1> DEFINE Entries(files, mtu) ==
               [d \in DOMAIN tracked \cup DOMAIN discovered |->
                  IF d \in DOMAIN discovered THEN EntryAfter(d, files[d], mtu)
                  ELSE [tracked[d] EXCEPT !.present = FALSE]]
  <1>1. PICK files \in Files, mtu \in IF counting = "packets" THEN Mtus ELSE {Missing} :
           tracked' = [d \in DOMAIN Entries(files, mtu) \ Evicted(Entries(files, mtu)) |->
                          Entries(files, mtu)[d]]
    BY Zenon DEF Update
  <1>2. mtu \in Nat
    BY DEF Mtus, Missing
  <1>3. /\ due /\ ~ due'
        /\ UNCHANGED <<counting, units, restarted, names, discovered, room>>
    BY DEF Update
  <1> DEFINE entries == Entries(files, mtu)
  <1>4. /\ DOMAIN entries = DOMAIN tracked \cup DOMAIN discovered
        /\ \A d \in DOMAIN entries :
              entries[d] = IF d \in DOMAIN discovered THEN EntryAfter(d, files[d], mtu)
                           ELSE [tracked[d] EXCEPT !.present = FALSE]
    OBVIOUS
  <1> HIDE DEF entries
  <1>5. \A d \in DOMAIN tracked' : d \in DOMAIN entries /\ tracked'[d] = entries[d]
    <2>1. tracked' = [d \in DOMAIN entries \ Evicted(entries) |-> entries[d]]
      BY Zenon, <1>1 DEF entries
    <2> QED
      BY <2>1
  <1>6. ASSUME NEW d \in DOMAIN entries PROVE EntryOf(d, entries[d])
    <2>1. CASE d \in DOMAIN discovered
      <3>1. entries[d] = EntryAfter(d, files[d], mtu)
        BY Zenon, <1>4, <2>1
      <3>2. EntryOf(d, EntryAfter(d, files[d], mtu))
        BY Zenon, <1>2, <1>3, <2>1, EntryFacts
      <3> QED
        BY Zenon, <3>1, <3>2
    <2>2. CASE d \notin DOMAIN discovered
      <3>1. d \in DOMAIN tracked /\ entries[d] = [tracked[d] EXCEPT !.present = FALSE]
        BY Zenon, <1>4, <2>2
      <3>2. "samples" \in DOMAIN tracked[d]
        BY <3>1 DEF LinkInv
      <3>3. "samples" \in DOMAIN entries[d] /\ entries[d].samples = tracked[d].samples
        BY <3>1, <3>2
      <3>4. EntryOf(d, tracked[d])
        BY Zenon, <3>1 DEF LinkInv, EntryOf
      <3> QED
        BY Zenon, <3>3, <3>4 DEF EntryOf
    <2> QED
      BY <2>1, <2>2
  <1>7. DOMAIN tracked' \subseteq Links
    BY <1>4, <1>5 DEF LinkInv
  <1>8. \A d \in DOMAIN tracked' :
           /\ "samples" \in DOMAIN tracked'[d] /\ tracked'[d].samples \in Seq(LinkSamples)
           /\ GoodSamples(tracked'[d].samples)
           /\ Before(tracked'[d].samples, units[d], restarted[d])
    BY Zenon, <1>5, <1>6 DEF EntryOf
  <1>9. /\ units' = units /\ restarted' = restarted /\ names' = names /\ discovered' = discovered
        /\ room' = room
    BY <1>3
  <1> QED
    BY Zenon, <1>3, <1>7, <1>8, <1>9 DEF LinkInv, GoodSamples, Before

LEMMA DiscoverKeepsLinks == ASSUME LinkInv, Discover PROVE LinkInv'
  <1>1. PICK known :
           discovered' = [d \in DOMAIN names |->
              [name |-> names[d], known |-> d \in known, count |-> units[d] - restarted[d],
               truth |-> units[d]]]
    BY Zenon DEF Discover
  <1>2. /\ units' = units /\ restarted' = restarted /\ names' = names /\ room' = room
        /\ tracked' = tracked
    BY DEF Discover
  <1>3. /\ DOMAIN names \subseteq Links /\ units \in [Links -> Nat] /\ restarted \in [Links -> Nat]
        /\ \A d \in Links : restarted[d] <= units[d]
    BY DEF LinkInv
  <1>4. DOMAIN discovered' = DOMAIN names
    BY <1>1
  <1>5. ASSUME NEW d \in DOMAIN discovered'
        PROVE  /\ discovered'[d].known \in BOOLEAN
               /\ discovered'[d].count \in Nat /\ discovered'[d].truth \in Nat
               /\ discovered'[d].truth <= units[d] /\ Lost(discovered'[d]) <= restarted[d]
               /\ d \in DOMAIN tracked =>
                     Before(tracked[d].samples, discovered'[d].truth, Lost(discovered'[d]))
    <2> DEFINE found == discovered'[d]
               k == d \in known
    <2>1. d \in Links /\ units[d] \in Nat /\ restarted[d] \in Nat /\ restarted[d] <= units[d]
      BY <1>3, <1>4, <1>5
    <2>2. found = [name |-> names[d], known |-> k, count |-> units[d] - restarted[d],
                   truth |-> units[d]]
      BY Zenon, <1>1, <1>4, <1>5
    <2>3. k \in BOOLEAN
      OBVIOUS
    <2> HIDE DEF found, k
    <2>4. found.known = k /\ found.count = units[d] - restarted[d] /\ found.truth = units[d]
      BY Zenon, <2>2
    <2>5. found.known \in BOOLEAN
      BY Zenon, <2>3, <2>4
    <2>6. /\ found.count \in Nat /\ found.truth \in Nat
          /\ found.truth <= units[d] /\ Lost(found) = restarted[d] /\ Lost(found) <= restarted[d]
      BY <2>1, <2>4 DEF Lost
    <2>7. d \in DOMAIN tracked => Before(tracked[d].samples, found.truth, Lost(found))
      BY Zenon, <2>4, <2>6 DEF LinkInv
    <2> QED
      BY Zenon, <2>5, <2>6, <2>7 DEF found
  <1>6. DOMAIN discovered' \subseteq Links
    BY <1>3, <1>4
  <1>7. \A d \in DOMAIN tracked :
           /\ "samples" \in DOMAIN tracked[d] /\ tracked[d].samples \in Seq(LinkSamples)
           /\ GoodSamples(tracked[d].samples)
           /\ Before(tracked[d].samples, units[d], restarted[d])
    BY Zenon DEF LinkInv
  <1>8. DOMAIN tracked \subseteq Links /\ room \in Nat \ {0}
    BY DEF LinkInv
  <1> QED
    BY Zenon, <1>2, <1>3, <1>5, <1>6, <1>7, <1>8 DEF LinkInv

\* Time only goes on.
LEMMA BeforeLater ==
    ASSUME NEW samples \in Seq(LinkSamples), NEW truth \in Nat, NEW lost \in Int,
           NEW truth2 \in Nat, NEW lost2 \in Int, truth <= truth2, lost <= lost2,
           Before(samples, truth, lost)
    PROVE  Before(samples, truth2, lost2)
  <1>1. \A k \in DOMAIN samples : samples[k].truth \in Nat /\ Lost(samples[k]) \in Int
    <2>1. \A k \in DOMAIN samples : samples[k] \in LinkSamples
      BY ElementOfSeq, LenProperties
    <2>2. \A k \in DOMAIN samples : samples[k].truth \in Nat /\ samples[k].count \in Nat
      BY <2>1 DEF LinkSamples
    <2> QED
      BY <2>2 DEF Lost
  <1>2. ASSUME NEW k \in DOMAIN samples
        PROVE  /\ samples[k].truth <= truth2
               /\ Lost(samples[k]) <= lost => Lost(samples[k]) <= lost2
    <2>1. samples[k].truth <= truth
      BY Zenon DEF Before
    <2> QED
      BY <1>1, <2>1
  <1> QED
    BY Zenon, <1>2 DEF Before

\* The kernel's steps.
LEMMA KernelKeepsLinks ==
    ASSUME LinkInv,
           units' \in [Links -> Nat], restarted' \in [Links -> Nat],
           \A d \in Links : restarted'[d] <= units'[d] /\ units[d] <= units'[d]
                            /\ restarted[d] <= restarted'[d],
           DOMAIN names' \subseteq Links,
           UNCHANGED <<discovered, due, room, tracked>>
    PROVE  LinkInv'
  <1>1. /\ DOMAIN discovered \subseteq Links /\ DOMAIN tracked \subseteq Links
        /\ units \in [Links -> Nat] /\ restarted \in [Links -> Nat]
    BY DEF LinkInv
  <1>2. \A d \in Links : /\ units[d] \in Nat /\ restarted[d] \in Int
                         /\ units'[d] \in Nat /\ restarted'[d] \in Int
    BY <1>1
  <1>3. ASSUME NEW d \in DOMAIN tracked
        PROVE  Before(tracked[d].samples, units'[d], restarted'[d])
    <2>1. tracked[d].samples \in Seq(LinkSamples) /\ Before(tracked[d].samples, units[d], restarted[d])
      BY Zenon DEF LinkInv
    <2>2. d \in Links
      BY <1>1
    <2> QED
      BY Zenon, <1>2, <2>1, <2>2, BeforeLater
  <1>4. ASSUME due, NEW d \in DOMAIN discovered
        PROVE  discovered[d].truth <= units'[d] /\ Lost(discovered[d]) <= restarted'[d]
    <2>1. /\ discovered[d].count \in Nat /\ discovered[d].truth \in Nat
          /\ discovered[d].truth <= units[d] /\ Lost(discovered[d]) <= restarted[d]
      BY Zenon, <1>4 DEF LinkInv
    <2>2. Lost(discovered[d]) \in Int
      BY <2>1 DEF Lost
    <2>3. d \in Links
      BY <1>1
    <2> QED
      BY <1>2, <2>1, <2>2, <2>3
  <1>5. discovered' = discovered /\ due' = due /\ room' = room /\ tracked' = tracked
    OBVIOUS
  <1>6. \A d \in DOMAIN tracked :
           /\ "samples" \in DOMAIN tracked[d] /\ tracked[d].samples \in Seq(LinkSamples)
           /\ GoodSamples(tracked[d].samples)
           /\ Before(tracked[d].samples, units'[d], restarted'[d])
    BY Zenon, <1>3 DEF LinkInv
  <1>7. ASSUME due, NEW d \in DOMAIN discovered
        PROVE  /\ discovered[d].known \in BOOLEAN
               /\ discovered[d].count \in Nat /\ discovered[d].truth \in Nat
               /\ discovered[d].truth <= units'[d] /\ Lost(discovered[d]) <= restarted'[d]
               /\ d \in DOMAIN tracked =>
                     Before(tracked[d].samples, discovered[d].truth, Lost(discovered[d]))
    BY Zenon, <1>4, <1>7 DEF LinkInv
  <1>8. DOMAIN tracked \subseteq Links /\ room \in Nat \ {0}
    BY DEF LinkInv
  <1>9. \A d \in Links : restarted'[d] <= units'[d]
    OBVIOUS
  <1>10. /\ DOMAIN discovered' \subseteq Links /\ DOMAIN tracked' \subseteq Links
         /\ room' \in Nat \ {0} /\ DOMAIN names' \subseteq Links
    BY <1>1, <1>5, <1>8
  <1>11. \A d \in DOMAIN tracked' :
            /\ "samples" \in DOMAIN tracked'[d] /\ tracked'[d].samples \in Seq(LinkSamples)
            /\ GoodSamples(tracked'[d].samples)
            /\ Before(tracked'[d].samples, units'[d], restarted'[d])
    BY Zenon, <1>5, <1>6
  <1>12. due' => \A d \in DOMAIN discovered' :
               /\ discovered'[d].known \in BOOLEAN
               /\ discovered'[d].count \in Nat /\ discovered'[d].truth \in Nat
               /\ discovered'[d].truth <= units'[d] /\ Lost(discovered'[d]) <= restarted'[d]
               /\ d \in DOMAIN tracked' =>
                     Before(tracked'[d].samples, discovered'[d].truth, Lost(discovered'[d]))
    <2>1. due' => due
      BY <1>5
    <2>2. discovered' = discovered /\ tracked' = tracked
      BY <1>5
    <2> QED
      BY Zenon, <1>7, <2>1, <2>2
  <1> QED
    BY Zenon, <1>9, <1>10, <1>11, <1>12 DEF LinkInv

LEMMA LinkInvHolds == LinksSpec => []LinkInv
  <1>1. LinksInit => LinkInv
    <2> SUFFICES ASSUME LinksInit PROVE LinkInv
      OBVIOUS
    <2>1. /\ units = [d \in Links |-> 0] /\ restarted = units /\ DOMAIN names = Links
          /\ DOMAIN discovered = {} /\ DOMAIN tracked = {} /\ room \in Rooms
      BY DEF LinksInit, NoLinks
    <2>2. room \in Nat \ {0}
      BY <2>1, LinkConstants
    <2>3. units \in [Links -> Nat] /\ \A d \in Links : units[d] <= units[d]
      BY <2>1
    <2> QED
      BY <2>1, <2>2, <2>3 DEF LinkInv
  <1>2. LinkInv /\ [LinksNext]_linkVars => LinkInv'
    <2> SUFFICES ASSUME LinkInv, [LinksNext]_linkVars PROVE LinkInv'
      OBVIOUS
    <2>1. /\ units \in [Links -> Nat] /\ restarted \in [Links -> Nat]
          /\ \A d \in Links : restarted[d] <= units[d]
          /\ DOMAIN names \subseteq Links
      BY DEF LinkInv
    <2>2. \A d \in Links : units[d] <= units[d] /\ restarted[d] <= restarted[d]
      BY <2>1
    <2>3. ASSUME NEW d \in Links, LinkCounts(d) PROVE LinkInv'
      <3>1. /\ units' = [units EXCEPT ![d] = @ + 1]
            /\ UNCHANGED <<restarted, names, discovered, due, room, tracked>>
        BY <2>3 DEF LinkCounts
      <3>2. /\ units' \in [Links -> Nat] /\ restarted' \in [Links -> Nat]
            /\ \A e \in Links : restarted'[e] <= units'[e] /\ units[e] <= units'[e]
                                /\ restarted[e] <= restarted'[e]
            /\ DOMAIN names' \subseteq Links
        BY <2>1, <3>1
      <3> QED
        BY Zenon, <3>1, <3>2, KernelKeepsLinks
    <2>4. ASSUME NEW d \in Links, LinkLeaves(d) PROVE LinkInv'
      <3>1. /\ names' = [other \in DOMAIN names \ {d} |-> names[other]]
            /\ UNCHANGED <<units, restarted, discovered, due, room, tracked>>
        BY <2>4 DEF LinkLeaves
      <3>2. DOMAIN names' \subseteq Links
        BY <2>1, <3>1
      <3> QED
        BY <2>1, <2>2, <3>1, <3>2, KernelKeepsLinks
    <2>5. ASSUME NEW d \in Links, LinkReturns(d) PROVE LinkInv'
      <3>1. PICK name :
               names' = [other \in DOMAIN names \cup {d} |-> IF other = d THEN name ELSE names[other]]
        BY Zenon, <2>5 DEF LinkReturns
      <3>2. /\ restarted' = [restarted EXCEPT ![d] = units[d]]
            /\ UNCHANGED <<units, discovered, due, room, tracked>>
        BY <2>5 DEF LinkReturns
      <3>3. DOMAIN names' \subseteq Links
        BY <2>1, <3>1
      <3>4. /\ units' \in [Links -> Nat] /\ restarted' \in [Links -> Nat]
            /\ \A e \in Links : restarted'[e] <= units'[e] /\ units[e] <= units'[e]
                                /\ restarted[e] <= restarted'[e]
        BY <2>1, <3>2
      <3> QED
        BY Zenon, <3>2, <3>3, <3>4, KernelKeepsLinks
    <2>6. CASE SkipUpdate
      BY <2>6 DEF SkipUpdate, LinkInv, GoodSamples, Before, Lost, Reliable
    <2>7. CASE PauseHistory
      BY <2>7 DEF PauseHistory, LinkInv, GoodSamples, Before, Lost, Reliable
    <2>8. CASE ResetHistory
      <3>1. /\ DOMAIN tracked' = {}
            /\ ~ due' /\ UNCHANGED <<units, restarted, names, discovered, room>>
        BY <2>8 DEF ResetHistory, NoLinks
      <3> QED
        BY <3>1 DEF LinkInv
    <2>9. ASSUME NEW size \in Rooms, SetHistorySize(size) PROVE LinkInv'
      <3>1. /\ room' \in Nat \ {0} /\ ~ due'
            /\ units' = units /\ restarted' = restarted /\ names' = names
            /\ discovered' = discovered /\ tracked' = tracked
        BY <2>9, LinkConstants DEF SetHistorySize
      <3> QED
        BY Zenon, <3>1 DEF LinkInv, GoodSamples, Before
    <2>10. CASE UNCHANGED linkVars
      BY <2>10 DEF linkVars, LinkInv, GoodSamples, Before, Lost, Reliable
    <2> QED
      BY Zenon, <2>3, <2>4, <2>5, <2>6, <2>7, <2>8, <2>9, <2>10, UpdateKeepsLinks,
         DiscoverKeepsLinks DEF LinksNext
  <1> QED
    BY <1>1, <1>2, PTL DEF LinksSpec

\* Through failed reads, resets, links that leave and return, evictions and changes of the
\* history's size, no rate and no total of updateNetworkPacketMtu or updateNetworkLinkStats
\* is more than the link counted in its time, as long as the files were its own.
THEOREM CountsAreTheLinks == LinksSpec => []CountsOfTheLink
  <1>1. LinkInv => CountsOfTheLink
    <2> SUFFICES ASSUME LinkInv, NEW d \in DOMAIN tracked
                 PROVE  LET samples == tracked[d].samples
                            read == Baselines(samples)
                        IN /\ \A s \in 1 .. Len(samples) :
                                 samples[s].rate.own => samples[s].rate.moved <= samples[s].rate.real
                           /\ (\A s \in 1 .. Len(read) : read[s].own) =>
                                 WindowMoved(samples) <=
                                    (IF read = <<>> THEN 0 ELSE Last(read).truth - Head(read).truth)
      BY Zenon DEF CountsOfTheLink
    <2> DEFINE samples == tracked[d].samples
               read == Baselines(samples)
               n == Len(read)
    <2>1. samples \in Seq(LinkSamples) /\ GoodSamples(samples)
      BY Zenon DEF LinkInv
    <2> HIDE DEF samples
    <2>2. \A s \in 1 .. Len(samples) :
             samples[s].rate.own => samples[s].rate.moved <= samples[s].rate.real
      <3>1. DOMAIN samples = 1 .. Len(samples)
        BY <2>1, LenProperties
      <3> QED
        BY Zenon, <2>1, <3>1 DEF GoodSamples
    <2>3. BaselinesOf(samples)
      BY <2>1, BaselinesFacts
    <2>4. read \in Seq(LinkSamples) /\ n \in Nat
      BY Zenon, <2>3 DEF BaselinesOf
    <2>5. PICK place \in [1 .. n -> DOMAIN samples] :
             /\ \A m \in 1 .. n : read[m] = samples[place[m]] /\ samples[place[m]].fresh
             /\ \A m, k \in 1 .. n : m < k => place[m] < place[k]
      BY Zenon, <2>3 DEF BaselinesOf
    <2>6. WindowMoved(samples) =
             IF (IF n < 2 THEN <<>> ELSE <<Head(read), Last(read)>>) = <<>> THEN 0
             ELSE IF <<Head(read), Last(read)>>[2].count < <<Head(read), Last(read)>>[1].count THEN 0
             ELSE <<Head(read), Last(read)>>[2].count - <<Head(read), Last(read)>>[1].count
      BY DEF WindowMoved, FirstAndLast
    <2> HIDE DEF read, n
    <2>7. ASSUME \A s \in 1 .. n : read[s].own
          PROVE  WindowMoved(samples) <= (IF read = <<>> THEN 0 ELSE Last(read).truth - Head(read).truth)
      <3>1. CASE n = 0
        <4>1. read = <<>> /\ WindowMoved(samples) = 0
          BY <2>4, <2>6, <3>1, EmptySeq DEF n
        <4> QED
          BY <4>1
      <3>2. CASE n # 0
        <4> DEFINE first == read[1]
                   last == read[n]
        <4>1. /\ 1 \in 1 .. n /\ n \in 1 .. n /\ read # <<>>
              /\ Head(read) = first /\ Last(read) = last
          BY <2>4, <3>2, EmptySeq, HeadTailProperties DEF n, Last
        <4>2. first \in LinkSamples /\ last \in LinkSamples
          BY <2>4, <4>1, ElementOfSeq DEF n
        <4>3. n = 1 \/ (/\ first.truth <= last.truth /\ Lost(first) <= Lost(last))
          <5>1. n = 1 \/ 1 < n
            BY <2>4, <3>2
          <5>2. ASSUME 1 < n PROVE first.truth <= last.truth /\ Lost(first) <= Lost(last)
            <6>1. /\ first = samples[place[1]] /\ last = samples[place[n]]
                  /\ place[1] < place[n] /\ place[1] \in DOMAIN samples /\ place[n] \in DOMAIN samples
              BY <2>5, <4>1, <5>2
            <6>2. Reliable(first) /\ Reliable(last)
              BY Zenon, <2>5, <2>7, <4>1 DEF Reliable
            <6> QED
              BY Zenon, <2>1, <6>1, <6>2 DEF GoodSamples
          <5> QED
            BY <5>1, <5>2
        <4>4. WindowMoved(samples) = IF n < 2 THEN 0
                                     ELSE IF last.count < first.count THEN 0
                                     ELSE last.count - first.count
          <5> HIDE DEF first, last
          <5> QED
            BY <2>6, <4>1
        <4>5. /\ first.count \in Nat /\ first.truth \in Nat
              /\ last.count \in Nat /\ last.truth \in Nat
          <5> HIDE DEF first, last
          <5> QED
            BY <4>2 DEF LinkSamples
        <4>6. n = 1 => first = last
          OBVIOUS
        <4> HIDE DEF first, last
        <4>7. WindowMoved(samples) <= last.truth - first.truth
          BY <2>4, <3>2, <4>3, <4>4, <4>5, <4>6 DEF Lost
        <4> QED
          BY Zenon, <4>1, <4>7
      <3> QED
        BY <3>1, <3>2
    <2> QED
      BY Zenon, <2>2, <2>7 DEF samples, read, n
  <1> QED
    BY <1>1, LinkInvHolds, PTL

-----------------------------------------------------------------------------
(* Exports.                                                                *)

\* A sequence, of whatever.
IsRing(ring) == \E S : ring \in Seq(S)

\* A ring with one more sample: the new one is last, the others are of the ring before.
PushedOf(ring, sample, new) ==
    /\ IsRing(new) /\ Len(new) \in Nat \ {0} /\ DOMAIN new = 1 .. Len(new)
    /\ new[Len(new)] = sample
    /\ \E from \in Nat : \A k \in 1 .. Len(new) - 1 :
          from + k \in DOMAIN ring /\ new[k] = ring[from + k]

LEMMA RingFacts ==
    ASSUME NEW ring, IsRing(ring)
    PROVE  DOMAIN ring = 1 .. Len(ring) /\ Len(ring) \in Nat /\ (ring = <<>> <=> Len(ring) = 0)
  <1>1. PICK S : ring \in Seq(S)
    BY Zenon DEF IsRing
  <1> QED
    BY <1>1, LenProperties, EmptySeq

LEMMA PushedFacts ==
    ASSUME NEW ring, IsRing(ring), NEW sample
    PROVE  PushedOf(ring, sample, Pushed(ring, sample))
  <1>1. PICK S : ring \in Seq(S)
    BY Zenon DEF IsRing
  <1> DEFINE Either == S \cup {sample}
             n == Len(ring)
             new == Pushed(ring, sample)
  <1>2. /\ n \in Nat /\ DOMAIN ring = 1 .. n /\ sample \in Either
        /\ \A k \in 1 .. n : ring[k] \in Either
    BY <1>1, LenProperties, ElementOfSeq
  <1>3. ring \in Seq(Either)
    BY <1>1, <1>2, SeqDef, LenProperties
  <1>4. Retained \in Nat \ {0}
    BY ExportConstants
  <1> HIDE DEF Either
  <1>5. CASE n >= Retained
    <2> DEFINE tail == Tail(ring)
    <2>1. new = Append(tail, sample)
      BY <1>5 DEF Pushed
    <2>2. ring # <<>>
      BY <1>2, <1>4, <1>5, EmptySeq
    <2>3. /\ tail \in Seq(Either) /\ Len(tail) = n - 1
          /\ \A k \in 1 .. n - 1 : tail[k] = ring[k + 1]
      BY <1>3, <2>2, HeadTailProperties
    <2> HIDE DEF tail, n
    <2>4. /\ Append(tail, sample) \in Seq(Either) /\ Len(Append(tail, sample)) = Len(tail) + 1
          /\ Append(tail, sample)[Len(tail) + 1] = sample
          /\ \A k \in 1 .. Len(tail) : Append(tail, sample)[k] = tail[k]
      BY <1>2, <2>3, AppendProperties
    <2> HIDE DEF new
    <2>5. new \in Seq(Either) /\ Len(new) = n /\ new[n] = sample /\ \A k \in 1 .. n - 1 : new[k] = tail[k]
      BY <1>2, <2>1, <2>3, <2>4
    <2>6. n \in Nat \ {0}
      BY <1>2, <1>4, <1>5
    <2>7. \A k \in 1 .. n - 1 : 1 + k \in DOMAIN ring /\ new[k] = ring[1 + k]
      BY <1>2, <2>3, <2>5
    <2>8. DOMAIN new = 1 .. n /\ IsRing(new)
      BY <2>5, LenProperties DEF IsRing
    <2>9. 1 \in Nat
      OBVIOUS
    <2>10. PushedOf(ring, sample, new)
      BY Zenon, <2>5, <2>6, <2>7, <2>8, <2>9 DEF PushedOf
    <2> QED
      BY Zenon, <2>10 DEF new
  <1>6. CASE ~ (n >= Retained)
    <2>1. new = Append(ring, sample)
      BY <1>6 DEF Pushed
    <2> HIDE DEF n
    <2>2. /\ Append(ring, sample) \in Seq(Either) /\ Len(Append(ring, sample)) = n + 1
          /\ Append(ring, sample)[n + 1] = sample
          /\ \A k \in 1 .. n : Append(ring, sample)[k] = ring[k]
      BY <1>2, <1>3, AppendProperties DEF n
    <2> HIDE DEF new
    <2>3. new \in Seq(Either) /\ Len(new) = n + 1 /\ new[n + 1] = sample /\ \A k \in 1 .. n : new[k] = ring[k]
      BY <2>1, <2>2
    <2>4. n + 1 \in Nat \ {0} /\ (n + 1) - 1 = n /\ \A k \in 1 .. n : 0 + k = k
      BY <1>2
    <2>5. \A k \in 1 .. (n + 1) - 1 : 0 + k \in DOMAIN ring /\ new[k] = ring[0 + k]
      BY <1>2, <2>3, <2>4
    <2>6. DOMAIN new = 1 .. n + 1 /\ IsRing(new)
      BY <2>3, LenProperties DEF IsRing
    <2>7. 0 \in Nat
      OBVIOUS
    <2>8. PushedOf(ring, sample, new)
      BY Zenon, <2>3, <2>4, <2>5, <2>6, <2>7 DEF PushedOf
    <2> QED
      BY Zenon, <2>8 DEF new
  <1> QED
    BY <1>5, <1>6

-----------------------------------------------------------------------------
\* The samples of a ring are of the newest tick or older; those of the newest are of the
\* wall clock's time of the last update.
Dated(ring, newest, updated) ==
    \A k \in DOMAIN ring :
        /\ ring[k].at \in Nat /\ ring[k].ahead \in Int /\ ring[k].at <= newest
        /\ ring[k].at = newest => ring[k].at + ring[k].ahead = updated

\* A series up to a time: its newest tick is that of its last total.
DatedBy(series, newest) ==
    /\ IsRing(series.rates) /\ IsRing(series.totals) /\ series.updated \in Int
    /\ Dated(series.rates, newest, series.updated) /\ Dated(series.totals, newest, series.updated)
    /\ series.rates # <<>> => series.totals # <<>>
    /\ series.totals # <<>> => series.totals[Len(series.totals)].at = newest
SeriesBy(series, now) == \E newest \in Nat : newest <= now /\ DatedBy(series, newest)

\* What was transferred and the counter no longer shows.
Forgotten(s) == s.true - s.total

\* The totals of one interface: a counter that is reset forgets, none invents.
TotalsOfOne(ring, most) ==
    /\ \A k \in DOMAIN ring :
          ring[k].total \in Nat /\ ring[k].true \in Nat /\ Forgotten(ring[k]) <= most
    /\ \A j, k \in DOMAIN ring : j < k => Forgotten(ring[j]) <= Forgotten(ring[k])

\* What ExportIsTrue says of a snapshot.
Truthful(s) ==
    /\ \A m, n \in DOMAIN s.rows : m < n => s.rows[m].time < s.rows[n].time
    /\ \A n \in DOMAIN s.rows : \A then \in s.rows[n].ahead :
          then \in s.rows[Len(s.rows)].ahead => s.rows[n].time = s.rows[n].tick + then
    /\ s.identity = "single" => \A total \in s.total : total.shown <= total.true

SeriesFields == {"there", "rates", "totals", "updated"}

ExportInv ==
    /\ counted \in [Interfaces -> Nat] /\ transferred \in Nat /\ linked \subseteq Interfaces
    /\ clock \in Nat /\ ahead \in Int
    /\ SeriesBy(single, clock) /\ SeriesBy(aggregate, clock)
    /\ DOMAIN single = SeriesFields /\ DOMAIN aggregate = SeriesFields
    /\ IsRing(single.totals)
    /\ Single \in Interfaces => TotalsOfOne(single.totals, transferred - counted[Single])
    /\ single.there => Single \in Interfaces
    /\ Truthful(snapshot)
    /\ destination # "partial" /\ (step = "written" => temporary = "whole")

\* The steps of the page leave the series and the counters alone.
LEMMA PageKeepsExport ==
    ASSUME ExportInv, UNCHANGED <<kernelVars, historyVars>>, Truthful(snapshot'),
           destination' # "partial", step' = "written" => temporary' = "whole"
    PROVE  ExportInv'
  <1>1. /\ clock' = clock /\ ahead' = ahead /\ counted' = counted /\ transferred' = transferred
        /\ linked' = linked /\ single' = single /\ aggregate' = aggregate
    BY DEF kernelVars, historyVars
  <1> QED
    BY Zenon, <1>1 DEF ExportInv, SeriesBy, DatedBy, Dated, IsRing, TotalsOfOne, Forgotten,
                       Truthful, Single, SeriesFields

-----------------------------------------------------------------------------
\* A ring with a sample of now added is dated by now.
LEMMA PushedIsDated ==
    ASSUME NEW ring, NEW newest \in Nat, NEW updated, NEW now \in Nat, NEW sample,
           IsRing(ring), Dated(ring, newest, updated), newest < now,
           sample.at = now, sample.ahead \in Int
    PROVE  Dated(Pushed(ring, sample), now, now + sample.ahead)
  <1> DEFINE new == Pushed(ring, sample)
  <1>1. PushedOf(ring, sample, new)
    BY Zenon, PushedFacts
  <1> HIDE DEF new
  <1>2. DOMAIN new = 1 .. Len(new) /\ Len(new) \in Nat \ {0} /\ new[Len(new)] = sample
    BY Zenon, <1>1 DEF PushedOf
  <1>3. \A k \in DOMAIN new : k = Len(new) \/ k \in 1 .. Len(new) - 1
    BY <1>2
  <1>4. ASSUME NEW k \in 1 .. Len(new) - 1
        PROVE  new[k].at \in Nat /\ new[k].ahead \in Int /\ new[k].at <= newest
    BY Zenon, <1>1 DEF PushedOf, Dated
  <1>5. ASSUME NEW k \in 1 .. Len(new) - 1 PROVE new[k].at <= now /\ new[k].at # now
    BY <1>4
  <1>6. now <= now /\ now + sample.ahead = now + sample.ahead
    OBVIOUS
  <1>7. Dated(new, now, now + sample.ahead)
    BY Zenon, <1>2, <1>3, <1>4, <1>5, <1>6 DEF Dated
  <1> QED
    BY Zenon, <1>7 DEF new

\* A ring without a new sample is of before.
LEMMA OlderIsDated ==
    ASSUME NEW ring, NEW newest \in Nat, NEW updated, NEW now \in Nat, NEW after,
           Dated(ring, newest, updated), newest < now
    PROVE  Dated(ring, now, after)
  <1>1. ASSUME NEW k \in DOMAIN ring
        PROVE  ring[k].at \in Nat /\ ring[k].ahead \in Int /\ ring[k].at <= newest
    BY Zenon DEF Dated
  <1>2. ASSUME NEW k \in DOMAIN ring PROVE ring[k].at <= now /\ ring[k].at # now
    BY <1>1
  <1> QED
    BY Zenon, <1>1, <1>2 DEF Dated

LEMMA RecordedKeepsSeries ==
    ASSUME NEW series, SeriesBy(series, clock), clock \in Nat, ahead \in Int, NEW rated, NEW total
    PROVE  /\ SeriesBy(Recorded(series, rated, total), clock + 1)
           /\ DOMAIN Recorded(series, rated, total) = SeriesFields
  <1> DEFINE now == clock + 1
             new == Recorded(series, rated, total)
             rate == [at |-> now, ahead |-> ahead]
             sample == [at |-> now, ahead |-> ahead, total |-> total, true |-> transferred]
  <1>1. PICK newest \in Nat : newest <= clock /\ DatedBy(series, newest)
    BY Zenon DEF SeriesBy
  <1>2. now \in Nat /\ newest < now /\ now + ahead \in Int /\ now <= now
    BY <1>1
  <1>3. /\ new.rates = IF rated THEN Pushed(series.rates, rate) ELSE series.rates
        /\ new.totals = Pushed(series.totals, sample) /\ new.updated = now + ahead
        /\ DOMAIN new = SeriesFields
    BY DEF Recorded, SeriesFields
  <1>4. rate.at = now /\ rate.ahead = ahead /\ sample.at = now /\ sample.ahead = ahead
    OBVIOUS
  <1> HIDE DEF now, new, rate, sample
  <1>5. PushedOf(series.totals, sample, new.totals)
    BY Zenon, <1>1, <1>3, PushedFacts DEF DatedBy
  <1>6. Dated(new.totals, now, new.updated)
    BY Zenon, <1>1, <1>2, <1>3, <1>4, PushedIsDated DEF DatedBy
  <1>7. IsRing(new.rates) /\ Dated(new.rates, now, new.updated)
    <2>1. CASE rated
      <3>1. new.rates = Pushed(series.rates, rate)
        BY Zenon, <1>3, <2>1
      <3>2. Dated(new.rates, now, new.updated)
        <4>1. /\ IsRing(series.rates) /\ Dated(series.rates, newest, series.updated)
              /\ rate.ahead \in Int
          BY Zenon, <1>1, <1>4 DEF DatedBy
        <4>2. Dated(Pushed(series.rates, rate), now, now + rate.ahead)
          BY Zenon, <1>2, <1>4, <4>1, PushedIsDated
        <4> QED
          BY Zenon, <1>3, <1>4, <3>1, <4>2
      <3>3. PushedOf(series.rates, rate, new.rates)
        BY Zenon, <1>1, <3>1, PushedFacts DEF DatedBy
      <3> QED
        BY Zenon, <3>2, <3>3 DEF PushedOf
    <2>2. CASE ~ rated
      <3>1. new.rates = series.rates
        BY Zenon, <1>3, <2>2
      <3> QED
        BY Zenon, <1>1, <1>2, <3>1, OlderIsDated DEF DatedBy
    <2> QED
      BY Zenon, <2>1, <2>2
  <1>8. IsRing(new.totals) /\ Len(new.totals) \in Nat \ {0} /\ new.totals[Len(new.totals)] = sample
    BY Zenon, <1>5 DEF PushedOf
  <1>9. new.totals # <<>>
    BY <1>8, EmptySeq
  <1>10. DatedBy(new, now)
    BY Zenon, <1>2, <1>3, <1>4, <1>6, <1>7, <1>8, <1>9 DEF DatedBy
  <1> QED
    BY Zenon, <1>2, <1>3, <1>10 DEF SeriesBy, new, now

LEMMA RecordedKeepsTotals ==
    ASSUME NEW series, NEW most \in Int, NEW total \in Nat, NEW rated, IsRing(series.totals),
           transferred \in Nat, most = transferred - total, TotalsOfOne(series.totals, most)
    PROVE  TotalsOfOne(Recorded(series, rated, total).totals, most)
  <1> DEFINE ring == series.totals
             new == Recorded(series, rated, total).totals
             sample == [at |-> clock + 1, ahead |-> ahead, total |-> total, true |-> transferred]
             n == Len(new)
  <1>1. new = Pushed(ring, sample) /\ sample.total = total /\ sample.true = transferred
    BY DEF Recorded
  <1> HIDE DEF sample, new, ring
  <1>2. PushedOf(ring, sample, new)
    BY Zenon, <1>1, PushedFacts DEF ring
  <1>3. Forgotten(sample) = most
    BY <1>1 DEF Forgotten
  <1>4. DOMAIN new = 1 .. n /\ n \in Nat \ {0} /\ new[n] = sample
    BY Zenon, <1>2 DEF PushedOf
  <1>5. PICK from \in Nat : \A k \in 1 .. n - 1 : from + k \in DOMAIN ring /\ new[k] = ring[from + k]
    BY Zenon, <1>2 DEF PushedOf
  <1> HIDE DEF n
  <1>6. /\ \A k \in DOMAIN new : k = n \/ k \in 1 .. n - 1
        /\ \A j, k \in DOMAIN new : j < k =>
              j \in 1 .. n - 1 /\ (k = n \/ from + j < from + k)
    BY <1>4
  <1>7. most <= most
    OBVIOUS
  <1>8. TotalsOfOne(ring, most)
    BY Zenon DEF ring
  <1>9. ASSUME NEW k \in DOMAIN new
        PROVE  new[k].total \in Nat /\ new[k].true \in Nat /\ Forgotten(new[k]) <= most
    BY Zenon, <1>1, <1>3, <1>4, <1>5, <1>6, <1>7, <1>8 DEF TotalsOfOne
  <1>10. ASSUME NEW j \in DOMAIN new, NEW k \in DOMAIN new, j < k
         PROVE  Forgotten(new[j]) <= Forgotten(new[k])
    <2>1. j \in 1 .. n - 1 /\ (k = n \/ from + j < from + k)
      BY Zenon, <1>6, <1>10
    <2>2. CASE k = n
      BY Zenon, <1>3, <1>4, <1>9, <2>2
    <2>3. CASE k # n
      BY Zenon, <1>5, <1>6, <1>8, <2>1, <2>3 DEF TotalsOfOne
    <2> QED
      BY <2>2, <2>3
  <1>11. TotalsOfOne(new, most)
    BY Zenon, <1>9, <1>10 DEF TotalsOfOne
  <1> QED
    BY Zenon, <1>11 DEF new

\* A series that is not there is in order.
LEMMA NoSeriesFacts ==
    /\ SeriesBy(NoSeries, 0) /\ IsRing(NoSeries.totals)
    /\ \A most : TotalsOfOne(NoSeries.totals, most)
    /\ ~ NoSeries.there /\ DOMAIN NoSeries = SeriesFields
  <1>1. /\ NoSeries.rates = <<>> /\ NoSeries.totals = <<>> /\ NoSeries.updated \in Int
        /\ ~ NoSeries.there /\ DOMAIN NoSeries = SeriesFields
    BY DEF NoSeries, SeriesFields
  <1>2. IsRing(<<>>) /\ DOMAIN <<>> = {}
    <2>1. <<>> \in Seq(Nat) /\ DOMAIN <<>> = {}
      BY EmptySeq
    <2> QED
      BY Zenon, <2>1 DEF IsRing
  <1>3. 0 \in Nat /\ 0 <= 0
    OBVIOUS
  <1>4. DatedBy(NoSeries, 0)
    BY Zenon, <1>1, <1>2 DEF DatedBy, Dated
  <1> QED
    BY Zenon, <1>1, <1>2, <1>3, <1>4 DEF SeriesBy, TotalsOfOne

LEMMA LaterSeries ==
    ASSUME NEW series, NEW then \in Nat, NEW now \in Nat, then <= now, SeriesBy(series, then)
    PROVE  SeriesBy(series, now)
  <1>1. PICK newest \in Nat : newest <= then /\ DatedBy(series, newest)
    BY Zenon DEF SeriesBy
  <1>2. newest <= now
    BY <1>1
  <1> QED
    BY Zenon, <1>1, <1>2 DEF SeriesBy

LEMMA RefreshKeepsExport == ASSUME ExportInv, Refresh PROVE ExportInv'
  <1>1. /\ counted \in [Interfaces -> Nat] /\ transferred \in Nat /\ linked \subseteq Interfaces
        /\ clock \in Nat /\ ahead \in Int /\ SeriesBy(single, clock) /\ SeriesBy(aggregate, clock)
        /\ IsRing(single.totals) /\ DOMAIN aggregate = SeriesFields
        /\ Single \in Interfaces => TotalsOfOne(single.totals, transferred - counted[Single])
        /\ Truthful(snapshot) /\ destination # "partial"
    BY Zenon DEF ExportInv
  <1>2. /\ step = "away" /\ clock' = clock + 1
        /\ UNCHANGED <<kernelVars, selection, pageVars>>
    BY DEF Refresh
  <1>3. /\ counted' = counted /\ transferred' = transferred /\ linked' = linked /\ ahead' = ahead
        /\ step' = "away" /\ step' # "written" /\ snapshot' = snapshot /\ destination' = destination
    BY <1>2 DEF kernelVars, pageVars, fileVars
  <1>4. /\ clock' \in Nat /\ clock <= clock' /\ 0 \in Nat /\ 0 <= clock'
    BY <1>1, <1>2
  <1>5. SeriesBy(aggregate', clock') /\ DOMAIN aggregate' = SeriesFields
    <2>1. CASE linked # {}
      <3>1. \E rated, total : aggregate' = Recorded(aggregate, rated, total)
        BY Zenon, <2>1 DEF Refresh
      <3> QED
        BY Zenon, <1>1, <1>2, <3>1, RecordedKeepsSeries
    <2>2. CASE linked = {}
      <3>1. aggregate' = aggregate
        BY Zenon, <2>2 DEF Refresh
      <3> QED
        BY Zenon, <1>1, <1>4, <3>1, LaterSeries
    <2> QED
      BY Zenon, <2>1, <2>2
  <1>6. /\ SeriesBy(single', clock') /\ IsRing(single'.totals)
        /\ Single \in Interfaces => TotalsOfOne(single'.totals, transferred - counted[Single])
        /\ single'.there => Single \in Interfaces
        /\ DOMAIN single' = SeriesFields
    <2>1. CASE Single \in linked
      <3>1. single' = Recorded(single, Rated(Single), counted[Single])
        BY Zenon, <2>1 DEF Refresh
      <3>2. SeriesBy(single', clock') /\ DOMAIN single' = SeriesFields
        BY Zenon, <1>1, <1>2, <3>1, RecordedKeepsSeries
      <3>3. Single \in Interfaces /\ counted[Single] \in Nat
        BY <1>1, <2>1
      <3>4. transferred - counted[Single] \in Int
        BY <1>1, <3>3
      <3>5. TotalsOfOne(single'.totals, transferred - counted[Single])
        BY Zenon, <1>1, <3>1, <3>3, <3>4, RecordedKeepsTotals
      <3>6. IsRing(single'.totals)
        BY Zenon, <3>2 DEF SeriesBy, DatedBy
      <3> QED
        BY Zenon, <3>2, <3>3, <3>5, <3>6
    <2>2. CASE Single \notin linked
      <3>1. single' = NoSeries
        BY Zenon, <2>2 DEF Refresh
      <3> QED
        BY Zenon, <1>4, <3>1, NoSeriesFacts, LaterSeries
    <2> QED
      BY Zenon, <2>1, <2>2
  <1> QED
    BY Zenon, <1>1, <1>3, <1>4, <1>5, <1>6
       DEF ExportInv, SeriesBy, DatedBy, Dated, IsRing, TotalsOfOne, Forgotten, Truthful, Single,
           SeriesFields

LEMMA EmptiedKeepsSeries ==
    ASSUME NEW series, NEW new, SeriesBy(series, clock), new.rates = <<>>, new.totals = <<>>,
           new.updated = series.updated
    PROVE  SeriesBy(new, clock) /\ IsRing(new.totals) /\ \A most : TotalsOfOne(new.totals, most)
  <1>1. IsRing(<<>>) /\ DOMAIN <<>> = {}
    <2>1. <<>> \in Seq(Nat) /\ DOMAIN <<>> = {}
      BY EmptySeq
    <2> QED
      BY Zenon, <2>1 DEF IsRing
  <1> QED
    BY Zenon, <1>1 DEF SeriesBy, DatedBy, Dated, TotalsOfOne

LEMMA ResizesKeepsExport == ASSUME ExportInv, Resizes PROVE ExportInv'
  <1>1. /\ clock' = clock /\ counted' = counted /\ transferred' = transferred /\ linked' = linked
        /\ ahead' = ahead /\ step' = "away" /\ step' # "written" /\ snapshot' = snapshot
        /\ destination' = destination
    BY DEF Resizes, kernelVars, pageVars, fileVars
  <1>2. /\ single' = [single EXCEPT !.rates = <<>>, !.totals = <<>>]
        /\ aggregate' = [aggregate EXCEPT !.rates = <<>>, !.totals = <<>>]
    BY Zenon DEF Resizes
  <1>3. DOMAIN single = SeriesFields /\ DOMAIN aggregate = SeriesFields
    BY Zenon DEF ExportInv
  <1>4. /\ single'.rates = <<>> /\ single'.totals = <<>> /\ single'.updated = single.updated
        /\ aggregate'.rates = <<>> /\ aggregate'.totals = <<>>
        /\ aggregate'.updated = aggregate.updated
        /\ DOMAIN single' = SeriesFields /\ DOMAIN aggregate' = SeriesFields
    BY <1>2, <1>3
  <1>5. single'.there = single.there
    BY <1>2, <1>3 DEF SeriesFields
  <1>6. /\ SeriesBy(single', clock) /\ IsRing(single'.totals)
        /\ \A most : TotalsOfOne(single'.totals, most)
        /\ SeriesBy(aggregate', clock)
    BY Zenon, <1>4, EmptiedKeepsSeries DEF ExportInv
  <1> QED
    BY Zenon, <1>1, <1>4, <1>5, <1>6
       DEF ExportInv, SeriesBy, DatedBy, Dated, IsRing, TotalsOfOne, Forgotten, Truthful, Single,
           SeriesFields

LEMMA InterfacesKeepExport ==
    ASSUME ExportInv, step = "away", ahead' \in Int,
           counted' \in [Interfaces -> Nat], transferred' \in Nat, linked' \subseteq Interfaces,
           Single \in Interfaces =>
              transferred - counted[Single] <= transferred' - counted'[Single],
           UNCHANGED <<historyVars, pageVars>>
    PROVE  ExportInv'
  <1>1. /\ clock' = clock /\ single' = single /\ aggregate' = aggregate /\ step' = "away" /\ step' # "written"
        /\ snapshot' = snapshot /\ destination' = destination
    BY DEF historyVars, pageVars, fileVars
  <1> DEFINE then == transferred - counted[Single]
             now == transferred' - counted'[Single]
  <1>2. ASSUME Single \in Interfaces PROVE TotalsOfOne(single.totals, now)
    <2>1. TotalsOfOne(single.totals, then)
      BY Zenon, <1>2 DEF ExportInv
    <2>2. counted[Single] \in Nat /\ transferred \in Nat /\ counted'[Single] \in Nat
      BY <1>2 DEF ExportInv
    <2>3. then \in Int /\ now \in Int /\ then <= now
      BY <1>2, <2>2
    <2> DEFINE ring == single.totals
    <2> HIDE DEF then, now, ring
    <2>4. \A k \in DOMAIN ring :
             ring[k].total \in Nat /\ ring[k].true \in Nat /\ Forgotten(ring[k]) <= then
      BY Zenon, <2>1 DEF TotalsOfOne, ring
    <2>5. \A k \in DOMAIN ring : Forgotten(ring[k]) <= now
      <3>1. \A k \in DOMAIN ring : Forgotten(ring[k]) \in Int
        BY <2>4 DEF Forgotten
      <3> QED
        BY <2>3, <2>4, <3>1
    <2> QED
      BY Zenon, <2>1, <2>4, <2>5 DEF TotalsOfOne, ring
  <1>3. /\ clock \in Nat /\ SeriesBy(single, clock) /\ SeriesBy(aggregate, clock) /\ IsRing(single.totals)
        /\ single.there => Single \in Interfaces
        /\ DOMAIN single = SeriesFields /\ DOMAIN aggregate = SeriesFields
        /\ Truthful(snapshot) /\ destination # "partial"
    BY Zenon DEF ExportInv
  <1> QED
    BY Zenon, <1>1, <1>2, <1>3
       DEF ExportInv, SeriesBy, DatedBy, Dated, IsRing, TotalsOfOne, Forgotten, Truthful, Single,
           SeriesFields

-----------------------------------------------------------------------------
\* The last of the numbers in their order is the greatest.
LEMMA LastOfPlaces ==
    ASSUME NEW places \in SUBSET Nat, IsFiniteSet(places), Cardinality(places) \in Nat \ {0}
    PROVE  \A i \in places : i <= Nth(places, Cardinality(places))
  <1> DEFINE top == Cardinality(places)
             last == Nth(places, top)
             below == {j \in places : j <= last}
  <1>1. Rank(places, last) = top
    BY NthFacts
  <1>2. Cardinality(below) = top
    BY <1>1 DEF Rank
  <1> HIDE DEF last
  <1>3. below \subseteq places
    OBVIOUS
  <1>4. below = places
    BY <1>2, <1>3, FS_Subset
  <1> QED
    BY <1>4 DEF last

\* The newest of the ticks is that of the last total.
LEMMA TicksFacts ==
    ASSUME NEW series, NEW newest \in Nat, DatedBy(series, newest)
    PROVE  /\ Ticks(series) \in SUBSET Nat /\ IsFiniteSet(Ticks(series))
           /\ \A at \in Ticks(series) : at <= newest
           /\ Ticks(series) # {} => newest \in Ticks(series) /\ Max(Ticks(series)) = newest
  <1>1. ASSUME NEW ring, IsRing(ring), Dated(ring, newest, series.updated)
        PROVE  At(ring) \in SUBSET Nat /\ IsFiniteSet(At(ring)) /\ \A at \in At(ring) : at <= newest
    <2>1. DOMAIN ring = 1 .. Len(ring) /\ Len(ring) \in Nat
      BY <1>1, RingFacts
    <2> DEFINE places == 1 .. Len(ring)
    <2>2. IsFiniteSet(places)
      BY <2>1, FS_Interval
    <2>3. At(ring) = {ring[k].at : k \in places}
      BY DEF At, Samples
    <2> DEFINE time == [k \in places |-> ring[k].at]
    <2>4. time \in Surjection(places, At(ring))
      BY <2>3 DEF Surjection
    <2>5. IsFiniteSet(At(ring))
      BY Zenon, <2>2, <2>4, FS_Surjection
    <2>6. \A k \in places : ring[k].at \in Nat /\ ring[k].at <= newest
      BY Zenon, <1>1, <2>1 DEF Dated
    <2> QED
      BY <2>3, <2>5, <2>6
  <1>2. /\ At(series.rates) \in SUBSET Nat /\ IsFiniteSet(At(series.rates))
        /\ At(series.totals) \in SUBSET Nat /\ IsFiniteSet(At(series.totals))
        /\ \A at \in Ticks(series) : at <= newest
    BY Zenon, <1>1 DEF Ticks, DatedBy
  <1>3. IsFiniteSet(Ticks(series)) /\ Ticks(series) \in SUBSET Nat
    BY <1>2, FS_Union DEF Ticks
  <1>4. ASSUME Ticks(series) # {} PROVE newest \in Ticks(series) /\ Max(Ticks(series)) = newest
    <2>1. IsRing(series.rates) /\ IsRing(series.totals)
      BY Zenon DEF DatedBy
    <2>2. series.totals # <<>>
      <3>1. series.rates # <<>> \/ series.totals # <<>>
        <4> SUFFICES ASSUME series.rates = <<>>, series.totals = <<>> PROVE FALSE
          OBVIOUS
        <4>1. Len(series.rates) = 0 /\ Len(series.totals) = 0
          BY <2>1, RingFacts
        <4> QED
          BY <1>4, <4>1 DEF Ticks, At, Samples
      <3> QED
        BY Zenon, <3>1 DEF DatedBy
    <2> DEFINE ring == series.totals
    <2>3. ring[Len(ring)].at = newest
      BY Zenon, <2>2 DEF DatedBy
    <2>4. Len(ring) \in 1 .. Len(ring)
      BY <2>1, <2>2, RingFacts
    <2>5. newest \in Ticks(series)
      BY <2>3, <2>4 DEF Ticks, At, Samples
    <2>6. \A at \in Ticks(series) : newest >= at
      BY <1>2, <1>3
    <2>7. \A x \in Ticks(series) : (\A y \in Ticks(series) : x >= y) => x = newest
      BY <1>3, <2>5, <2>6
    <2> QED
      BY Zenon, <2>5, <2>6, <2>7 DEF Max
  <1> QED
    BY Zenon, <1>2, <1>3, <1>4

\* What is made of a series is true: its rows are anchored to its newest tick.
LEMMA SnapshotIsTruthful ==
    ASSUME NEW series, NEW identity, NEW records, SeriesBy(series, clock),
           identity = "single" => \E most : TotalsOfOne(series.totals, most)
    PROVE  Truthful(Snapshot(identity, series, records))
  <1>1. PICK newest \in Nat : DatedBy(series, newest)
    BY Zenon DEF SeriesBy
  <1> DEFINE ticks == Ticks(series)
             top == Cardinality(ticks)
             rows == Rows(series)
             Tick(n) == Nth(ticks, n)
  <1>2. /\ ticks \in SUBSET Nat /\ IsFiniteSet(ticks)
        /\ ticks # {} => newest \in ticks /\ Max(ticks) = newest
        /\ \A at \in ticks : at <= newest
    BY Zenon, <1>1, TicksFacts
  <1>3. top \in Nat /\ (top = 0 <=> ticks = {})
    BY <1>2, FS_CardinalityType, FS_EmptySet
  <1>4. rows = [n \in 1 .. top |-> Row(series, Tick(n))]
    BY DEF Rows
  <1> HIDE DEF rows, ticks
  <1>5. DOMAIN rows = 1 .. top /\ \A n \in 1 .. top : rows[n] = Row(series, Tick(n))
    BY <1>4
  <1>6. /\ \A n \in 1 .. top : Tick(n) \in ticks
        /\ \A m, n \in 1 .. top : m < n => Tick(m) < Tick(n)
    BY Zenon, <1>2, PickedEntries
  <1> HIDE DEF top
  <1>7. Len(rows) = top
    BY <1>3, <1>4
  <1>8. ASSUME NEW n \in 1 .. top
        PROVE  /\ Tick(n) \in Nat /\ rows[n].tick = Tick(n)
               /\ rows[n].time = series.updated - (newest - Tick(n))
    <2>1. ticks # {} /\ Tick(n) \in ticks
      BY <1>6
    <2>2. Max(ticks) = newest
      BY <1>2, <2>1
    <2>3. Row(series, Tick(n)).tick = Tick(n) /\ Row(series, Tick(n)).time = Anchored(series, Tick(n))
      BY DEF Row
    <2>4. Anchored(series, Tick(n)) = series.updated - (newest - Tick(n))
      BY <2>2 DEF Anchored, ticks
    <2> QED
      BY <1>2, <1>5, <2>1, <2>3, <2>4
  <1>9. series.updated \in Int
    BY Zenon, <1>1 DEF DatedBy
  <1>10. ASSUME NEW m \in 1 .. top, NEW n \in 1 .. top, m < n PROVE rows[m].time < rows[n].time
    <2>1. Tick(m) < Tick(n)
      BY <1>6, <1>10
    <2> HIDE DEF Tick
    <2>2. /\ Tick(m) \in Nat /\ rows[m].time = series.updated - (newest - Tick(m))
          /\ Tick(n) \in Nat /\ rows[n].time = series.updated - (newest - Tick(n))
      BY Zenon, <1>8
    <2> QED
      BY <1>9, <2>1, <2>2
  <1>11. ASSUME NEW n \in 1 .. top, NEW then \in rows[top].ahead
         PROVE  rows[n].time = rows[n].tick + then
    <2>1. top \in 1 .. top
      BY <1>3
    <2>2. Tick(top) = newest
      <3>1. ticks # {} /\ top \in Nat \ {0}
        BY <1>3
      <3>2. newest <= Tick(top)
        BY <1>2, <3>1, LastOfPlaces DEF top
      <3>3. Tick(top) <= newest /\ Tick(top) \in Nat
        BY <1>2, <1>6, <2>1
      <3> HIDE DEF Tick
      <3> QED
        BY <3>2, <3>3
    <2>3. then \in Row(series, newest).ahead
      BY Zenon, <1>5, <1>11, <2>1, <2>2
    <2>4. PICK x \in Samples(series.rates) \cup Samples(series.totals) : x.at = newest /\ then = x.ahead
      BY <2>3 DEF Row
    <2>5. ASSUME NEW ring, IsRing(ring), Dated(ring, newest, series.updated), x \in Samples(ring)
          PROVE  newest + then = series.updated /\ then \in Int
      <3>1. DOMAIN ring = 1 .. Len(ring)
        BY Zenon, <2>5, RingFacts
      <3>2. PICK k \in DOMAIN ring : x = ring[k]
        BY Zenon, <2>5, <3>1 DEF Samples
      <3> QED
        BY Zenon, <2>4, <2>5, <3>2 DEF Dated
    <2>6. newest + then = series.updated /\ then \in Int
      BY Zenon, <1>1, <2>4, <2>5 DEF DatedBy
    <2> HIDE DEF Tick
    <2>7. Tick(n) \in Nat /\ rows[n].tick = Tick(n) /\ rows[n].time = series.updated - (newest - Tick(n))
      BY Zenon, <1>8
    <2> QED
      BY <2>6, <2>7
  <1>12. ASSUME identity = "single", NEW total \in WindowTotal(series.totals)
         PROVE  total.shown <= total.true
    <2> DEFINE ring == series.totals
               last == ring[Len(ring)]
               first == ring[1]
    <2>1. IsRing(ring)
      BY Zenon, <1>1 DEF DatedBy
    <2>2. DOMAIN ring = 1 .. Len(ring) /\ Len(ring) \in Nat
      BY Zenon, <2>1, RingFacts
    <2>3. /\ ~ (Len(ring) < 2)
          /\ total = [shown |-> last.total - first.total, true |-> last.true - first.true]
      BY <1>12 DEF WindowTotal
    <2>4. 1 \in DOMAIN ring /\ Len(ring) \in DOMAIN ring /\ 1 < Len(ring)
      BY <2>2, <2>3
    <2>5. PICK most : TotalsOfOne(ring, most)
      BY Zenon, <1>12
    <2>6. /\ last.total \in Nat /\ last.true \in Nat /\ first.total \in Nat /\ first.true \in Nat
          /\ Forgotten(first) <= Forgotten(last)
      BY Zenon, <2>4, <2>5 DEF TotalsOfOne
    <2>7. total.shown = last.total - first.total /\ total.true = last.true - first.true
      BY <2>3
    <2> HIDE DEF first, last
    <2> QED
      BY <2>6, <2>7 DEF Forgotten
  <1> DEFINE made == Snapshot(identity, series, records)
  <1>13. made.rows = rows /\ made.identity = identity /\ made.total = WindowTotal(series.totals)
    BY DEF Snapshot, rows
  <1> HIDE DEF made
  <1>14. Truthful(made)
    BY Zenon, <1>5, <1>7, <1>10, <1>11, <1>12, <1>13 DEF Truthful
  <1> QED
    BY Zenon, <1>14 DEF made

LEMMA ExportInvHolds == ExportSpec => []ExportInv
  <1>1. Truthful(NoSnapshot)
    <2>1. NoSnapshot.identity # "single" /\ NoSnapshot.rows = <<>> /\ DOMAIN <<>> = {}
      BY EmptySeq DEF NoSnapshot
    <2> QED
      BY Zenon, <2>1 DEF Truthful
  <1>2. ExportInit => ExportInv
    <2> SUFFICES ASSUME ExportInit PROVE ExportInv
      OBVIOUS
    <2>1. /\ clock = 0 /\ counted = [i \in Interfaces |-> 0] /\ transferred = 0
          /\ ahead \in Offsets /\ linked \in SUBSET Interfaces /\ single = NoSeries
          /\ aggregate = NoSeries /\ snapshot = NoSnapshot /\ step = "away" /\ destination = "absent"
      BY DEF ExportInit
    <2>2. /\ counted \in [Interfaces -> Nat] /\ transferred \in Nat /\ linked \subseteq Interfaces
          /\ clock \in Nat /\ step # "written" /\ destination # "partial"
      BY <2>1
    <2>3. ahead \in Int
      BY <2>1, ExportConstants
    <2> QED
      BY Zenon, <1>1, <2>1, <2>2, <2>3, NoSeriesFacts DEF ExportInv
  <1>3. ExportInv /\ [ExportNext]_exportVars => ExportInv'
    <2> SUFFICES ASSUME ExportInv, [ExportNext]_exportVars PROVE ExportInv'
      OBVIOUS
    <2>1. /\ counted \in [Interfaces -> Nat] /\ transferred \in Nat /\ linked \subseteq Interfaces
          /\ ahead \in Int /\ Truthful(snapshot) /\ destination # "partial"
          /\ step = "written" => temporary = "whole"
      BY Zenon DEF ExportInv
    <2>2. ASSUME NEW i \in Interfaces, Transfers(i) PROVE ExportInv'
      <3>1. /\ step = "away" /\ counted' = [counted EXCEPT ![i] = @ + 1]
            /\ transferred' = IF i = Single THEN transferred + 1 ELSE transferred
            /\ ahead' = ahead /\ linked' = linked /\ UNCHANGED <<historyVars, pageVars>>
        BY <2>2 DEF Transfers
      <3>2. counted' \in [Interfaces -> Nat] /\ transferred' \in Nat
        BY <2>1, <3>1
      <3>3. Single \in Interfaces =>
               transferred - counted[Single] <= transferred' - counted'[Single]
        BY <2>1, <3>1
      <3>4. ahead' \in Int /\ linked' \subseteq Interfaces
        BY <2>1, <3>1
      <3> QED
        BY Zenon, <3>1, <3>2, <3>3, <3>4, InterfacesKeepExport
    <2>3. ASSUME NEW i \in Interfaces, ComesOrGoes(i) \/ Restarts(i) PROVE ExportInv'
      <3>1. /\ step = "away"
            /\ counted' = counted \/ counted' = [counted EXCEPT ![i] = 0]
            /\ linked' = linked \/ linked' = linked \ {i} \/ linked' = linked \cup {i}
            /\ transferred' = transferred /\ ahead' = ahead
            /\ UNCHANGED <<historyVars, pageVars>>
        BY <2>3 DEF ComesOrGoes, Restarts
      <3>2. counted' \in [Interfaces -> Nat] /\ linked' \subseteq Interfaces
        BY <2>1, <3>1
      <3>3. Single \in Interfaces =>
               transferred - counted[Single] <= transferred' - counted'[Single]
        BY <2>1, <3>1
      <3>4. ahead' \in Int /\ transferred' \in Nat
        BY <2>1, <3>1
      <3> QED
        BY Zenon, <3>1, <3>2, <3>3, <3>4, InterfacesKeepExport
    <2>4. CASE WallClockMoves
      <3>1. /\ step = "away" /\ ahead' \in Offsets /\ counted' = counted
            /\ transferred' = transferred /\ linked' = linked /\ UNCHANGED <<historyVars, pageVars>>
        BY <2>4 DEF WallClockMoves
      <3>2. ahead' \in Int
        BY <3>1, ExportConstants
      <3>3. Single \in Interfaces =>
               transferred - counted[Single] <= transferred' - counted'[Single]
        BY <2>1, <3>1
      <3>4. /\ counted' \in [Interfaces -> Nat] /\ transferred' \in Nat /\ linked' \subseteq Interfaces
        BY <2>1, <3>1
      <3> QED
        BY Zenon, <3>1, <3>2, <3>3, <3>4, InterfacesKeepExport
    <2>5. CASE Cycles
      <3>1. /\ UNCHANGED <<kernelVars, historyVars>> /\ snapshot' = snapshot
            /\ destination' = destination /\ step' = step /\ temporary' = temporary
        BY <2>5 DEF Cycles, pageVars, fileVars
      <3> QED
        BY Zenon, <2>1, <3>1, PageKeepsExport DEF Truthful
    <2>6. CASE Opens
      <3>1. /\ UNCHANGED <<kernelVars, historyVars>> /\ destination' = destination
            /\ step' # "written"
            /\ \/ snapshot' = NoSnapshot
               \/ \E records : snapshot' = Snapshot(Identity,
                                   IF Identity = "single" THEN single ELSE aggregate, records)
        <4>1. PICK records \in Known :
                 LET made == Snapshot(Identity, IF Identity = "single" THEN single ELSE aggregate,
                                      records) IN
                 IF Content(made)
                 THEN snapshot' = made /\ format' \in Formats /\ step' = "destination"
                 ELSE Away
          BY Zenon, <2>6 DEF Opens
        <4>2. UNCHANGED <<kernelVars, historyVars, selection, fileVars>>
          BY Zenon, <2>6 DEF Opens
        <4> DEFINE made == Snapshot(Identity, IF Identity = "single" THEN single ELSE aggregate,
                                    records)
        <4>3. (snapshot' = made /\ step' = "destination") \/ Away
          BY Zenon, <4>1
        <4>4. (snapshot' = made /\ step' = "destination") \/ (snapshot' = NoSnapshot /\ step' = "away")
          BY Zenon, <4>3 DEF Away
        <4> HIDE DEF made
        <4>5. (snapshot' = made \/ snapshot' = NoSnapshot) /\ step' # "written"
          BY <4>4
        <4>6. UNCHANGED <<kernelVars, historyVars>> /\ destination' = destination
          BY <4>2 DEF fileVars
        <4> QED
          BY Zenon, <4>5, <4>6 DEF made
      <3>2. ASSUME NEW records
            PROVE  Truthful(Snapshot(Identity, IF Identity = "single" THEN single ELSE aggregate,
                                     records))
        <4>1. SeriesBy(single, clock) /\ SeriesBy(aggregate, clock)
          BY Zenon DEF ExportInv
        <4>2. CASE Identity = "single"
          <5>1. single.there
            BY <4>2 DEF Identity
          <5>2. \E most : TotalsOfOne(single.totals, most)
            BY Zenon, <5>1 DEF ExportInv
          <5> QED
            BY Zenon, <4>1, <4>2, <5>2, SnapshotIsTruthful
        <4>3. CASE Identity # "single"
          BY Zenon, <4>1, <4>3, SnapshotIsTruthful
        <4> QED
          BY Zenon, <4>2, <4>3
      <3>3. Truthful(snapshot')
        BY Zenon, <1>1, <3>1, <3>2
      <3> QED
        BY Zenon, <2>1, <3>1, <3>3, PageKeepsExport
    <2>7. CASE Leaves \/ GivesDestination \/ Overwrites \/ Killed
      <3>1. /\ UNCHANGED <<kernelVars, historyVars>> /\ destination' = destination
            /\ snapshot' = snapshot \/ snapshot' = NoSnapshot
            /\ step' # "written"
        BY <2>7 DEF Leaves, GivesDestination, Overwrites, Killed, Away, fileVars
      <3> QED
        BY Zenon, <1>1, <2>1, <3>1, PageKeepsExport
    <2>8. CASE OpensFile
      <3>1. /\ UNCHANGED <<kernelVars, historyVars>> /\ destination' = destination
            /\ snapshot' = snapshot \/ snapshot' = NoSnapshot
            /\ step' # "written"
        BY <2>8 DEF OpensFile, Away, Target, Beside, fileVars
      <3> QED
        BY Zenon, <1>1, <2>1, <3>1, PageKeepsExport
    <2>9. CASE Writes
      <3>1. /\ UNCHANGED <<kernelVars, historyVars>> /\ destination' = destination
            /\ snapshot' = snapshot \/ snapshot' = NoSnapshot
            /\ step' = "written" => temporary' = "whole"
        BY <2>9 DEF Writes, Away
      <3> QED
        BY Zenon, <1>1, <2>1, <3>1, PageKeepsExport
    <2>10. CASE Renames
      <3>1. /\ UNCHANGED <<kernelVars, historyVars>> /\ destination' # "partial"
            /\ snapshot' = NoSnapshot /\ step' # "written"
        BY <2>1, <2>10 DEF Renames, Away
      <3> QED
        BY Zenon, <1>1, <3>1, PageKeepsExport
    <2>11. CASE UNCHANGED exportVars
      <3>1. /\ UNCHANGED <<kernelVars, historyVars>> /\ destination' = destination
            /\ temporary' = temporary /\ step' = step /\ snapshot' = snapshot
        BY <2>11 DEF exportVars, pageVars, fileVars
      <3> QED
        BY Zenon, <2>1, <3>1, PageKeepsExport DEF Truthful
    <2> QED
      BY Zenon, <2>2, <2>3, <2>4, <2>5, <2>6, <2>7, <2>8, <2>9, <2>10, <2>11, RefreshKeepsExport,
         ResizesKeepsExport DEF ExportNext
  <1> QED
    BY <1>2, <1>3, PTL DEF ExportSpec

\* A crash never leaves a partial export: writeNetworkTrafficExport writes beside and renames
\* a file that is whole.  The rows are in order and have the wall clock's times of their
\* samples while the two clocks keep their distance, and the total of the window is no more
\* than what one interface transferred in it, through resets, absences and refreshes.
THEOREM ExportsAreTrue == ExportSpec => []ExportIsTrue
  <1>1. ExportInv => ExportIsTrue
    BY Zenon DEF ExportInv, Truthful, ExportIsTrue
  <1> QED
    BY <1>1, ExportInvHolds, PTL
=============================================================================
