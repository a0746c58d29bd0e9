----------------------- MODULE NetworkLinkStateProofs -----------------------
(***************************************************************************)
(* Theorems about what is known of a network interface: its link state     *)
(* (NetworkLinkState), for any names, indices and link states; then its    *)
(* wireless association and the grade of its connection (NetworkWireless)  *)
(* and its speed and duplex (NetworkLinkMetrics), for any observations and *)
(* reports.                                                                *)
(***************************************************************************)
EXTENDS NetworkLinkState, NetworkWireless, NetworkLinkMetrics, SubsequencesProofs

(* Link state.                                                             *)

Reading == {"ifindex", "operstate", "carrier", "flags"}

\* A warning is about a present entry, whose state, when it is not one of a
\* device or is up again, made the warning a mixed one.
WarnInv ==
    \A id \in Identities :
       severity[id] = "Warning" =>
          /\ id \in tracked /\ ~IsGone(id) /\ state[id].valid
          /\ (Consistent(state[id]) /\ ~FullyUp(state[id])) \/ mixed[id]

\* Nothing happened to an identity, and no read of it failed, since the last
\* refresh began, or since the one before.
Calm(id) == age[id] >= 1 /\ unread[id] >= 1
VeryCalm(id) == age[id] = 2 /\ unread[id] = 2

\* The same of the device with name n.
CalmDevice(n) == index[n] # NoIndex /\ Calm(index[n])
VeryCalmDevice(n) == index[n] # NoIndex /\ VeryCalm(index[n])

\* The identity an info has, or the one of the device with its name, is calm.
CalmInfo(s) ==
    Calm(Identity(s)) \/ CalmDevice(s.name)

\* The files of a device read so far.
OperRead == phase \in {"carrier", "flags"}
ReadSoFar(n) ==
    /\ phase # "ifindex" => info.index = index[n]
    /\ OperRead => info.oper = link[n].oper
    /\ phase = "flags" => info.carrier = link[n].carrier

\* An info that tells the state of the device with its name.
Tells(s) ==
    /\ s.index \in Indices /\ s.index = index[s.name]
    /\ s.oper = link[s.name].oper /\ s.carrier = link[s.name].carrier
    /\ s.admin = link[s.name].admin

\* An entry that has the state of the device with name n.
Knows(id, n) ==
    /\ id \in tracked /\ ~IsGone(id) /\ state[id].valid
    /\ state[id].oper = link[n].oper
    /\ state[id].carrier = Parsed(link[n].carrier)
    /\ state[id].admin = link[n].admin

KnowsDevice(n) == Knows(index[n], n)

\* No two names have one index; a name is read once.
NamesInv ==
    /\ \A n, m \in Names : index[n] = index[m] /\ index[n] # NoIndex => n = m
    /\ phase \in Reading => info.name \in Names /\ info.name \notin toRead
    /\ phase \notin Reading => toRead = {}
    /\ \A s \in snapshot :
          /\ s.name \in Names /\ s.name \notin toRead
          /\ phase \in Reading => s.name # info.name
    /\ \A s, t \in snapshot : s.name = t.name => s = t

\* What is listed, read, stored and known of calm devices is their state.
CalmInv ==
    /\ \A n \in Names : CalmDevice(n) =>
          \/ n \in toRead
          \/ phase \in Reading /\ info.name = n
          \/ \E s \in snapshot : s.name = n
    /\ \A n \in Names :
          /\ n \in toRead \/ (phase \in Reading /\ info.name = n)
          /\ index[n] = NoIndex
          => age[n] = 0
    /\ phase \in Reading /\ phase # "ifindex" /\ CalmInfo(info) =>
          info.index # NoIndex /\ ReadSoFar(info.name)
    /\ \A s \in snapshot : CalmInfo(s) => Tells(s)
    /\ \A s \in snapshot \ pending :
          phase = "update" /\ Calm(Identity(s)) => Knows(Identity(s), s.name)
    /\ \A n \in Names :
          \/ phase = "idle" /\ CalmDevice(n)
          \/ VeryCalmDevice(n)
          => KnowsDevice(n)

-----------------------------------------------------------------------------
(* Types *)

LEMMA InitType == Init => TypeOK
  BY LinkConstants DEF Init, TypeOK, Infos, Entries, NoInfo, Blank, Identities,
     Opers, Carriers, Admins

LEMMA DevicesType ==
  ASSUME TypeOK, NEW n \in Names, index[n] # NoIndex
  PROVE  Devices({n}) = {n, index[n]}
  BY DEF Devices

LEMMA KernelType == TypeOK /\ Kernel => TypeOK'
  <1> SUFFICES ASSUME TypeOK, Kernel PROVE TypeOK'
    OBVIOUS
  <1>1. /\ changes' \in 0..MaxChanges
        /\ UNCHANGED <<phase, readVars, snapshot, pending, entryVars, alertVars>>
    <2>1. KernelStep
      BY DEF Kernel, LinkChanges, Unplugged, Plugged, Renamed
    <2> QED BY <2>1, LinkConstants DEF KernelStep, TypeOK
  <1>2. age' \in [Identities -> 0..2]
    BY DEF Kernel, LinkChanges, Unplugged, Plugged, Renamed, Touched, TypeOK
  <1>3. NoLink \in LinkStates
    <2>1. \E n \in Names : link[n] \in LinkStates
      BY DEF Kernel, TypeOK
    <2> QED BY <2>1 DEF NoLink
  <1>4. /\ index' \in [Names -> Indices \cup {NoIndex}]
        /\ link' \in [Names -> LinkStates]
    BY <1>3 DEF Kernel, LinkChanges, Unplugged, Plugged, Renamed, TypeOK
  <1> QED BY <1>1, <1>2, <1>4 DEF TypeOK, readVars, entryVars, alertVars, IsGone

LEMMA ReadsType ==
  ASSUME TypeOK, NEW value, NEW missing, NEW got, Reads(value, missing, got)
  PROVE  failures' \in 0..MaxFailures /\ unread' \in [Identities -> 0..2]
  BY LinkConstants DEF Reads, TypeOK

LEMMA ReadType == TypeOK /\ Read => TypeOK'
  <1> SUFFICES ASSUME TypeOK, Read PROVE TypeOK'
    OBVIOUS
  <1>1. CASE List
    <2>1. failures' \in 0..MaxFailures
      BY <1>1, LinkConstants DEF List, TypeOK
    <2>2. unread' \in [Identities -> 0..2] /\ age' \in [Identities -> 0..2]
      BY <1>1 DEF List, TypeOK, Older
    <2>3. toRead' \subseteq Names /\ info' \in Infos
      BY <1>1 DEF List, TypeOK, Begin, NoInfo, Infos, Existing
    <2>4. phase' \in {"ifindex", "update"}
      BY <1>1 DEF List
    <2> QED BY <1>1, <2>1, <2>2, <2>3, <2>4 DEF List, TypeOK, kernelVars, entryVars, IsGone
  <1>2. CASE ReadIndex
    <2>1. info' \in Infos
      BY <1>2 DEF ReadIndex, TypeOK, Infos
    <2> QED BY <1>2, <2>1, ReadsType
          DEF ReadIndex, ReadUnchanged, TypeOK, kernelVars, entryVars, alertVars, IsGone
  <1>3. CASE ReadOper
    <2>1. info' \in Infos
      BY <1>3 DEF ReadOper, TypeOK, Infos
    <2> QED BY <1>3, <2>1, ReadsType
          DEF ReadOper, ReadUnchanged, TypeOK, kernelVars, entryVars, alertVars, IsGone
  <1>4. CASE ReadCarrier
    <2>1. info' \in Infos
      BY <1>4 DEF ReadCarrier, TypeOK, Infos
    <2> QED BY <1>4, <2>1, ReadsType
          DEF ReadCarrier, ReadUnchanged, TypeOK, kernelVars, entryVars, alertVars, IsGone
  <1>5. CASE ReadFlags
    <2>1. snapshot' \subseteq Infos
      BY <1>5 DEF ReadFlags, TypeOK, Infos
    <2>2. toRead' \subseteq Names /\ info' \in Infos /\ pending' \subseteq snapshot'
          /\ phase' \in {"update", "ifindex"}
      BY <1>5 DEF ReadFlags, TypeOK, Begin, NoInfo, Infos
    <2>3. failures' \in 0..MaxFailures /\ unread' \in [Identities -> 0..2]
      BY <1>5, ReadsType DEF ReadFlags
    <2> QED BY <1>5, <2>1, <2>2, <2>3
          DEF ReadFlags, ReadUnchanged, TypeOK, kernelVars, entryVars, alertVars, IsGone
  <1> QED BY <1>1, <1>2, <1>3, <1>4, <1>5 DEF Read

LEMMA InfoFacts ==
  ASSUME TypeOK, NEW i \in pending
  PROVE  /\ i \in Infos /\ i \in snapshot
         /\ \A valid \in BOOLEAN : Stored(i, valid) \in Entries
         /\ LinkKnown(i) \in BOOLEAN
  BY DEF TypeOK, Infos, Stored, Entries, Parsed, LinkKnown, Opers, Carriers, Admins

\* The branches of update() for one info.
Branch(i) ==
    \/ Discover(i) \/ Reappear(i) \/ KeepLastState(i)
    \/ Baseline(i) \/ Unchanged(i) \/ Change(i)

LEMMA BranchType ==
  ASSUME TypeOK, NEW i \in pending, Identity(i) \in Identities, Branch(i)
  PROVE  TypeOK'
  <1> DEFINE id == Identity(i)
  <1>0. i \in snapshot /\ (\A valid \in BOOLEAN : Stored(i, valid) \in Entries)
        /\ LinkKnown(i) \in BOOLEAN /\ id \in Identities
    BY InfoFacts
  <1>1. /\ Takes(i)
        /\ UNCHANGED now
    BY DEF Branch, Discover, Reappear, KeepLastState, Baseline, Unchanged, Change
  <1>2. tracked \subseteq tracked' /\ tracked' \subseteq Identities
    BY <1>0 DEF Branch, Discover, Reappear, KeepLastState, Baseline, Unchanged, Change, TypeOK
  <1>3. goneSince' \in [Identities -> 0..now] /\ \A x \in Identities \ tracked : goneSince'[x] = 0
    <2>1. \/ UNCHANGED goneSince
          \/ goneSince' = [goneSince EXCEPT ![id] = 0]
      BY DEF Branch, Discover, Reappear, KeepLastState, Baseline, Unchanged, Change
    <2>2. goneSince \in [Identities -> 0..now] /\ now \in Nat
          /\ \A x \in Identities \ tracked : goneSince[x] = 0
      BY DEF TypeOK
    <2> QED BY <2>1, <2>2
  <1>4. state' \in [Identities -> Entries]
    <2>1. \E e \in Entries : state' = [state EXCEPT ![id] = e]
      <3>1. \A b \in BOOLEAN : [state[id] EXCEPT !.known = b] \in Entries
        BY <1>0 DEF TypeOK, Entries
      <3> QED BY <1>0, <3>1 DEF Branch, Discover, Reappear, KeepLastState, Baseline, Unchanged,
              Change, SetState
    <2> QED BY <2>1 DEF TypeOK
  <1>5. severity' \in [Identities -> {"Normal", "Warning"}] /\ notified' \subseteq Identities
    BY <1>0 DEF Branch, Discover, Reappear, KeepLastState, Baseline, Unchanged, Change, TypeOK,
       RecordAlert, NoAlert, alertVars
  <1>6. mixed' \in [Identities -> BOOLEAN]
    <2>1. \/ UNCHANGED mixed
          \/ \E b \in BOOLEAN : mixed' = [mixed EXCEPT ![id] = b]
      BY DEF Branch, Discover, Reappear, KeepLastState, Baseline, Unchanged, Change, alertVars, Mixes
    <2> QED BY <2>1, <1>0 DEF TypeOK
  <1> QED BY <1>1, <1>2, <1>3, <1>4, <1>5, <1>6 DEF TypeOK, Takes, kernelVars, readVars

LEMMA FinishType == TypeOK /\ FinishUpdate => TypeOK'
  <1> SUFFICES ASSUME TypeOK, FinishUpdate PROVE TypeOK'
    OBVIOUS
  <1> DEFINE since == [id \in Identities |-> IF id \in NowGone THEN now' ELSE goneSince[id]]
  <1>1. now' \in Nat /\ now <= now' /\ since \in [Identities -> 0..now']
    BY DEF FinishUpdate, TypeOK
  <1>2. PICK out \in Evicted(since) :
          /\ tracked' = tracked \ out
          /\ goneSince' = [id \in Identities |-> IF id \in out THEN 0 ELSE since[id]]
          /\ state' = [id \in Identities |-> IF id \in out THEN Blank ELSE state[id]]
    BY DEF FinishUpdate
  <1>3. NowGone \subseteq tracked
    BY DEF NowGone
  <1>4. /\ goneSince' \in [Identities -> 0..now']
        /\ \A id \in Identities \ tracked' : goneSince'[id] = 0
    BY <1>1, <1>2, <1>3 DEF TypeOK
  <1>5. Blank \in Entries
    BY DEF Blank, Entries, Opers, Carriers, Admins
  <1>6. state' \in [Identities -> Entries]
    BY <1>2, <1>5 DEF TypeOK
  <1>7. severity' \in [Identities -> {"Normal", "Warning"}]
    BY DEF FinishUpdate, ClearSubjects, TypeOK
  <1>8. mixed' \in [Identities -> BOOLEAN]
    BY DEF FinishUpdate, ClearSubjects, TypeOK
  <1> QED BY <1>1, <1>2, <1>4, <1>6, <1>7, <1>8
        DEF FinishUpdate, TypeOK, kernelVars, readVars

-----------------------------------------------------------------------------
(* Names *)

LEMMA IdentityType ==
  ASSUME TypeOK, NamesInv, NEW i \in snapshot
  PROVE  Identity(i) \in Identities
  BY DEF TypeOK, NamesInv, Infos, Identity, Identities

LEMMA KernelNames == TypeOK /\ NamesInv /\ Kernel => NamesInv'
  <1> SUFFICES ASSUME TypeOK, NamesInv, Kernel PROVE NamesInv'
    OBVIOUS
  <1>1. KernelStep
    BY DEF Kernel, LinkChanges, Unplugged, Plugged, Renamed
  <1>2. UNCHANGED <<phase, toRead, info, snapshot>>
    BY <1>1 DEF KernelStep, readVars
  <1>3. ASSUME NEW n \in Names', NEW m \in Names', index'[n] = index'[m], index'[n] # NoIndex
        PROVE  n = m
    <2>1. \A x, y \in Names : index[x] = index[y] /\ index[x] # NoIndex => x = y
      BY DEF NamesInv
    <2>2. index \in [Names -> Indices \cup {NoIndex}]
      BY DEF TypeOK
    <2>3. CASE \E x \in Names : LinkChanges(x) \/ Unplugged(x)
      BY <1>3, <2>1, <2>2, <2>3 DEF LinkChanges, Unplugged
    <2>4. CASE \E x \in Names : Plugged(x)
      BY <1>3, <2>1, <2>2, <2>4, LinkConstants DEF Plugged, Existing, Identities
    <2>5. CASE \E x, y \in Names : Renamed(x, y)
      BY <1>3, <2>1, <2>2, <2>5 DEF Renamed
    <2> QED BY <2>3, <2>4, <2>5 DEF Kernel
  <1> QED BY <1>2, <1>3 DEF NamesInv

LEMMA ReadNames == TypeOK /\ NamesInv /\ Read => NamesInv'
  <1> SUFFICES ASSUME TypeOK, NamesInv, Read PROVE NamesInv'
    OBVIOUS
  <1>1. UNCHANGED index
    BY DEF Read, List, ReadIndex, ReadOper, ReadCarrier, ReadFlags, ReadUnchanged, kernelVars
  <1>2. CASE List
    BY <1>1, <1>2 DEF List, NamesInv, Begin, NoInfo, Reading, Existing
  <1>3. CASE ReadIndex \/ ReadOper \/ ReadCarrier
    <2>1. /\ info'.name = info.name /\ phase \in Reading /\ phase' \in Reading
          /\ UNCHANGED <<toRead, snapshot>>
      BY <1>3 DEF ReadIndex, ReadOper, ReadCarrier, Reading, TypeOK, Infos
    <2> QED BY <1>1, <2>1 DEF NamesInv
  <1>4. CASE ReadFlags
    <2>1. PICK s : /\ s.name = info.name
                   /\ snapshot' = snapshot \cup {s}
      BY <1>4 DEF ReadFlags, TypeOK, Infos
    <2>2. phase = "flags" /\ phase \in Reading
      BY <1>4 DEF ReadFlags, Reading
    <2>3. CASE toRead = {}
      <3>1. phase' = "update" /\ toRead' = {} /\ phase' \notin Reading
        BY <1>4, <2>3 DEF ReadFlags, Reading
      <3> QED BY <1>1, <2>1, <2>2, <3>1 DEF NamesInv
    <2>4. CASE toRead # {}
      <3>1. PICK n \in toRead : info'.name = n /\ toRead' = toRead \ {n}
        BY <1>4, <2>4 DEF ReadFlags, Begin, NoInfo
      <3>2. phase' = "ifindex" /\ phase' \in Reading /\ toRead \subseteq Names
        BY <1>4, <2>4 DEF ReadFlags, Reading, TypeOK
      <3> QED BY <1>1, <2>1, <2>2, <3>1, <3>2 DEF NamesInv
    <2> QED BY <2>3, <2>4
  <1> QED BY <1>2, <1>3, <1>4 DEF Read

LEMMA UpdateNames == TypeOK /\ NamesInv /\ Update => NamesInv'
  <1> SUFFICES ASSUME TypeOK, NamesInv, Update PROVE NamesInv'
    OBVIOUS
  <1>1. UNCHANGED <<index, toRead, info, snapshot>> /\ phase = "update" /\ phase' \in {"update", "idle"}
    BY DEF Update, Discover, Reappear, KeepLastState, Baseline, Unchanged, Change, Takes,
           FinishUpdate, kernelVars, readVars
  <1> QED BY <1>1 DEF NamesInv, Reading

LEMMA StepType == TypeOK /\ NamesInv /\ [Next]_vars => TypeOK'
  <1> SUFFICES ASSUME TypeOK, NamesInv, [Next]_vars PROVE TypeOK'
    OBVIOUS
  <1>1. CASE Kernel BY <1>1, KernelType
  <1>2. CASE Read BY <1>2, ReadType
  <1>3. ASSUME NEW i \in pending, Branch(i) PROVE TypeOK'
    <2>1. i \in snapshot
      BY DEF TypeOK
    <2> QED BY <1>3, <2>1, IdentityType, BranchType
  <1>4. CASE FinishUpdate BY <1>4, FinishType
  <1>5. CASE UNCHANGED vars
    BY <1>5 DEF vars, kernelVars, readVars, entryVars, alertVars, TypeOK
  <1> QED BY <1>1, <1>2, <1>3, <1>4, <1>5 DEF Next, Update, Branch

LEMMA StepNames == TypeOK /\ NamesInv /\ [Next]_vars => NamesInv'
  <1>1. ASSUME NamesInv, UNCHANGED vars PROVE NamesInv'
    BY <1>1 DEF vars, kernelVars, readVars, NamesInv
  <1> QED BY <1>1, KernelNames, ReadNames, UpdateNames DEF Next

LEMMA InitNames == Init => NamesInv
  BY DEF Init, NamesInv, Reading

\* Every variable keeps its type: the identity of every info of the snapshot
\* is an index or a name, whatever the kernel did while it was read.
THEOREM TypeCorrect == Spec => []TypeOK
  <1>1. Init => TypeOK /\ NamesInv
    BY InitType, InitNames
  <1>2. TypeOK /\ NamesInv /\ [Next]_vars => TypeOK' /\ NamesInv'
    BY StepType, StepNames
  <1> QED BY <1>1, <1>2, PTL DEF Spec

-----------------------------------------------------------------------------
(* Warnings *)

\* The entry of an identity that has a warning.
WarnedOf(id) ==
    /\ id \in tracked /\ ~IsGone(id) /\ state[id].valid
    /\ (Consistent(state[id]) /\ ~FullyUp(state[id])) \/ mixed[id]

\* A link that is fully up was not lost in the change that made it so.
LEMMA UpIsNotLost ==
  ASSUME NEW old, NEW new, FullyUp(new)
  PROVE  ~Lost(old, new)
  BY DEF FullyUp, Lost

\* It was gained, unless it was already connected with carrier.
LEMMA UpIsGained ==
  ASSUME NEW old, NEW new, FullyUp(new), ~Gained(old, new)
  PROVE  Connected(old) /\ old.carrier = "Carrier"
  BY DEF FullyUp, Gained

\* A device that is connected with carrier is enabled.
LEMMA ConnectedIsEnabled ==
  ASSUME NEW s, Consistent(s), Connected(s), s.carrier = "Carrier"
  PROVE  FullyUp(s)
  <1>1. PICK l \in LinkStates : s.oper = l.oper /\ s.carrier = Parsed(l.carrier) /\ s.admin = l.admin
    BY DEF Consistent
  <1>2. l.carrier = "Carrier"
    BY <1>1 DEF Parsed
  <1>3. l.admin = "AdminUp"
    BY <1>2, LinkConstants
  <1> QED BY <1>1, <1>3 DEF FullyUp

\* What a branch leaves to other identities, and to its own.
LEMMA BranchWarns ==
  ASSUME TypeOK, WarnInv, NEW i \in pending, Identity(i) \in Identities, Branch(i)
  PROVE  WarnInv'
  <1> DEFINE id == Identity(i)
  <1>0. /\ \A valid \in BOOLEAN : Stored(i, valid) \in Entries
        /\ LinkKnown(i) \in BOOLEAN /\ id \in Identities
    BY InfoFacts
  <1>1. ASSUME NEW x \in Identities, x # id, severity'[x] = "Warning"
        PROVE  WarnedOf(x)'
    <2>1. /\ severity'[x] = severity[x] /\ state'[x] = state[x]
          /\ goneSince'[x] = goneSince[x] /\ mixed'[x] = mixed[x]
          /\ tracked \subseteq tracked'
      BY <1>0, <1>1 DEF Branch, Discover, Reappear, KeepLastState, Baseline, Unchanged, Change,
         TypeOK, SetState, RecordAlert, NoAlert, Mixes, alertVars
    <2>2. WarnedOf(x)
      BY <1>1, <2>1 DEF WarnInv, WarnedOf
    <2> QED BY <2>1, <2>2 DEF WarnedOf, IsGone, Consistent, FullyUp, Connected
  <1>2. ASSUME severity'[id] = "Warning" PROVE WarnedOf(id)'
    <2>1. CASE Discover(i)
      BY <1>0, <1>2, <2>1 DEF Discover, WarnInv, alertVars
    <2>2. CASE Reappear(i)
      BY <1>0, <1>2, <2>2 DEF Reappear, RecordAlert, TypeOK
    <2>3. CASE KeepLastState(i) \/ Unchanged(i)
      <3>1. WarnedOf(id)
        BY <1>0, <1>2, <2>3 DEF KeepLastState, Unchanged, WarnInv, WarnedOf, alertVars
      <3>2. /\ UNCHANGED <<tracked, goneSince, mixed>>
            /\ \E b \in BOOLEAN : state' = [state EXCEPT ![id] = [state[id] EXCEPT !.known = b]]
        BY <2>3 DEF KeepLastState, Unchanged, SetState, alertVars
      <3>3. /\ state'[id].oper = state[id].oper /\ state'[id].carrier = state[id].carrier
            /\ state'[id].admin = state[id].admin /\ state'[id].valid = state[id].valid
        BY <1>0, <3>2 DEF TypeOK, Entries
      <3> QED BY <3>1, <3>2, <3>3 DEF WarnedOf, IsGone, Consistent, FullyUp, Connected
    <2>4. CASE Baseline(i)
      BY <1>0, <1>2, <2>4 DEF Baseline, WarnInv, NoAlert
    <2>5. CASE Change(i)
      <3> DEFINE old == state[id]
                 new == Stored(i, TRUE)
      <3>1. /\ id \in tracked' /\ goneSince'[id] = goneSince[id] /\ ~IsGone(id)
            /\ state'[id] = new /\ new.valid
        BY <1>0, <2>5 DEF Change, TypeOK, SetState, Stored
      <3>2. mixed'[id] = (mixed[id] \/ ~Consistent(new))
        BY <1>0, <1>2, <2>5 DEF Change, Mixes, TypeOK
      <3>3. ~mixed'[id] => Consistent(new) /\ ~mixed[id]
        BY <3>2
      <3>4. ASSUME FullyUp(new) PROVE mixed'[id]
        <4>1. ~Lost(old, new)
          BY <3>4, UpIsNotLost
        <4>2. severity[id] = "Warning" /\ ~Gained(old, new)
          BY <1>0, <1>2, <2>5, <4>1 DEF Change, RecordAlert, NoAlert, TypeOK
        <4>3. Connected(old) /\ old.carrier = "Carrier"
          BY <3>4, <4>2, UpIsGained
        <4>4. ~(Consistent(old) /\ ~FullyUp(old))
          BY <4>3, ConnectedIsEnabled
        <4>5. mixed[id]
          BY <1>0, <4>2, <4>4 DEF WarnInv
        <4> QED BY <3>2, <4>5
      <3>5. (Consistent(new) /\ ~FullyUp(new)) \/ mixed'[id]
        BY <3>3, <3>4
      <3> QED BY <3>1, <3>5 DEF WarnedOf, IsGone, Consistent, FullyUp, Connected
    <2> QED BY <2>1, <2>2, <2>3, <2>4, <2>5 DEF Branch
  <1> QED BY <1>1, <1>2 DEF WarnInv, WarnedOf

LEMMA FinishWarns == TypeOK /\ WarnInv /\ FinishUpdate => WarnInv'
  <1> SUFFICES ASSUME TypeOK, WarnInv, FinishUpdate,
                      NEW id \in Identities, severity'[id] = "Warning"
               PROVE  WarnedOf(id)'
    BY DEF WarnInv, WarnedOf
  <1> DEFINE since == [x \in Identities |-> IF x \in NowGone THEN now' ELSE goneSince[x]]
  <1>1. id \notin NowGone /\ severity[id] = "Warning" /\ mixed'[id] = mixed[id]
    BY DEF FinishUpdate, ClearSubjects, TypeOK
  <1>2. WarnedOf(id)
    BY <1>1 DEF WarnInv, WarnedOf
  <1>3. PICK out \in Evicted(since) :
          /\ tracked' = tracked \ out
          /\ goneSince' = [x \in Identities |-> IF x \in out THEN 0 ELSE since[x]]
          /\ state' = [x \in Identities |-> IF x \in out THEN Blank ELSE state[x]]
    BY DEF FinishUpdate
  <1>4. id \notin out
    <2>1. since[id] = goneSince[id] /\ goneSince[id] \in Nat
      BY <1>1 DEF TypeOK
    <2>2. ~(since[id] > 0)
      BY <1>2, <2>1 DEF WarnedOf, IsGone
    <2> QED BY <1>3, <2>2 DEF Evicted
  <1>5. id \in tracked' /\ goneSince'[id] = goneSince[id] /\ state'[id] = state[id]
    BY <1>1, <1>2, <1>3, <1>4 DEF WarnedOf
  <1> QED BY <1>1, <1>2, <1>5 DEF WarnedOf, IsGone, Consistent, FullyUp, Connected

LEMMA StepWarns == TypeOK /\ NamesInv /\ WarnInv /\ [Next]_vars => WarnInv'
  <1> SUFFICES ASSUME TypeOK, NamesInv, WarnInv, [Next]_vars PROVE WarnInv'
    OBVIOUS
  <1>1. CASE Kernel \/ Read \/ UNCHANGED vars
    <2>1. UNCHANGED <<severity, tracked, goneSince, state, mixed>>
      BY <1>1 DEF Kernel, LinkChanges, Unplugged, Plugged, Renamed, KernelStep, Read, List,
         ReadIndex, ReadOper, ReadCarrier, ReadFlags, ReadUnchanged, vars, entryVars, alertVars
    <2> QED BY <2>1 DEF WarnInv, IsGone, Consistent, FullyUp, Connected
  <1>2. ASSUME NEW i \in pending, Branch(i) PROVE WarnInv'
    <2>1. i \in snapshot
      BY DEF TypeOK
    <2> QED BY <1>2, <2>1, IdentityType, BranchWarns
  <1>3. CASE FinishUpdate BY <1>3, FinishWarns
  <1> QED BY <1>1, <1>2, <1>3 DEF Next, Update, Branch

LEMMA WarnInvHolds == Spec => [](TypeOK /\ NamesInv /\ WarnInv)
  <1>1. Init => TypeOK /\ NamesInv /\ WarnInv
    <2>1. Init => WarnInv
      BY DEF Init, WarnInv
    <2> QED BY <2>1, InitType, InitNames
  <1>2. TypeOK /\ NamesInv /\ WarnInv /\ [Next]_vars => (TypeOK /\ NamesInv /\ WarnInv)'
    BY StepType, StepNames, StepWarns
  <1> QED BY <1>1, <1>2, PTL DEF Spec

\* A warning is about an interface with an entry that is there: no removal
\* leaves one behind and no eviction takes the entry of one.
THEOREM WarningsArePresent == Spec => []WarningOfPresent
  <1>1. TypeOK /\ NamesInv /\ WarnInv => WarningOfPresent
    BY DEF WarnInv, WarningOfPresent
  <1> QED BY <1>1, WarnInvHolds, PTL

\* A warning ends when the interface is up again, unless a state no device
\* had was stored while it stood.
THEOREM WarningsEnd == Spec => []WarningEnds
  <1>1. TypeOK /\ NamesInv /\ WarnInv => WarningEnds
    BY DEF WarnInv, WarningEnds
  <1> QED BY <1>1, WarnInvHolds, PTL

-----------------------------------------------------------------------------
(* False alarms *)

\* A kernel step leaves alone what it does not touch.
LEMMA KernelTouches ==
  ASSUME TypeOK, Kernel
  PROVE  /\ UNCHANGED <<phase, toRead, info, unread, snapshot, pending, tracked, state,
                        goneSince, notified>>
         /\ \A id \in Identities : age'[id] = age[id] \/ age'[id] = 0
         /\ \A n \in Names :
               index[n] # NoIndex /\ age'[index[n]] >= 1
               => index'[n] = index[n] /\ link'[n] = link[n]
         /\ \A n \in Names :
               index'[n] # NoIndex /\ age'[index'[n]] >= 1
               => index'[n] = index[n] /\ link'[n] = link[n]
         /\ \A n \in Names : index[n] # NoIndex /\ index'[n] = NoIndex => age'[n] = 0
  <1>1. KernelStep
    BY DEF Kernel, LinkChanges, Unplugged, Plugged, Renamed
  <1>2. /\ index \in [Names -> Indices \cup {NoIndex}] /\ link \in [Names -> LinkStates]
        /\ age \in [Identities -> 0..2]
    BY DEF TypeOK
  <1>3. UNCHANGED <<phase, toRead, info, unread, snapshot, pending, tracked, state,
                    goneSince, notified>>
    BY <1>1 DEF KernelStep, readVars, entryVars, alertVars
  <1>4. PICK x \in Names :
           \/ LinkChanges(x) \/ Unplugged(x) \/ Plugged(x)
           \/ \E m \in Names : Renamed(x, m)
    BY DEF Kernel
  <1>5. CASE LinkChanges(x)
    <2>1. index[x] \in Identities /\ age'[index[x]] = 0 /\ UNCHANGED index
          /\ \A n \in Names : n # x => link'[n] = link[n]
      BY <1>2, <1>5 DEF LinkChanges, Touched, Devices, Identities
    <2>2. \A id \in Identities : age'[id] = age[id] \/ age'[id] = 0
      BY <1>5 DEF LinkChanges, Touched
    <2> QED BY <1>2, <1>3, <2>1, <2>2
  <1>6. CASE Unplugged(x)
    <2>1. /\ index[x] \in Identities /\ age'[index[x]] = 0 /\ age'[x] = 0 /\ index'[x] = NoIndex
          /\ \A n \in Names : n # x => link'[n] = link[n] /\ index'[n] = index[n]
      BY <1>2, <1>6 DEF Unplugged, Touched, Devices, Identities
    <2>2. \A id \in Identities : age'[id] = age[id] \/ age'[id] = 0
      BY <1>6 DEF Unplugged, Touched
    <2> QED BY <1>2, <1>3, <2>1, <2>2
  <1>7. CASE Plugged(x)
    <2>1. /\ index'[x] \in Indices /\ age'[index'[x]] = 0 /\ index[x] = NoIndex
          /\ \A n \in Names : n # x => link'[n] = link[n] /\ index'[n] = index[n]
      BY <1>2, <1>7 DEF Plugged, Touched, Identities
    <2>2. \A id \in Identities : age'[id] = age[id] \/ age'[id] = 0
      BY <1>7 DEF Plugged, Touched
    <2>3. index'[x] # NoIndex
      BY <2>1, LinkConstants DEF Identities
    <2> QED BY <1>2, <1>3, <2>1, <2>2, <2>3
  <1>8. ASSUME NEW m \in Names, Renamed(x, m) PROVE
              /\ \A id \in Identities : age'[id] = age[id] \/ age'[id] = 0
              /\ \A n \in Names :
                    index[n] # NoIndex /\ age'[index[n]] >= 1
                    => index'[n] = index[n] /\ link'[n] = link[n]
              /\ \A n \in Names :
                    index'[n] # NoIndex /\ age'[index'[n]] >= 1
                    => index'[n] = index[n] /\ link'[n] = link[n]
              /\ \A n \in Names : index[n] # NoIndex /\ index'[n] = NoIndex => age'[n] = 0
    <2>1. /\ index[x] \in Identities /\ age'[index[x]] = 0 /\ age'[x] = 0
          /\ index'[x] = NoIndex /\ index'[m] = index[x] /\ index[m] = NoIndex /\ x # m
          /\ \A n \in Names : n # x /\ n # m => link'[n] = link[n] /\ index'[n] = index[n]
      BY <1>2, <1>8 DEF Renamed, Touched, Identities
    <2>2. \A id \in Identities : age'[id] = age[id] \/ age'[id] = 0
      BY <1>8 DEF Renamed, Touched
    <2> QED BY <1>2, <2>1, <2>2
  <1> QED BY <1>3, <1>4, <1>5, <1>6, <1>7, <1>8

LEMMA KernelCalm == TypeOK /\ NamesInv /\ CalmInv /\ Kernel => CalmInv'
  <1> SUFFICES ASSUME TypeOK, NamesInv, CalmInv, Kernel PROVE CalmInv'
    OBVIOUS
  <1>1. /\ UNCHANGED <<phase, toRead, info, unread, snapshot, pending, tracked, state,
                       goneSince, notified>>
        /\ \A id \in Identities : age'[id] = age[id] \/ age'[id] = 0
        /\ \A n \in Names :
              index[n] # NoIndex /\ age'[index[n]] >= 1
              => index'[n] = index[n] /\ link'[n] = link[n]
        /\ \A n \in Names :
              index'[n] # NoIndex /\ age'[index'[n]] >= 1
              => index'[n] = index[n] /\ link'[n] = link[n]
        /\ \A n \in Names : index[n] # NoIndex /\ index'[n] = NoIndex => age'[n] = 0
    BY KernelTouches
  <1>2. /\ index \in [Names -> Indices \cup {NoIndex}] /\ age \in [Identities -> 0..2]
        /\ index' \in [Names -> Indices \cup {NoIndex}]
        /\ unread \in [Identities -> 0..2]
    BY KernelType DEF TypeOK
  <1>3. \A id \in Identities : (Calm(id)' => Calm(id)) /\ (VeryCalm(id)' => VeryCalm(id))
    BY <1>1, <1>2 DEF Calm, VeryCalm
  <1>4. ASSUME NEW n \in Names, CalmDevice(n)'
        PROVE  index[n] = index'[n] /\ link'[n] = link[n] /\ CalmDevice(n)
    <2>1. index'[n] \in Identities /\ index'[n] # NoIndex
      BY <1>2, <1>4 DEF Identities, CalmDevice
    <2>2. age'[index'[n]] >= 1 /\ unread'[index'[n]] >= 1
      BY <1>4 DEF CalmDevice, Calm
    <2>3. index[n] = index'[n] /\ link'[n] = link[n]
      BY <1>1, <2>1, <2>2
    <2>4. age[index[n]] >= 1 /\ unread[index[n]] >= 1
      BY <1>1, <1>2, <2>1, <2>2, <2>3
    <2> QED BY <2>1, <2>3, <2>4 DEF CalmDevice, Calm
  <1>5. ASSUME NEW s \in Infos, s.name \in Names, CalmInfo(s)'
        PROVE  /\ CalmInfo(s)
               /\ s.index = index[s.name] /\ s.index # NoIndex
                  => index'[s.name] = index[s.name] /\ link'[s.name] = link[s.name]
    <2>1. Identity(s) \in Identities /\ (s.index # NoIndex => Identity(s) = s.index)
      BY <1>5 DEF Identity, Infos, Identities
    <2>2. CASE Calm(Identity(s))'
      <3>1. Calm(Identity(s))
        BY <1>3, <2>1, <2>2
      <3>2. ASSUME s.index = index[s.name], s.index # NoIndex
            PROVE  index'[s.name] = index[s.name] /\ link'[s.name] = link[s.name]
        <4>1. age'[index[s.name]] >= 1
          BY <2>1, <2>2, <3>2 DEF Calm
        <4> QED BY <1>1, <1>5, <3>2, <4>1
      <3> QED BY <3>1, <3>2 DEF CalmInfo
    <2>3. CASE CalmDevice(s.name)'
      BY <1>4, <1>5, <2>3 DEF CalmInfo
    <2> QED BY <1>5, <2>2, <2>3 DEF CalmInfo, Identity
  <1>6. \A n \in Names : CalmDevice(n)' =>
           \/ n \in toRead'
           \/ phase' \in Reading /\ info'.name = n
           \/ \E s \in snapshot' : s.name = n
    BY <1>1, <1>4 DEF CalmInv
  <1>7. \A n \in Names :
           /\ n \in toRead' \/ (phase' \in Reading /\ info'.name = n)
           /\ index'[n] = NoIndex
           => age'[n] = 0
    <2> SUFFICES ASSUME NEW n \in Names, n \in toRead \/ (phase \in Reading /\ info.name = n),
                        index'[n] = NoIndex
                 PROVE  age'[n] = 0
      BY <1>1
    <2>1. n \in Identities
      BY DEF Identities
    <2>2. CASE index[n] = NoIndex
      BY <1>1, <2>1, <2>2 DEF CalmInv
    <2>3. CASE index[n] # NoIndex
      BY <1>1, <2>3
    <2> QED BY <2>2, <2>3
  <1>8. ASSUME phase \in Reading, phase # "ifindex", CalmInfo(info)'
        PROVE  info.index # NoIndex /\ ReadSoFar(info.name)'
    <2>1. info \in Infos /\ info.name \in Names
      BY <1>8 DEF TypeOK, NamesInv
    <2>2. CalmInfo(info) /\ (info.index = index[info.name] /\ info.index # NoIndex
             => index'[info.name] = index[info.name] /\ link'[info.name] = link[info.name])
      BY <1>5, <1>8, <1>1, <2>1
    <2>3. info.index # NoIndex /\ ReadSoFar(info.name)
      BY <1>8, <2>2 DEF CalmInv
    <2> QED BY <1>1, <1>8, <2>2, <2>3 DEF ReadSoFar, OperRead
  <1>9. \A s \in snapshot : CalmInfo(s)' => Tells(s)'
    <2> SUFFICES ASSUME NEW s \in snapshot, CalmInfo(s)' PROVE Tells(s)'
      OBVIOUS
    <2>1. s \in Infos /\ s.name \in Names
      BY DEF TypeOK, NamesInv
    <2>2. CalmInfo(s)
      BY <1>5, <2>1
    <2>3. Tells(s)
      BY <2>2 DEF CalmInv
    <2>4. s.index # NoIndex
      BY <2>3, LinkConstants DEF Tells, Identities
    <2> QED BY <1>5, <2>1, <2>3, <2>4 DEF Tells
  <1>10. phase # "update"
    <2>1. KernelStep
      BY DEF Kernel, LinkChanges, Unplugged, Plugged, Renamed
    <2> QED BY <2>1 DEF KernelStep
  <1>11. \A n \in Names :
            (phase' = "idle" /\ CalmDevice(n)') \/ VeryCalmDevice(n)' => KnowsDevice(n)'
    <2> SUFFICES ASSUME NEW n \in Names,
                        (phase' = "idle" /\ CalmDevice(n)') \/ VeryCalmDevice(n)'
                 PROVE  KnowsDevice(n)'
      OBVIOUS
    <2>1. CalmDevice(n)'
      BY DEF Calm, VeryCalm, CalmDevice, VeryCalmDevice
    <2>2. index[n] = index'[n] /\ link'[n] = link[n] /\ CalmDevice(n) /\ index[n] \in Identities
      BY <1>2, <1>4, <2>1 DEF Identities, CalmDevice
    <2>3. VeryCalmDevice(n)' => VeryCalmDevice(n)
      BY <1>3, <2>2 DEF VeryCalmDevice, VeryCalm
    <2>4. KnowsDevice(n)
      BY <1>1, <2>2, <2>3 DEF CalmInv
    <2> QED BY <1>1, <2>2, <2>4 DEF KnowsDevice, Knows, IsGone
  <1> QED BY <1>1, <1>6, <1>7, <1>8, <1>9, <1>10, <1>11 DEF CalmInv

LEMMA ListCalm == TypeOK /\ NamesInv /\ CalmInv /\ List => CalmInv'
  <1> SUFFICES ASSUME TypeOK, NamesInv, CalmInv, List PROVE CalmInv'
    OBVIOUS
  <1>1. PICK listed \in SUBSET Existing :
          /\ unread' = [id \in Identities |->
                           IF id \in Devices(Existing \ listed) THEN 0 ELSE Older(unread[id])]
          /\ IF listed = {}
             THEN phase' = "update" /\ toRead' = {} /\ info' = NoInfo
             ELSE \E n \in listed :
                     phase' = "ifindex" /\ toRead' = listed \ {n} /\ Begin(n)
    BY DEF List
  <1>2. /\ phase = "idle" /\ snapshot' = {} /\ pending' = {} /\ phase' \in {"ifindex", "update"}
        /\ age' = [id \in Identities |-> Older(age[id])]
        /\ UNCHANGED <<index, link, tracked, state, goneSince>>
    BY DEF List, kernelVars, entryVars
  <1>3. /\ index \in [Names -> Indices \cup {NoIndex}]
        /\ age \in [Identities -> 0..2] /\ unread \in [Identities -> 0..2]
    BY DEF TypeOK
  <1>4. ASSUME NEW n \in Names, CalmDevice(n)' PROVE n \in listed
    <2>1. index[n] \in Identities /\ index[n] # NoIndex /\ unread'[index[n]] >= 1
      BY <1>2, <1>3, <1>4 DEF Identities, CalmDevice, Calm
    <2>2. index[n] \notin Devices(Existing \ listed)
      BY <1>1, <2>1
    <2>3. n \in Existing
      BY <2>1 DEF Existing
    <2> QED BY <2>2, <2>3 DEF Devices
  <1>5. \A n \in Names : CalmDevice(n)' =>
           n \in toRead' \/ (phase' \in Reading /\ info'.name = n)
    <2> SUFFICES ASSUME NEW n \in Names, CalmDevice(n)'
                 PROVE  n \in toRead' \/ (phase' \in Reading /\ info'.name = n)
      OBVIOUS
    <2>1. n \in listed
      BY <1>4
    <2>2. PICK m \in listed : phase' = "ifindex" /\ toRead' = listed \ {m} /\ Begin(m)
      BY <1>1, <2>1
    <2>3. info'.name = m
      BY <2>2 DEF Begin, NoInfo
    <2> QED BY <2>1, <2>2, <2>3 DEF Reading
  <1>6. \A n \in Names :
           n \in toRead' \/ (phase' \in Reading /\ info'.name = n) => index'[n] # NoIndex
    BY <1>1, <1>2 DEF Begin, NoInfo, Reading, Existing
  <1>7. \A n \in Names : VeryCalmDevice(n)' => KnowsDevice(n)'
    <2> SUFFICES ASSUME NEW n \in Names, VeryCalmDevice(n)' PROVE KnowsDevice(n)'
      OBVIOUS
    <2>1. index[n] \in Identities /\ index[n] # NoIndex
      BY <1>2, <1>3 DEF Identities, VeryCalmDevice
    <2>2. Older(age[index[n]]) = 2 /\ Older(unread[index[n]]) = 2
      BY <1>1, <1>2, <2>1 DEF VeryCalm, VeryCalmDevice
    <2>3. CalmDevice(n)
      BY <1>3, <2>1, <2>2 DEF Older, Calm, CalmDevice
    <2>4. KnowsDevice(n)
      BY <1>2, <2>3 DEF CalmInv
    <2> QED BY <1>2, <2>4 DEF KnowsDevice, Knows, IsGone
  <1> QED BY <1>2, <1>5, <1>6, <1>7 DEF CalmInv, Reading

\* A read that did not fail and found a device gives its value.
LEMMA ReadsCalm ==
  ASSUME TypeOK, info.name \in Names, NEW value, NEW missing, NEW got,
         Reads(value, missing, got)
  PROVE  /\ \A id \in Identities : unread'[id] >= 1 => unread[id] >= 1
         /\ \/ got = (IF index[info.name] = NoIndex THEN missing ELSE value)
            \/ index[info.name] # NoIndex /\ unread'[info.name] = 0 /\ unread'[index[info.name]] = 0
  <1>1. /\ unread \in [Identities -> 0..2] /\ info.name \in Identities
        /\ index[info.name] # NoIndex => index[info.name] \in Identities
    BY DEF TypeOK, Identities
  <1> QED BY <1>1 DEF Reads, Devices

LEMMA ReadFileCalm ==
  TypeOK /\ NamesInv /\ CalmInv /\ (ReadIndex \/ ReadOper \/ ReadCarrier) => CalmInv'
  <1> SUFFICES ASSUME TypeOK, NamesInv, CalmInv, ReadIndex \/ ReadOper \/ ReadCarrier
               PROVE  CalmInv'
    OBVIOUS
  <1>1. /\ UNCHANGED <<index, link, age, toRead, snapshot, pending, tracked, state, goneSince>>
        /\ phase \in Reading /\ phase' \in Reading \ {"ifindex"}
    BY DEF ReadIndex, ReadOper, ReadCarrier, ReadUnchanged, kernelVars, entryVars, Reading
  <1>2. /\ index \in [Names -> Indices \cup {NoIndex}]
        /\ age \in [Identities -> 0..2] /\ unread \in [Identities -> 0..2]
        /\ info \in Infos /\ info.name \in Names /\ info.name \in Identities
    BY <1>1 DEF TypeOK, NamesInv, Identities
  <1>3. info'.name = info.name
    BY <1>2 DEF ReadIndex, ReadOper, ReadCarrier, Infos
  <1>4. \A id \in Identities : unread'[id] >= 1 => unread[id] >= 1
    BY <1>2, ReadsCalm DEF ReadIndex, ReadOper, ReadCarrier
  <1>5. unread' \in [Identities -> 0..2]
    BY ReadsType DEF ReadIndex, ReadOper, ReadCarrier
  <1>6. \A id \in Identities : (Calm(id)' => Calm(id)) /\ (VeryCalm(id)' => VeryCalm(id))
    <2> SUFFICES ASSUME NEW id \in Identities
                 PROVE  (Calm(id)' => Calm(id)) /\ (VeryCalm(id)' => VeryCalm(id))
      OBVIOUS
    <2>1. unread'[id] = unread[id] \/ unread'[id] = 0
      BY <1>2 DEF ReadIndex, ReadOper, ReadCarrier, Reads
    <2> QED BY <1>1, <1>2, <2>1 DEF Calm, VeryCalm
  <1>7. \A n \in Names : (CalmDevice(n)' => CalmDevice(n)) /\ (VeryCalmDevice(n)' => VeryCalmDevice(n))
    BY <1>1, <1>2, <1>6 DEF CalmDevice, VeryCalmDevice, Identities
  <1>8. \A s \in snapshot : CalmInfo(s)' => Tells(s)'
    <2> SUFFICES ASSUME NEW s \in snapshot, CalmInfo(s)' PROVE Tells(s)'
      OBVIOUS
    <2>1. s.name \in Names /\ Identity(s) \in Identities
      BY IdentityType DEF NamesInv
    <2>2. CalmInfo(s)
      BY <1>6, <1>7, <2>1 DEF CalmInfo, Identity
    <2>3. Tells(s)
      BY <2>2 DEF CalmInv
    <2> QED BY <1>1, <2>3 DEF Tells
  <1>9. ASSUME CalmInfo(info)' PROVE info'.index # NoIndex /\ ReadSoFar(info.name)'
    <2>1. CASE ReadIndex
      <3>1. PICK got : /\ Reads(index[info.name], NoIndex, got)
                       /\ info' = [info EXCEPT !.index = got] /\ got \in Indices \cup {NoIndex}
        BY <2>1 DEF ReadIndex
      <3>2. info'.index = got
        BY <1>2, <3>1 DEF Infos
      <3>3. got # NoIndex /\ got = index[info.name]
        <4>1. CASE index[info.name] = NoIndex
          <5>1. got = NoIndex
            BY <3>1, <4>1 DEF Reads
          <5>2. age[info.name] = 0
            BY <1>1, <1>2, <4>1 DEF CalmInv
          <5>3. ~CalmInfo(info)'
            BY <1>1, <1>3, <3>2, <4>1, <5>1, <5>2 DEF CalmInfo, Identity, CalmDevice, Calm
          <5> QED BY <1>9, <5>3
        <4>2. CASE index[info.name] # NoIndex /\ got # index[info.name]
          <5>1. got = NoIndex
            BY <3>1, <4>2 DEF Reads
          <5>2. unread'[info.name] = 0 /\ unread'[index[info.name]] = 0
            BY <1>2, <3>1, <4>2, ReadsCalm
          <5>3. ~CalmInfo(info)'
            BY <1>1, <1>3, <3>2, <4>2, <5>1, <5>2 DEF CalmInfo, Identity, CalmDevice, Calm
          <5> QED BY <1>9, <5>3
        <4> QED BY <4>1, <4>2
      <3> QED BY <1>1, <2>1, <3>2, <3>3 DEF ReadSoFar, OperRead, ReadIndex
    <2>2. CASE ReadOper \/ ReadCarrier
      <3>1. info'.index = info.index
        BY <1>2, <2>2 DEF ReadOper, ReadCarrier, Infos
      <3>2. CalmInfo(info) /\ Identity(info) \in Identities
        BY <1>2, <1>3, <1>6, <1>7, <1>9, <3>1 DEF CalmInfo, Identity, Infos, Identities
      <3>3. info.index # NoIndex /\ ReadSoFar(info.name) /\ info.index = index[info.name]
        <4>1. phase \in Reading /\ phase # "ifindex"
          BY <2>2, <1>1 DEF ReadOper, ReadCarrier
        <4> QED BY <3>2, <4>1 DEF CalmInv, ReadSoFar
      <3>4. unread'[index[info.name]] >= 1
        BY <1>1, <1>2, <1>3, <1>9, <3>1, <3>3 DEF CalmInfo, Identity, CalmDevice, Calm
      <3>5. CASE ReadOper
        <4>1. info'.oper = link[info.name].oper
          BY <1>2, <3>3, <3>4, <3>5, ReadsCalm DEF ReadOper, Infos
        <4> QED BY <1>1, <3>1, <3>3, <3>5, <4>1 DEF ReadSoFar, OperRead, ReadOper
      <3>6. CASE ReadCarrier
        <4>1. info'.carrier = link[info.name].carrier /\ info'.oper = info.oper
          BY <1>2, <3>3, <3>4, <3>6, ReadsCalm DEF ReadCarrier, Infos
        <4> QED BY <1>1, <3>1, <3>3, <3>6, <4>1 DEF ReadSoFar, OperRead, ReadCarrier
      <3> QED BY <2>2, <3>5, <3>6
    <2> QED BY <2>1, <2>2
  <1>10. \A n \in Names : VeryCalmDevice(n)' => KnowsDevice(n)'
    <2>1. \A n \in Names : VeryCalmDevice(n) => KnowsDevice(n)
      BY DEF CalmInv
    <2> QED BY <1>1, <1>7, <2>1 DEF KnowsDevice, Knows, IsGone
  <1>11. phase' # "idle" /\ phase' # "update"
    BY <1>1 DEF Reading
  <1> QED BY <1>1, <1>3, <1>7, <1>8, <1>9, <1>10, <1>11 DEF CalmInv

LEMMA ReadFlagsCalm == TypeOK /\ NamesInv /\ CalmInv /\ ReadFlags => CalmInv'
  <1> SUFFICES ASSUME TypeOK, NamesInv, CalmInv, ReadFlags PROVE CalmInv'
    OBVIOUS
  <1>1. /\ UNCHANGED <<index, link, age, tracked, state, goneSince>>
        /\ phase = "flags" /\ phase \in Reading /\ phase' \in {"update", "ifindex"}
    BY DEF ReadFlags, ReadUnchanged, kernelVars, entryVars, Reading
  <1>2. /\ index \in [Names -> Indices \cup {NoIndex}]
        /\ age \in [Identities -> 0..2] /\ unread \in [Identities -> 0..2]
        /\ info \in Infos /\ info.name \in Names /\ info.name \in Identities
    BY <1>1 DEF TypeOK, NamesInv, Identities
  <1>3. PICK got \in Admins \cup {"Unreadable"}, last \in Infos :
          /\ Reads(link[info.name].admin, "Unreadable", got)
          /\ last = [info EXCEPT !.admin = got]
          /\ snapshot' = snapshot \cup {last}
    <2>1. PICK got \in Admins \cup {"Unreadable"} :
            /\ Reads(link[info.name].admin, "Unreadable", got)
            /\ snapshot' = snapshot \cup {[info EXCEPT !.admin = got]}
      BY DEF ReadFlags
    <2>2. [info EXCEPT !.admin = got] \in Infos
      BY <1>2, <2>1 DEF Infos
    <2> QED BY <2>1, <2>2
  <1>4. /\ last.name = info.name /\ last.index = info.index /\ last.oper = info.oper
        /\ last.carrier = info.carrier /\ last.admin = got
    BY <1>2, <1>3 DEF Infos
  <1>5. \A id \in Identities : (Calm(id)' => Calm(id)) /\ (VeryCalm(id)' => VeryCalm(id))
    <2> SUFFICES ASSUME NEW id \in Identities
                 PROVE  (Calm(id)' => Calm(id)) /\ (VeryCalm(id)' => VeryCalm(id))
      OBVIOUS
    <2>1. unread'[id] = unread[id] \/ unread'[id] = 0
      BY <1>2, <1>3 DEF Reads
    <2> QED BY <1>1, <1>2, <2>1 DEF Calm, VeryCalm
  <1>6. \A n \in Names : (CalmDevice(n)' => CalmDevice(n)) /\ (VeryCalmDevice(n)' => VeryCalmDevice(n))
    BY <1>1, <1>2, <1>5 DEF CalmDevice, VeryCalmDevice, Identities
  <1>7. \A s \in snapshot : CalmInfo(s)' => Tells(s)'
    <2> SUFFICES ASSUME NEW s \in snapshot, CalmInfo(s)' PROVE Tells(s)'
      OBVIOUS
    <2>1. s.name \in Names /\ Identity(s) \in Identities
      BY IdentityType DEF NamesInv
    <2>2. CalmInfo(s)
      BY <1>5, <1>6, <2>1 DEF CalmInfo, Identity
    <2>3. Tells(s)
      BY <2>2 DEF CalmInv
    <2> QED BY <1>1, <2>3 DEF Tells
  <1>8. ASSUME CalmInfo(last)' PROVE Tells(last)'
    <2>1. CalmInfo(info)
      <3>1. Identity(info) \in Identities
        BY <1>2 DEF Identity, Infos, Identities
      <3> QED BY <1>2, <1>4, <1>5, <1>6, <1>8, <3>1 DEF CalmInfo, Identity
    <2>2. info.index # NoIndex /\ ReadSoFar(info.name)
      BY <1>1, <2>1 DEF CalmInv
    <2>3. /\ info.index = index[info.name] /\ info.oper = link[info.name].oper
          /\ info.carrier = link[info.name].carrier
      BY <1>1, <2>2 DEF ReadSoFar, OperRead
    <2>4. unread'[index[info.name]] >= 1
      BY <1>1, <1>4, <1>8, <2>2, <2>3 DEF CalmInfo, Identity, CalmDevice, Calm
    <2>5. got = link[info.name].admin
      BY <1>2, <1>3, <2>2, <2>3, <2>4, ReadsCalm
    <2>6. info.index \in Indices
      BY <1>2, <2>2 DEF Infos
    <2> QED BY <1>1, <1>4, <2>3, <2>5, <2>6 DEF Tells
  <1>9. \A s \in snapshot' : CalmInfo(s)' => Tells(s)'
    BY <1>3, <1>7, <1>8
  <1>10. \A n \in Names : CalmDevice(n)' =>
            \/ n \in toRead'
            \/ phase' \in Reading /\ info'.name = n
            \/ \E s \in snapshot' : s.name = n
    <2> SUFFICES ASSUME NEW n \in Names, CalmDevice(n)', \A s \in snapshot' : s.name # n
                 PROVE  n \in toRead' \/ (phase' \in Reading /\ info'.name = n)
      OBVIOUS
    <2>1. n \in toRead
      BY <1>3, <1>4, <1>6 DEF CalmInv
    <2>2. PICK m \in toRead : phase' = "ifindex" /\ Begin(m) /\ toRead' = toRead \ {m}
      BY <2>1 DEF ReadFlags
    <2> QED BY <2>1, <2>2 DEF Begin, NoInfo, Reading
  <1>11. \A n \in Names :
            /\ n \in toRead' \/ (phase' \in Reading /\ info'.name = n)
            /\ index'[n] = NoIndex
            => age'[n] = 0
    <2> SUFFICES ASSUME NEW n \in Names, n \in toRead' \/ (phase' \in Reading /\ info'.name = n),
                        index[n] = NoIndex
                 PROVE  age[n] = 0
      BY <1>1
    <2>1. n \in toRead
      <3>1. CASE toRead = {}
        BY <3>1 DEF ReadFlags, Reading
      <3>2. CASE toRead # {}
        BY <3>2 DEF ReadFlags, Begin, NoInfo
      <3> QED BY <3>1, <3>2
    <2> QED BY <2>1 DEF CalmInv
  <1>12. \A s \in snapshot' \ pending' : phase' # "update"
    BY <1>3 DEF ReadFlags
  <1>13. \A n \in Names : VeryCalmDevice(n)' => KnowsDevice(n)'
    <2>1. \A n \in Names : VeryCalmDevice(n) => KnowsDevice(n)
      BY DEF CalmInv
    <2> QED BY <1>1, <1>6, <2>1 DEF KnowsDevice, Knows, IsGone
  <1>14. phase' # "idle" /\ ~(phase' \in Reading /\ phase' # "ifindex")
    BY <1>1 DEF Reading
  <1> QED BY <1>9, <1>10, <1>11, <1>12, <1>13, <1>14 DEF CalmInv

\* The entry of a calm identity knows its device once update() took its info.
LEMMA BranchKnows ==
  ASSUME TypeOK, NEW i \in pending, Identity(i) \in Identities, Branch(i), Tells(i), i.name \in Names
  PROVE  Knows(Identity(i), i.name)'
  <1> DEFINE id == Identity(i)
  <1>1. /\ i.index # NoIndex /\ id = index[i.name] /\ link[i.name] \in LinkStates
    BY LinkConstants DEF Tells, Identity, Identities, TypeOK
  <1>2. LinkKnown(i)
    BY <1>1, LinkConstants DEF Tells, LinkKnown, Opers
  <1>3. /\ Parsed(i.oper) = link[i.name].oper /\ Parsed(i.carrier) = Parsed(link[i.name].carrier)
        /\ Parsed(i.admin) = link[i.name].admin
    BY <1>1, LinkConstants DEF Tells, Parsed, Opers
  <1>4. UNCHANGED link
    BY DEF Branch, Discover, Reappear, KeepLastState, Baseline, Unchanged, Change, Takes, kernelVars
  <1>5. id \in tracked' /\ ~(goneSince'[id] > 0)
    <2>1. id \notin tracked => goneSince[id] = 0
      BY DEF TypeOK
    <2>2. goneSince \in [Identities -> 0..now]
      BY DEF TypeOK
    <2>3. id \in tracked'
      BY DEF Branch, Discover, Reappear, KeepLastState, Baseline, Unchanged, Change
    <2>4. \/ UNCHANGED goneSince /\ (id \in tracked => ~IsGone(id))
          \/ goneSince' = [goneSince EXCEPT ![id] = 0]
      BY DEF Branch, Discover, Reappear, KeepLastState, Baseline, Unchanged, Change
    <2> QED BY <2>1, <2>2, <2>3, <2>4 DEF IsGone
  <1>6. CASE Discover(i) \/ Reappear(i) \/ Baseline(i) \/ Change(i)
    <2>1. state'[id] = Stored(i, TRUE)
      BY <1>2, <1>6 DEF Discover, Reappear, Baseline, Change, SetState, TypeOK, Stored, LinkKnown
    <2> QED BY <1>3, <1>4, <1>5, <2>1 DEF Knows, IsGone, Stored
  <1>7. CASE Unchanged(i)
    <2>1. /\ state[id].valid /\ Same(state[id], Stored(i, TRUE))
          /\ state' = [state EXCEPT ![id] = [state[id] EXCEPT !.known = TRUE]]
      BY <1>7 DEF Unchanged, SetState
    <2>2. /\ state'[id].oper = state[id].oper /\ state'[id].carrier = state[id].carrier
          /\ state'[id].admin = state[id].admin /\ state'[id].valid
      BY <2>1 DEF TypeOK, Entries
    <2> QED BY <1>3, <1>4, <1>5, <2>1, <2>2 DEF Knows, IsGone, Stored, Same
  <1> QED BY <1>2, <1>6, <1>7 DEF Branch, KeepLastState

\* A branch leaves other entries alone.
LEMMA BranchKeeps ==
  ASSUME TypeOK, NEW i \in pending, Branch(i), NEW n \in Names,
         NEW x \in Identities, x # Identity(i), Knows(x, n)
  PROVE  Knows(x, n)'
  <1>1. /\ state'[x] = state[x] /\ goneSince'[x] = goneSince[x] /\ tracked \subseteq tracked'
        /\ UNCHANGED link
    BY DEF Branch, Discover, Reappear, KeepLastState, Baseline, Unchanged, Change,
       TypeOK, SetState, Takes, kernelVars
  <1> QED BY <1>1 DEF Knows, IsGone

LEMMA BranchCalm ==
  ASSUME TypeOK, NamesInv, CalmInv, NEW i \in pending, Branch(i)
  PROVE  CalmInv'
  <1>1. /\ UNCHANGED <<index, link, phase, toRead, info, unread, snapshot, age>>
        /\ phase = "update" /\ pending' = pending \ {i}
    BY DEF Branch, Discover, Reappear, KeepLastState, Baseline, Unchanged, Change, Takes,
           kernelVars, readVars
  <1>2. i \in snapshot /\ i.name \in Names /\ Identity(i) \in Identities
    BY IdentityType DEF TypeOK, NamesInv
  <1>3. \A id : (Calm(id)' <=> Calm(id)) /\ (VeryCalm(id)' <=> VeryCalm(id))
    BY <1>1 DEF Calm, VeryCalm
  <1>4. \A n : (CalmDevice(n)' <=> CalmDevice(n)) /\ (VeryCalmDevice(n)' <=> VeryCalmDevice(n))
    BY <1>1, <1>3 DEF CalmDevice, VeryCalmDevice
  <1>5. ASSUME Calm(Identity(i)) PROVE Tells(i) /\ Knows(Identity(i), i.name)'
    <2>1. Tells(i)
      BY <1>2, <1>5 DEF CalmInv, CalmInfo
    <2> QED BY <1>2, <2>1, BranchKnows
  <1>6. ASSUME NEW s \in snapshot \ pending', Calm(Identity(s))
        PROVE  Knows(Identity(s), s.name)'
    <2>1. CASE s = i
      BY <1>5, <1>6, <2>1
    <2>2. CASE s # i
      <3>1. s \in snapshot \ pending /\ s.name \in Names /\ Identity(s) \in Identities
        BY <1>1, <1>6, <2>2, IdentityType DEF NamesInv
      <3>2. Knows(Identity(s), s.name) /\ Tells(s)
        BY <1>1, <1>6, <3>1 DEF CalmInv, CalmInfo
      <3>3. Identity(s) # Identity(i)
        <4> SUFFICES ASSUME Identity(s) = Identity(i) PROVE FALSE
          OBVIOUS
        <4>1. Tells(i)
          BY <1>5, <1>6
        <4>2. index[s.name] = index[i.name] /\ index[s.name] # NoIndex
          BY <3>2, <4>1, LinkConstants DEF Tells, Identity, Identities
        <4>3. s.name = i.name
          BY <1>2, <3>1, <4>2 DEF NamesInv
        <4> QED BY <1>2, <2>2, <3>1, <4>3 DEF NamesInv
      <3> QED BY <3>1, <3>2, <3>3, BranchKeeps
    <2> QED BY <2>1, <2>2
  <1>7. ASSUME NEW n \in Names, VeryCalmDevice(n) PROVE KnowsDevice(n)'
    <2>1. KnowsDevice(n) /\ index[n] \in Identities /\ CalmDevice(n)
      BY <1>7 DEF CalmInv, TypeOK, Identities, VeryCalmDevice, CalmDevice, VeryCalm, Calm
    <2>2. CASE index[n] # Identity(i)
      <3>1. PICK x \in Identities : x = index[n]
        BY <2>1
      <3>2. Knows(x, n)
        BY <2>1, <3>1 DEF KnowsDevice
      <3>3. Knows(x, n)'
        BY <2>2, <3>1, <3>2, BranchKeeps
      <3> QED BY <1>1, <3>1, <3>3 DEF KnowsDevice, Knows, IsGone
    <2>3. CASE index[n] = Identity(i)
      <3>1. Tells(i) /\ Knows(Identity(i), i.name)'
        BY <1>5, <2>1, <2>3 DEF CalmDevice
      <3>2. index[i.name] = index[n] /\ index[n] # NoIndex
        BY <2>1, <2>3, <3>1, LinkConstants DEF Tells, Identity, Identities, CalmDevice
      <3>3. i.name = n
        BY <1>2, <3>2 DEF NamesInv
      <3> QED BY <1>1, <2>3, <3>1, <3>3 DEF KnowsDevice, Knows, IsGone
    <2> QED BY <2>2, <2>3
  <1>8. \A s \in snapshot : CalmInfo(s)' => Tells(s)'
    BY <1>1, <1>3, <1>4 DEF CalmInv, CalmInfo, Identity, Tells
  <1> QED BY <1>1, <1>3, <1>4, <1>6, <1>7, <1>8 DEF CalmInv, Reading, Identity

LEMMA FinishCalm == TypeOK /\ NamesInv /\ CalmInv /\ FinishUpdate => CalmInv'
  <1> SUFFICES ASSUME TypeOK, NamesInv, CalmInv, FinishUpdate PROVE CalmInv'
    OBVIOUS
  <1> DEFINE since == [x \in Identities |-> IF x \in NowGone THEN now' ELSE goneSince[x]]
  <1>1. /\ UNCHANGED <<index, link, toRead, info, unread, snapshot, age>>
        /\ phase = "update" /\ phase' = "idle" /\ pending = {}
    BY DEF FinishUpdate, kernelVars, readVars
  <1>2. PICK out \in Evicted(since) :
          /\ tracked' = tracked \ out
          /\ goneSince' = [x \in Identities |-> IF x \in out THEN 0 ELSE since[x]]
          /\ state' = [x \in Identities |-> IF x \in out THEN Blank ELSE state[x]]
    BY DEF FinishUpdate
  <1>3. \A n : (CalmDevice(n)' <=> CalmDevice(n)) /\ (VeryCalmDevice(n)' => CalmDevice(n))
    BY <1>1 DEF CalmDevice, VeryCalmDevice, Calm, VeryCalm
  <1>4. ASSUME NEW n \in Names, CalmDevice(n) PROVE KnowsDevice(n)'
    <2>1. toRead = {} /\ phase \notin Reading
      BY <1>1 DEF NamesInv, Reading
    <2>2. PICK s \in snapshot : s.name = n
      BY <1>4, <2>1 DEF CalmInv
    <2>3. Tells(s)
      BY <1>4, <2>2 DEF CalmInv, CalmInfo
    <2>4. Identity(s) = index[n] /\ index[n] # NoIndex /\ index[n] \in Identities
      BY <2>2, <2>3, LinkConstants DEF Tells, Identity, Identities
    <2>5. Knows(index[n], n)
      BY <1>1, <1>4, <2>2, <2>4 DEF CalmInv, CalmDevice
    <2>6. index[n] \notin NowGone
      BY <2>2, <2>4 DEF NowGone
    <2>7. since[index[n]] = goneSince[index[n]] /\ ~(goneSince[index[n]] > 0)
      BY <2>4, <2>5, <2>6 DEF Knows, IsGone
    <2>8. index[n] \notin out
      BY <1>2, <2>7 DEF Evicted
    <2>9. /\ index[n] \in tracked' /\ goneSince'[index[n]] = goneSince[index[n]]
          /\ state'[index[n]] = state[index[n]]
      BY <1>2, <2>4, <2>5, <2>7, <2>8 DEF Knows
    <2> QED BY <1>1, <2>5, <2>9 DEF KnowsDevice, Knows, IsGone
  <1>5. \A s \in snapshot : CalmInfo(s)' => Tells(s)'
    BY <1>1, <1>3 DEF CalmInv, CalmInfo, Identity, Tells, Calm
  <1>6. \A n \in Names : CalmDevice(n)' => \E s \in snapshot' : s.name = n
    BY <1>1, <1>3 DEF CalmInv, NamesInv, Reading
  <1>7. toRead' = {} /\ phase' \notin Reading
    BY <1>1 DEF NamesInv, Reading
  <1> QED BY <1>1, <1>3, <1>4, <1>5, <1>6, <1>7 DEF CalmInv

LEMMA StepCalm == TypeOK /\ NamesInv /\ CalmInv /\ [Next]_vars => CalmInv'
  <1> SUFFICES ASSUME TypeOK, NamesInv, CalmInv, [Next]_vars PROVE CalmInv'
    OBVIOUS
  <1>1. CASE Kernel BY <1>1, KernelCalm
  <1>2. CASE Read BY <1>2, ListCalm, ReadFileCalm, ReadFlagsCalm DEF Read
  <1>3. CASE Update BY <1>3, BranchCalm, FinishCalm DEF Update, Branch
  <1>4. CASE UNCHANGED vars
    BY <1>4 DEF vars, kernelVars, readVars, entryVars, CalmInv, CalmDevice, VeryCalmDevice,
       KnowsDevice, CalmInfo, Calm, VeryCalm, Knows, Tells, ReadSoFar, OperRead, IsGone
  <1> QED BY <1>1, <1>2, <1>3, <1>4 DEF Next

LEMMA StepAlarm == TypeOK /\ NamesInv /\ CalmInv /\ NoFalseAlarm /\ [Next]_vars => NoFalseAlarm'
  <1> SUFFICES ASSUME TypeOK, NamesInv, CalmInv, NoFalseAlarm, [Next]_vars PROVE NoFalseAlarm'
    OBVIOUS
  <1>0. notified \subseteq Identities /\ age \in [Identities -> 0..2] /\ unread \in [Identities -> 0..2]
    BY DEF TypeOK
  <1>1. CASE Kernel
    BY <1>0, <1>1, KernelTouches DEF NoFalseAlarm
  <1>2. CASE List
    BY <1>2 DEF List, NoFalseAlarm
  <1>3. CASE ReadIndex \/ ReadOper \/ ReadCarrier \/ ReadFlags
    <2>1. UNCHANGED <<notified, age>>
          /\ \A id \in Identities : unread'[id] = unread[id] \/ unread'[id] = 0
      BY <1>0, <1>3 DEF ReadIndex, ReadOper, ReadCarrier, ReadFlags, ReadUnchanged, Reads, alertVars
    <2> QED BY <1>0, <2>1 DEF NoFalseAlarm
  <1>4. ASSUME NEW i \in pending, Branch(i) PROVE NoFalseAlarm'
    <2> DEFINE id == Identity(i)
    <2>1. i \in snapshot /\ i.name \in Names /\ id \in Identities
      BY IdentityType DEF TypeOK, NamesInv
    <2>2. UNCHANGED <<age, unread>> /\ phase = "update"
      BY <1>4 DEF Branch, Discover, Reappear, KeepLastState, Baseline, Unchanged, Change, Takes, readVars
    <2>3. CASE UNCHANGED notified
      BY <2>2, <2>3 DEF NoFalseAlarm
    <2>4. CASE Reappear(i) \/ Change(i)
      <3>1. notified' \subseteq notified \cup {id}
        BY <2>4 DEF Reappear, Change, RecordAlert, NoAlert
      <3>2. ASSUME age[id] = 2, unread[id] = 2 PROVE FALSE
        <4>1. Tells(i)
          BY <2>1, <3>2 DEF CalmInv, CalmInfo, Calm
        <4>2. /\ i.index # NoIndex /\ id = index[i.name] /\ index[i.name] # NoIndex
              /\ link[i.name] \in LinkStates
          BY <2>1, <4>1, LinkConstants DEF Tells, Identity, Identities, TypeOK
        <4>3. Knows(id, i.name)
          BY <2>1, <3>2, <4>2 DEF CalmInv, VeryCalmDevice, VeryCalm, KnowsDevice
        <4>4. Same(state[id], Stored(i, TRUE))
          BY <4>1, <4>2, <4>3, LinkConstants DEF Tells, Knows, Same, Stored, Parsed, Opers
        <4> QED BY <2>4, <4>3, <4>4 DEF Reappear, Change, Knows
      <3> QED BY <1>0, <2>1, <2>2, <3>1, <3>2 DEF NoFalseAlarm
    <2> QED BY <1>4, <2>3, <2>4
          DEF Branch, Discover, KeepLastState, Baseline, Unchanged, NoAlert, alertVars
  <1>5. CASE FinishUpdate \/ UNCHANGED vars
    BY <1>5 DEF FinishUpdate, readVars, alertVars, vars, NoFalseAlarm
  <1> QED BY <1>1, <1>2, <1>3, <1>4, <1>5 DEF Next, Read, Update, Branch

\* An interface that does not change, and whose files can be read, is never
\* reported, whatever happens to the others while they are read.
THEOREM NoAlarmWithoutChange == Spec => []NoFalseAlarm
  <1>1. Init => TypeOK /\ NamesInv /\ CalmInv /\ NoFalseAlarm
    <2>1. ASSUME Init PROVE CalmInv /\ NoFalseAlarm
      <3>1. \A n \in Names : ~CalmDevice(n) /\ ~VeryCalmDevice(n)
        BY <2>1 DEF Init, CalmDevice, VeryCalmDevice, Calm, VeryCalm, Identities
      <3> QED BY <2>1, <3>1 DEF Init, CalmInv, NoFalseAlarm, Reading
    <2> QED BY <2>1, InitType, InitNames
  <1>2. TypeOK /\ NamesInv /\ CalmInv /\ NoFalseAlarm /\ [Next]_vars
        => (TypeOK /\ NamesInv /\ CalmInv /\ NoFalseAlarm)'
    BY StepType, StepNames, StepCalm, StepAlarm
  <1> QED BY <1>1, <1>2, PTL DEF Spec

-----------------------------------------------------------------------------
(* Entries *)

\* update() has made the infos it looked at present entries.
TakenInv ==
    phase = "update" =>
       \A s \in snapshot \ pending : Identity(s) \in tracked /\ goneSince[Identity(s)] = 0

LEMMA StepTaken == TypeOK /\ NamesInv /\ TakenInv /\ [Next]_vars => TakenInv'
  <1> SUFFICES ASSUME TypeOK, NamesInv, TakenInv, [Next]_vars PROVE TakenInv'
    OBVIOUS
  <1>1. CASE Kernel \/ FinishUpdate
    BY <1>1 DEF Kernel, LinkChanges, Unplugged, Plugged, Renamed, KernelStep, FinishUpdate, TakenInv
  <1>2. CASE List \/ ReadIndex \/ ReadOper \/ ReadCarrier \/ ReadFlags
    BY <1>2 DEF List, ReadIndex, ReadOper, ReadCarrier, ReadFlags, TakenInv
  <1>3. ASSUME NEW i \in pending, Branch(i) PROVE TakenInv'
    <2>1. /\ UNCHANGED <<snapshot, phase>> /\ phase = "update" /\ pending' = pending \ {i}
          /\ tracked \subseteq tracked' /\ Identity(i) \in tracked'
      BY <1>3 DEF Branch, Discover, Reappear, KeepLastState, Baseline, Unchanged, Change, Takes, readVars
    <2>2. i \in snapshot /\ Identity(i) \in Identities
      BY IdentityType DEF TypeOK
    <2>3. goneSince \in [Identities -> 0..now] /\ \A id \in Identities \ tracked : goneSince[id] = 0
      BY DEF TypeOK
    <2>4. \/ UNCHANGED goneSince /\ goneSince[Identity(i)] = 0
          \/ goneSince' = [goneSince EXCEPT ![Identity(i)] = 0]
      <3>1. ~IsGone(Identity(i)) => goneSince[Identity(i)] = 0
        BY <2>2, <2>3 DEF IsGone, TypeOK
      <3>2. CASE Reappear(i)
        BY <3>2 DEF Reappear
      <3>3. CASE Discover(i)
        BY <2>2, <2>3, <3>3 DEF Discover
      <3>4. CASE KeepLastState(i) \/ Baseline(i) \/ Unchanged(i) \/ Change(i)
        BY <3>1, <3>4 DEF KeepLastState, Baseline, Unchanged, Change
      <3> QED BY <1>3, <3>2, <3>3, <3>4 DEF Branch
    <2>5. ASSUME NEW s \in snapshot \ pending'
          PROVE  Identity(s) \in tracked' /\ goneSince'[Identity(s)] = 0
      <3>1. s = i \/ (Identity(s) \in tracked /\ goneSince[Identity(s)] = 0)
        BY <2>1, <2>5 DEF TakenInv
      <3>2. Identity(s) \in Identities
        BY <2>5, IdentityType
      <3> QED BY <2>1, <2>3, <2>4, <3>1, <3>2
    <2> QED BY <2>1, <2>5 DEF TakenInv, Identity
  <1>4. CASE UNCHANGED vars
    BY <1>4 DEF vars, kernelVars, readVars, entryVars, TakenInv, Identity
  <1> QED BY <1>1, <1>2, <1>3, <1>4 DEF Next, Read, Update, Branch

Seen == {Identity(i) : i \in snapshot}
Present == {id \in tracked : ~IsGone(id)}

\* The comparison of the two sizes finds every entry that is gone.
LEMMA FinishFollows ==
  TypeOK /\ NamesInv /\ TakenInv /\ FinishUpdate => EntriesFollowSnapshot'
  <1> SUFFICES ASSUME TypeOK, NamesInv, TakenInv, FinishUpdate,
                      Cardinality(Seen) = Cardinality(snapshot)
               PROVE  /\ Present' = Seen
                      /\ Cardinality(tracked') <= MaxTracked \/ tracked' = Seen
    BY DEF FinishUpdate, readVars, EntriesFollowSnapshot, Seen, Present, Identity, IsGone
  <1> DEFINE since == [id \in Identities |-> IF id \in NowGone THEN now' ELSE goneSince[id]]
  <1>1. PICK out \in Evicted(since) :
          /\ tracked' = tracked \ out
          /\ goneSince' = [id \in Identities |-> IF id \in out THEN 0 ELSE since[id]]
    BY DEF FinishUpdate
  <1>2. IsFiniteSet(tracked) /\ Cardinality(tracked) \in Nat
    <2>1. IsFiniteSet(Identities)
      BY LinkConstants, FS_Union DEF Identities
    <2> QED BY <2>1, FS_Subset, FS_CardinalityType DEF TypeOK
  <1>3. Seen \subseteq Present
    BY DEF FinishUpdate, TakenInv, Seen, Present, IsGone
  <1>4. Present \ Seen = NowGone
    <2>1. CASE Cardinality(tracked) > Cardinality(snapshot)
      BY <2>1 DEF NowGone, Present, Seen
    <2>2. CASE ~(Cardinality(tracked) > Cardinality(snapshot))
      <3>1. Seen \in SUBSET tracked
        BY <1>3 DEF Present
      <3>2. Cardinality(Seen) <= Cardinality(tracked)
        BY <1>2, <3>1, FS_Subset
      <3>3. Cardinality(Seen) \in Nat
        BY <1>2, <3>1, FS_Subset, FS_CardinalityType
      <3>4. Cardinality(tracked) = Cardinality(Seen)
        BY <1>2, <2>2, <3>2, <3>3
      <3>5. tracked = Seen
        BY <1>2, <3>1, <3>4, FS_Subset
      <3> QED BY <2>2, <3>5 DEF NowGone, Present
    <2> QED BY <2>1, <2>2
  <1>5. \A id \in tracked : since[id] > 0 <=> id \notin Seen
    <2> SUFFICES ASSUME NEW id \in tracked PROVE since[id] > 0 <=> id \notin Seen
      OBVIOUS
    <2>1. id \in Identities /\ goneSince[id] \in 0..now /\ now \in Nat
      BY DEF TypeOK
    <2>2. CASE id \in NowGone
      <3>1. now' = now + 1
        BY <2>2 DEF FinishUpdate
      <3> QED BY <1>4, <2>1, <2>2, <3>1
    <2>3. CASE id \notin NowGone
      BY <1>3, <1>4, <2>1, <2>3 DEF Present, IsGone
    <2> QED BY <2>2, <2>3
  <1> DEFINE gone == {id \in tracked : since[id] > 0}
  <1>6. /\ out \subseteq gone
        /\ out = gone \/ Cardinality(tracked) - MaxTracked <= Cardinality(out)
    BY <1>1 DEF Evicted
  <1>7. gone = tracked \ Seen /\ Seen \subseteq tracked
    BY <1>3, <1>5 DEF Present
  <1>8. Present' = Seen
    <2>1. \A id \in tracked' : goneSince'[id] = since[id]
      BY <1>1 DEF TypeOK
    <2> HIDE DEF since
    <2>2. Present' = {id \in tracked' : ~(since[id] > 0)}
      BY <2>1 DEF Present, IsGone
    <2> QED BY <1>1, <1>5, <1>6, <1>7, <2>2
  <1>9. CASE out = gone
    BY <1>1, <1>7, <1>8, <1>9
  <1>10. CASE Cardinality(tracked) - MaxTracked <= Cardinality(out)
    <2>1. out \in SUBSET tracked /\ tracked \cap out = out
      BY <1>6
    <2>2. Cardinality(out) \in Nat
      BY <1>2, <2>1, FS_Subset, FS_CardinalityType
    <2>3. Cardinality(tracked') = Cardinality(tracked) - Cardinality(out)
      <3>1. Cardinality(tracked \ out) = Cardinality(tracked) - Cardinality(tracked \cap out)
        BY <1>2, FS_Difference
      <3> QED BY <1>1, <2>1, <3>1
    <2> QED BY <1>2, <1>8, <1>10, <2>2, <2>3, LinkConstants
  <1> QED BY <1>6, <1>8, <1>9, <1>10

\* After a refresh exactly the interfaces of the snapshot are shown as present,
\* and the entries of others are bounded, however many come and go.
THEOREM EntriesFollow == Spec => []EntriesFollowSnapshot
  <1>1. Init => TypeOK /\ NamesInv /\ TakenInv /\ EntriesFollowSnapshot
    <2>1. ASSUME Init PROVE TakenInv /\ EntriesFollowSnapshot
      BY <2>1 DEF Init, TakenInv, EntriesFollowSnapshot
    <2> QED BY <2>1, InitType, InitNames
  <1>2. TypeOK /\ NamesInv /\ TakenInv /\ EntriesFollowSnapshot /\ [Next]_vars
        => (TypeOK /\ NamesInv /\ TakenInv /\ EntriesFollowSnapshot)'
    <2> SUFFICES ASSUME TypeOK, NamesInv, TakenInv, EntriesFollowSnapshot, [Next]_vars
                 PROVE  EntriesFollowSnapshot'
      BY StepType, StepNames, StepTaken
    <2>1. CASE FinishUpdate
      BY <2>1, FinishFollows
    <2>2. CASE Kernel \/ UNCHANGED vars
      <3>1. UNCHANGED <<phase, snapshot, tracked, goneSince>>
        BY <2>2 DEF Kernel, LinkChanges, Unplugged, Plugged, Renamed, KernelStep,
                    vars, kernelVars, entryVars
      <3> QED BY <3>1 DEF EntriesFollowSnapshot, Identity, IsGone
    <2>3. CASE Read \/ \E i \in pending : Branch(i)
      <3>1. phase' # "idle"
        BY <2>3 DEF Read, List, ReadIndex, ReadOper, ReadCarrier, ReadFlags, Branch, Takes,
                    Discover, Reappear, KeepLastState, Baseline, Unchanged, Change
      <3> QED BY <3>1 DEF EntriesFollowSnapshot
    <2> QED BY <2>1, <2>2, <2>3 DEF Next, Update, Branch
  <1> QED BY <1>1, <1>2, PTL DEF Spec

-----------------------------------------------------------------------------
(* Wireless interfaces.                                                    *)

RadioFields ==
    {"present", "wireless", "mac", "ok", "phy", "values", "field", "association", "samples",
     "events", "tracker", "first", "said", "announced", "missing"}
TrackerFields ==
    {"confirmed", "associated", "pending", "remaining", "since", "before", "silences"}

Observations == {"Associated", "Disconnected", "Unknown", "Gone"}
EventTypes ==
    {"InterfaceAvailable", "InterfaceUnavailable", "Reconnected", "Associated", "Disassociated",
     "StateUnknown"}

\* An event that two updates saw.
SeenEvents ==
    {e \in [type : EventTypes, from : Observations, to : Observations, twice : BOOLEAN,
            silences : Nat] : e.twice = TRUE /\ e.from # e.to}

\* A candidate is what the last update saw.
TrackerInv(tracker) ==
    /\ DOMAIN tracker = TrackerFields
    /\ tracker.confirmed \in Observations \cup {"none"} /\ tracker.silences \in Nat
    /\ tracker.pending # "none" => tracker.pending = tracker.before

\* Events follow from each other, and the state from the last one, unless a state was
\* adopted since.
EventsInv(events, confirmed, silences) ==
    /\ events \in Seq(SeenEvents)
    /\ \A n \in 1 .. Len(events) : events[n].silences <= silences
    /\ \A n \in 2 .. Len(events) :
          events[n].silences = events[n - 1].silences => events[n].from = events[n - 1].to
    /\ Len(events) > 0 /\ events[Len(events)].silences = silences =>
          events[Len(events)].to = confirmed

RadioInv(e) ==
    /\ DOMAIN e = RadioFields
    /\ e.association \in Observations
    /\ TrackerInv(e.tracker)
    /\ EventsInv(e.events, e.tracker.confirmed, e.tracker.silences)
    \* What is not wireless has no events.
    /\ e.wireless \/ e.announced = "none"
    /\ e.wireless \/ ~ e.present \/ e.tracker.confirmed = "none"

\* What one more observation makes of a tracker.
LEMMA TrackerAdvances ==
    ASSUME NEW tracker, TrackerInv(tracker), NEW seen \in Observations
    PROVE  LET next == Advanced(tracker, seen)
           IN /\ TrackerInv(next.tracker)
              /\ \/ /\ next.events = << >>
                    /\ \/ next.tracker.silences > tracker.silences
                       \/ /\ next.tracker.silences = tracker.silences
                          /\ next.tracker.confirmed = tracker.confirmed
                 \/ /\ tracker.confirmed # "none"
                    /\ next.tracker.silences = tracker.silences
                    /\ next.events = <<EventOf(tracker, seen)>>
                    /\ EventOf(tracker, seen) \in SeenEvents
                    /\ EventOf(tracker, seen).from = tracker.confirmed
                    /\ EventOf(tracker, seen).to = next.tracker.confirmed
                    /\ EventOf(tracker, seen).silences = tracker.silences
  <1>0. /\ DOMAIN tracker = TrackerFields
        /\ tracker.confirmed \in Observations \cup {"none"} /\ tracker.silences \in Nat
        /\ tracker.pending # "none" => tracker.pending = tracker.before
        /\ seen # "none"
    BY DEF TrackerInv, Observations
  <1>1. CASE tracker.confirmed = "none" \/ tracker.since > ResetGap
    <2> DEFINE next == Adopt(tracker, seen)
    <2>1. Advanced(tracker, seen) = [tracker |-> next, events |-> << >>]
      BY <1>1 DEF Advanced
    <2>2. /\ DOMAIN next = TrackerFields /\ next.confirmed = seen /\ next.pending = "none"
          /\ next.silences = tracker.silences + 1
      BY <1>0 DEF Adopt, TrackerFields
    <2> HIDE DEF next
    <2>3. TrackerInv(next) /\ next.silences > tracker.silences
      BY <1>0, <2>2 DEF TrackerInv
    <2> QED
      BY <2>1, <2>3
  <1>2. CASE ~ (tracker.confirmed = "none" \/ tracker.since > ResetGap) /\ seen = tracker.confirmed
    <2> DEFINE next == [tracker EXCEPT !.pending = "none", !.since = 0, !.before = seen]
    <2>1. Advanced(tracker, seen) = [tracker |-> next, events |-> << >>]
      BY <1>2 DEF Advanced
    <2>2. /\ DOMAIN next = TrackerFields /\ next.confirmed = tracker.confirmed
          /\ next.pending = "none" /\ next.silences = tracker.silences
      BY <1>0 DEF TrackerFields
    <2> HIDE DEF next
    <2>3. TrackerInv(next)
      BY <1>0, <2>2 DEF TrackerInv
    <2> QED
      BY <2>1, <2>2, <2>3
  <1>3. CASE /\ ~ (tracker.confirmed = "none" \/ tracker.since > ResetGap)
             /\ seen # tracker.confirmed /\ Remaining(tracker, seen) > 0
    <2> DEFINE next == [tracker EXCEPT !.pending = seen, !.remaining = Remaining(tracker, seen),
                                       !.since = 0, !.before = seen]
    <2>1. Advanced(tracker, seen) = [tracker |-> next, events |-> << >>]
      BY <1>3 DEF Advanced
    <2>2. /\ DOMAIN next = TrackerFields /\ next.confirmed = tracker.confirmed
          /\ next.pending = seen /\ next.before = seen /\ next.silences = tracker.silences
      BY <1>0 DEF TrackerFields
    <2> HIDE DEF next
    <2>3. TrackerInv(next)
      BY <1>0, <2>2 DEF TrackerInv
    <2> QED
      BY <2>1, <2>2, <2>3
  <1>4. CASE /\ ~ (tracker.confirmed = "none" \/ tracker.since > ResetGap)
             /\ seen # tracker.confirmed /\ ~ Remaining(tracker, seen) > 0
    <2> DEFINE next == [tracker EXCEPT !.confirmed = seen, !.pending = "none", !.since = 0,
                                       !.associated = @ \/ seen = "Associated",
                                       !.before = seen]
               event == EventOf(tracker, seen)
    <2>1. Advanced(tracker, seen) = [tracker |-> next, events |-> <<event>>]
      BY <1>4 DEF Advanced
    <2>2. /\ DOMAIN next = TrackerFields /\ next.confirmed = seen
          /\ next.pending = "none" /\ next.silences = tracker.silences
      BY <1>0 DEF TrackerFields
    <2>3. tracker.before = seen
      BY <1>0, <1>4, DebounceAssumption, WirelessConstants DEF Remaining
    <2>4. EventType(tracker, seen) \in EventTypes
      BY DEF EventType, EventTypes
    <2>5. (tracker.before = seen) = TRUE
      BY <2>3
    <2>6. event = [type |-> EventType(tracker, seen), from |-> tracker.confirmed, to |-> seen,
                   twice |-> TRUE, silences |-> tracker.silences]
      BY <2>5 DEF EventOf
    <2> HIDE DEF next, event
    <2>7. /\ event \in SeenEvents
          /\ event.from = tracker.confirmed /\ event.to = seen
          /\ event.silences = tracker.silences
      BY <1>0, <1>4, <2>4, <2>6 DEF SeenEvents
    <2>8. TrackerInv(next)
      BY <1>0, <2>2 DEF TrackerInv
    <2> QED
      BY <1>4, <2>1, <2>2, <2>7, <2>8 DEF event
  <1> QED
    BY <1>1, <1>2, <1>3, <1>4

\* The oldest events make room for new ones.
LEMMA NewestEvents ==
    ASSUME NEW events, NEW confirmed, NEW silences \in Nat, NEW size \in Nat \ {0},
           EventsInv(events, confirmed, silences)
    PROVE  EventsInv(Newest(events, size), confirmed, silences)
  <1> DEFINE cut == IF Len(events) > size THEN Len(events) - size ELSE 0
             kept == Newest(events, size)
  <1>1. events \in Seq(SeenEvents) /\ Len(events) \in Nat
    BY LenProperties DEF EventsInv
  <1>2. cut \in Nat /\ cut <= Len(events)
    BY <1>1
  <1>3. kept = SubSeq(events, cut + 1, Len(events))
    BY <1>1 DEF Newest
  <1> HIDE DEF kept, cut
  <1>4. \A i \in cut + 1 .. Len(events) : events[i] \in SeenEvents
    BY <1>1, <1>2, ElementOfSeq
  <1>5. /\ kept \in Seq(SeenEvents) /\ Len(kept) = Len(events) - cut
        /\ \A i \in 1 .. Len(events) - cut : kept[i] = events[cut + i]
    <2>1. cut + 1 \in Int /\ Len(events) \in Int
      BY <1>1, <1>2
    <2>2. /\ SubSeq(events, cut + 1, Len(events)) \in Seq(SeenEvents)
          /\ Len(SubSeq(events, cut + 1, Len(events))) =
                IF cut + 1 <= Len(events) THEN Len(events) - (cut + 1) + 1 ELSE 0
          /\ \A i \in 1 .. Len(events) - (cut + 1) + 1 :
                SubSeq(events, cut + 1, Len(events))[i] = events[cut + 1 + i - 1]
      BY <1>4, <2>1, SubSeqProperties
    <2> QED
      BY <1>1, <1>2, <1>3, <2>2
  <1>6. kept \in Seq(SeenEvents) /\ \A n \in 1 .. Len(kept) : kept[n].silences <= silences
    BY <1>1, <1>2, <1>5 DEF EventsInv
  <1>7. \A n \in 2 .. Len(kept) :
          kept[n].silences = kept[n - 1].silences => kept[n].from = kept[n - 1].to
    <2> SUFFICES ASSUME NEW n \in 2 .. Len(kept), kept[n].silences = kept[n - 1].silences
                 PROVE  kept[n].from = kept[n - 1].to
      OBVIOUS
    <2> DEFINE k == cut + n
    <2>1. /\ n \in 1 .. Len(events) - cut /\ n - 1 \in 1 .. Len(events) - cut
          /\ k \in 2 .. Len(events) /\ cut + (n - 1) = k - 1
      BY <1>1, <1>2, <1>5
    <2>2. kept[n] = events[k] /\ kept[n - 1] = events[cut + (n - 1)]
      BY <1>5, <2>1
    <2> HIDE DEF k
    <2>3. kept[n - 1] = events[k - 1]
      BY <2>1, <2>2
    <2>4. events[k].silences = events[k - 1].silences => events[k].from = events[k - 1].to
      BY <2>1 DEF EventsInv
    <2> QED
      BY <2>2, <2>3, <2>4
  <1>8. Len(kept) > 0 /\ kept[Len(kept)].silences = silences => kept[Len(kept)].to = confirmed
    BY <1>1, <1>2, <1>5 DEF EventsInv
  <1>9. EventsInv(kept, confirmed, silences)
    BY <1>6, <1>7, <1>8 DEF EventsInv
  <1> QED
    BY <1>9 DEF kept

\* A state adopted in silence begins another chain, and a confirmed one goes on with it.
LEMMA EventsAdvance ==
    ASSUME NEW events, NEW tracker, TrackerInv(tracker), NEW seen \in Observations,
           EventsInv(events, tracker.confirmed, tracker.silences)
    PROVE  LET next == Advanced(tracker, seen)
           IN EventsInv(Newest(events \o next.events, MaxLogged), next.tracker.confirmed,
                        next.tracker.silences)
  <1> DEFINE next == Advanced(tracker, seen)
             event == EventOf(tracker, seen)
  <1>1. /\ TrackerInv(next.tracker)
        /\ \/ /\ next.events = << >>
              /\ \/ next.tracker.silences > tracker.silences
                 \/ /\ next.tracker.silences = tracker.silences
                    /\ next.tracker.confirmed = tracker.confirmed
           \/ /\ next.tracker.silences = tracker.silences
              /\ next.events = <<event>>
              /\ event \in SeenEvents
              /\ event.from = tracker.confirmed /\ event.to = next.tracker.confirmed
              /\ event.silences = tracker.silences
    BY TrackerAdvances
  <1> HIDE DEF next, event
  <1>2. tracker.silences \in Nat /\ next.tracker.silences \in Nat
    BY <1>1 DEF TrackerInv
  <1>3. events \in Seq(SeenEvents) /\ Len(events) \in Nat
    BY LenProperties DEF EventsInv
  <1>4. \A n \in 1 .. Len(events) : events[n].silences \in Nat
    BY <1>3, ElementOfSeq DEF SeenEvents
  <1>5. EventsInv(events \o next.events, next.tracker.confirmed, next.tracker.silences)
    <2>1. CASE next.events = << >>
      <3>1. events \o next.events = events
        BY <1>3, <2>1, ConcatEmptySeq
      <3>2. CASE next.tracker.silences > tracker.silences
        BY <1>2, <1>3, <1>4, <3>1, <3>2 DEF EventsInv
      <3>3. CASE /\ next.tracker.silences = tracker.silences
                 /\ next.tracker.confirmed = tracker.confirmed
        BY <3>1, <3>3
      <3>4. << >> # <<event>>
        OBVIOUS
      <3> QED
        BY <1>1, <2>1, <3>2, <3>3, <3>4
    <2>2. CASE /\ next.tracker.silences = tracker.silences
               /\ next.events = <<event>>
               /\ event \in SeenEvents
               /\ event.from = tracker.confirmed /\ event.to = next.tracker.confirmed
               /\ event.silences = tracker.silences
      <3> DEFINE more == Append(events, event)
      <3>1. events \o next.events = more
        BY <1>3, <2>2, AppendIsConcat
      <3>2. /\ more \in Seq(SeenEvents) /\ Len(more) = Len(events) + 1
            /\ \A i \in 1 .. Len(events) : more[i] = events[i]
            /\ more[Len(events) + 1] = event
        BY <1>3, <2>2, AppendProperties
      <3> HIDE DEF more
      <3>3. \A n \in 1 .. Len(more) : more[n].silences <= next.tracker.silences
        BY <1>2, <1>3, <2>2, <3>2 DEF EventsInv
      <3>4. ASSUME NEW n \in 2 .. Len(more), more[n].silences = more[n - 1].silences
            PROVE  more[n].from = more[n - 1].to
        <4>1. CASE n = Len(events) + 1
          <5>1. more[n] = event /\ more[n - 1] = events[Len(events)] /\ Len(events) > 0
            BY <1>3, <3>2, <3>4, <4>1
          <5> QED
            BY <2>2, <3>4, <5>1 DEF EventsInv
        <4>2. CASE n # Len(events) + 1
          <5>1. more[n] = events[n] /\ more[n - 1] = events[n - 1] /\ n \in 2 .. Len(events)
            BY <1>3, <3>2, <3>4, <4>2
          <5> QED
            BY <3>4, <5>1 DEF EventsInv
        <4> QED
          BY <4>1, <4>2
      <3>5. more[Len(more)].to = next.tracker.confirmed
        BY <1>3, <2>2, <3>2
      <3>6. EventsInv(more, next.tracker.confirmed, next.tracker.silences)
        BY <3>2, <3>3, <3>4, <3>5 DEF EventsInv
      <3> QED
        BY <3>1, <3>6
    <2> QED
      BY <1>1, <2>1, <2>2
  <1>6. MaxLogged \in Nat \ {0}
    BY WirelessConstants
  <1>7. EventsInv(Newest(events \o next.events, MaxLogged), next.tracker.confirmed,
                  next.tracker.silences)
    BY <1>2, <1>5, <1>6, NewestEvents
  <1> QED
    BY <1>7 DEF next

\* A reading says whether it is wireless, and leaves what is known of its connection.
LEMMA JudgedKeeps ==
    ASSUME NEW e, DOMAIN e = RadioFields, e.association \in Observations,
           NEW reading, NEW probe
    PROVE  LET next == Judged(e, reading, probe)
           IN /\ DOMAIN next = RadioFields /\ next.association \in Observations
              /\ next.events = e.events /\ next.tracker = e.tracker
              /\ next.announced = e.announced /\ next.said = e.said
  <1> DEFINE next == Judged(e, reading, probe)
  <1>1. CASE ~ IsWireless(reading, probe)
    <2>1. next = NotWireless(e, probe)
      BY <1>1 DEF Judged
    <2> QED
      BY <2>1 DEF NotWireless, RadioFields, Observations
  <1>2. CASE IsWireless(reading, probe)
    <2> DEFINE values == FilledFrom(ValuesOf(reading), e.values)
               field == IF ValuesOf(reading) # NoValues THEN "Available"
                        ELSE IF values # NoValues THEN "Stale" ELSE "Unavailable"
               phy == PhyState(e, probe)
               association == AssociationOf(reading.carrier)
    <2>1. next = [e EXCEPT !.wireless = TRUE, !.mac = probe.mac, !.ok = probe.ok,
                           !.phy = phy, !.values = values, !.field = field,
                           !.association = association]
      BY <1>2 DEF Judged
    <2>2. association \in Observations
      BY DEF AssociationOf, Observations
    <2> HIDE DEF values, field, phy, association, next
    <2>3. /\ DOMAIN next = RadioFields /\ next.association \in Observations
          /\ next.events = e.events /\ next.tracker = e.tracker
          /\ next.announced = e.announced /\ next.said = e.said
      BY <2>1, <2>2 DEF RadioFields
    <2> QED
      BY <2>3 DEF next
  <1> QED
    BY <1>1, <1>2

\* An observation moves the tracker and adds the events it confirms; what it says is what
\* is announced.
LEMMA ObservedKeeps ==
    ASSUME NEW e, DOMAIN e = RadioFields, TrackerInv(e.tracker),
           EventsInv(e.events, e.tracker.confirmed, e.tracker.silences),
           NEW seen \in Observations
    PROVE  LET next == Observed(e, seen)
           IN /\ DOMAIN next = RadioFields
              /\ next.association = e.association /\ next.wireless = e.wireless
              /\ TrackerInv(next.tracker)
              /\ EventsInv(next.events, next.tracker.confirmed, next.tracker.silences)
              /\ \/ next.said = "none" /\ next.announced = e.announced
                 \/ /\ next.said # "none" /\ next.announced = next.said
                    /\ e.tracker.confirmed # "none"
  <1> DEFINE step == Advanced(e.tracker, seen)
             next == Observed(e, seen)
             event == EventOf(e.tracker, seen)
  <1>1. /\ TrackerInv(step.tracker)
        /\ \/ step.events = << >>
           \/ /\ step.events = <<event>> /\ event \in SeenEvents
              /\ e.tracker.confirmed # "none"
    BY TrackerAdvances
  <1>2. EventsInv(Newest(e.events \o step.events, MaxLogged), step.tracker.confirmed,
                  step.tracker.silences)
    BY EventsAdvance
  <1> DEFINE said == IF step.events = << >> THEN "none" ELSE Head(step.events).type
             announced == IF step.events = << >> THEN e.announced ELSE Head(step.events).type
             events == Newest(e.events \o step.events, MaxLogged)
             tracker == step.tracker
  <1>3. next = [e EXCEPT !.tracker = tracker, !.events = events, !.said = said,
                         !.announced = announced]
    BY DEF Observed
  <1>4. \/ said = "none" /\ announced = e.announced
        \/ said # "none" /\ announced = said /\ e.tracker.confirmed # "none"
    <2> HIDE DEF step, event
    <2>1. CASE step.events = << >>
      BY <2>1
    <2>2. CASE /\ step.events = <<event>> /\ event \in SeenEvents
               /\ e.tracker.confirmed # "none"
      <3>1. Head(step.events) = event /\ step.events # << >>
        BY <2>2
      <3>2. event.type # "none"
        BY <2>2 DEF SeenEvents, EventTypes
      <3> QED
        BY <2>2, <3>1, <3>2
    <2> QED
      BY <1>1, <2>1, <2>2
  <1>5. TrackerInv(tracker) /\ EventsInv(events, tracker.confirmed, tracker.silences)
    BY <1>1, <1>2
  <1> HIDE DEF said, announced, events, tracker, next
  <1>6. /\ DOMAIN next = RadioFields
        /\ next.association = e.association /\ next.wireless = e.wireless
        /\ next.tracker = tracker /\ next.events = events
        /\ next.said = said /\ next.announced = announced
    BY <1>3 DEF RadioFields
  <1> QED
    BY <1>4, <1>5, <1>6 DEF next

\* What is said in an update is announced, and if nothing is said what was announced before
\* still is.
Says(e, before) ==
    e.wireless =>
        \/ e.said = "none" /\ e.announced = before
        \/ e.said # "none" /\ e.announced = e.said

NoEvents == EventsInv(<< >>, "none", 0)

LEMMA NothingTracked == NoEvents /\ TrackerInv(NoTracker)
  <1>1. << >> \in Seq(SeenEvents) /\ Len(<< >>) = 0
    BY EmptySeq
  <1>2. NoEvents
    BY <1>1 DEF NoEvents, EventsInv
  <1>3. /\ DOMAIN NoTracker = TrackerFields /\ NoTracker.confirmed = "none"
        /\ NoTracker.silences = 0 /\ NoTracker.pending = "none"
    BY DEF NoTracker, TrackerFields
  <1> QED
    BY <1>2, <1>3 DEF TrackerInv

LEMMA NoRadioFacts ==
    /\ RadioInv(NoRadio)
    /\ NoRadio.said = "none" /\ NoRadio.announced = "none"
  <1>1. /\ DOMAIN NoRadio = RadioFields /\ NoRadio.association = "Unknown"
        /\ NoRadio.tracker = NoTracker /\ NoRadio.events = << >>
        /\ NoRadio.said = "none" /\ NoRadio.announced = "none"
    BY DEF NoRadio, RadioFields
  <1>2. NoTracker.confirmed = "none" /\ NoTracker.silences = 0
    BY DEF NoTracker
  <1> QED
    BY <1>1, <1>2, NothingTracked DEF RadioInv, NoEvents, Observations

\* An interface of the snapshot.
LEMMA FedKeeps ==
    ASSUME NEW e, RadioInv(e), e.said = "none", NEW known, NEW reading, NEW due
    PROVE  LET next == Fed(known, e, reading, due)
           IN RadioInv(next) /\ Says(next, e.announced)
  <1> DEFINE probe == ProbeNow(known, e, reading, due)
             judged == Judged(e, reading, probe)
             next == Fed(known, e, reading, due)
  <1>1. /\ DOMAIN judged = RadioFields /\ judged.association \in Observations
        /\ judged.events = e.events /\ judged.tracker = e.tracker
        /\ judged.announced = e.announced /\ judged.said = e.said
    BY JudgedKeeps DEF RadioInv
  <1>2. /\ TrackerInv(e.tracker)
        /\ EventsInv(e.events, e.tracker.confirmed, e.tracker.silences)
    BY DEF RadioInv
  <1>3. CASE judged.wireless
    <2> DEFINE samples == Newest(Append(judged.samples, SampleOf(judged)), retained)
               fed == [judged EXCEPT !.samples = samples, !.present = TRUE, !.missing = 0]
               seen == ObservationOf(judged, TRUE)
    <2>1. next = Observed(fed, seen)
      BY <1>3 DEF Fed
    <2>2. /\ DOMAIN fed = RadioFields /\ fed.association \in Observations
          /\ fed.events = e.events /\ fed.tracker = e.tracker
          /\ fed.announced = e.announced /\ fed.wireless = judged.wireless
      <3> HIDE DEF judged, samples
      <3> QED
        BY <1>1 DEF RadioFields
    <2>3. seen \in Observations
      BY <1>1 DEF ObservationOf
    <2> HIDE DEF fed, seen, judged, next
    <2>4. /\ DOMAIN next = RadioFields
          /\ next.association = fed.association /\ next.wireless = fed.wireless
          /\ TrackerInv(next.tracker)
          /\ EventsInv(next.events, next.tracker.confirmed, next.tracker.silences)
          /\ \/ next.said = "none" /\ next.announced = fed.announced
             \/ /\ next.said # "none" /\ next.announced = next.said
                /\ fed.tracker.confirmed # "none"
      BY <1>2, <2>1, <2>2, <2>3, ObservedKeeps
    <2>5. next.wireless
      BY Zenon, <1>3, <2>2, <2>4
    <2>6. RadioInv(next)
      BY <2>2, <2>4, <2>5 DEF RadioInv
    <2>7. Says(next, e.announced)
      BY <2>2, <2>4 DEF Says
    <2> QED
      BY <2>6, <2>7 DEF next
  <1>4. CASE ~ judged.wireless
    <2>1. next = [judged EXCEPT !.samples = << >>, !.events = << >>, !.tracker = NoTracker,
                                !.present = TRUE, !.missing = 0, !.announced = "none"]
      BY <1>4 DEF Fed
    <2> HIDE DEF judged, next
    <2>2. /\ DOMAIN next = RadioFields /\ next.association = judged.association
          /\ next.events = << >> /\ next.tracker = NoTracker
          /\ next.announced = "none" /\ next.wireless = judged.wireless
      BY <1>1, <2>1 DEF RadioFields
    <2>3. ~ next.wireless
      BY Zenon, <1>4, <2>2
    <2>4. NoTracker.confirmed = "none" /\ NoTracker.silences = 0
      BY DEF NoTracker
    <2>5. RadioInv(next)
      BY <1>1, <2>2, <2>4, NothingTracked DEF RadioInv, NoEvents
    <2> QED
      BY <2>3, <2>5 DEF next, Says
  <1> QED
    BY <1>3, <1>4

\* One that is not in the snapshot.
LEMMA MissedKeeps ==
    ASSUME NEW e, RadioInv(e), e.said = "none"
    PROVE  RadioInv(Missed(e)) /\ Says(Missed(e), e.announced)
  <1> DEFINE next == Missed(e)
  <1>1. CASE e.present
    <2> DEFINE seen == Observed(e, ObservationOf(e, FALSE))
               missing == IF e.tracker.since > ResetGap THEN 0 ELSE 1
    <2>1. next = [seen EXCEPT !.present = FALSE, !.missing = missing]
      BY <1>1 DEF Missed
    <2>2. ObservationOf(e, FALSE) \in Observations
      BY DEF ObservationOf, Observations
    <2>3. /\ DOMAIN seen = RadioFields
          /\ seen.association = e.association /\ seen.wireless = e.wireless
          /\ TrackerInv(seen.tracker)
          /\ EventsInv(seen.events, seen.tracker.confirmed, seen.tracker.silences)
          /\ \/ seen.said = "none" /\ seen.announced = e.announced
             \/ /\ seen.said # "none" /\ seen.announced = seen.said
                /\ e.tracker.confirmed # "none"
      BY <2>2, ObservedKeeps DEF RadioInv
    <2> HIDE DEF seen, missing, next
    <2>4. /\ DOMAIN next = RadioFields
          /\ next.association = seen.association /\ next.wireless = seen.wireless
          /\ next.tracker = seen.tracker /\ next.events = seen.events
          /\ next.said = seen.said /\ next.announced = seen.announced
      BY <2>1, <2>3 DEF RadioFields
    <2>5. ~ next.present
      BY <2>1, <2>3 DEF RadioFields
    <2>6. next.wireless \/ next.announced = "none"
      <3>1. e.wireless \/ (e.announced = "none" /\ e.tracker.confirmed = "none")
        BY Zenon, <1>1 DEF RadioInv
      <3> QED
        BY Zenon, <2>3, <2>4, <3>1
    <2>7. e.association \in Observations
      BY DEF RadioInv
    <2>8. RadioInv(next)
      BY Zenon, <2>3, <2>4, <2>5, <2>6, <2>7 DEF RadioInv
    <2>9. Says(next, e.announced)
      BY <2>3, <2>4 DEF Says
    <2> QED
      BY <2>8, <2>9 DEF next
  <1>2. CASE ~ e.present
    <2> DEFINE missing == IF e.missing \in {0, Debounce} \/ e.tracker.since > ResetGap
                          THEN e.missing ELSE e.missing + 1
    <2>1. next = [e EXCEPT !.missing = missing]
      BY <1>2 DEF Missed
    <2> HIDE DEF missing, next
    <2>2. /\ DOMAIN next = RadioFields
          /\ next.association = e.association /\ next.wireless = e.wireless
          /\ next.tracker = e.tracker /\ next.events = e.events
          /\ next.said = e.said /\ next.announced = e.announced /\ next.present = e.present
      BY <2>1 DEF RadioInv, RadioFields
    <2>3. RadioInv(next)
      BY Zenon, <2>2 DEF RadioInv
    <2>4. Says(next, e.announced)
      BY <2>2 DEF Says
    <2> QED
      BY <2>3, <2>4 DEF next
  <1> QED
    BY <1>1, <1>2

\* Time passes.
LEMMA AgedKeeps ==
    ASSUME NEW entries, NEW step, NEW d \in DOMAIN entries, RadioInv(entries[d])
    PROVE  LET next == Aged(entries, step)[d]
           IN RadioInv(next) /\ next.said = "none" /\ next.announced = entries[d].announced
  <1> DEFINE e == entries[d]
             next == Aged(entries, step)[d]
             samples == AgedSamples(e.samples, step)
             since == IF e.tracker.since > ResetGap \/ e.tracker.confirmed = "none"
                      THEN e.tracker.since ELSE e.tracker.since + step.wall
             tracker == [e.tracker EXCEPT !.since = since]
  <1>1. next = [e EXCEPT !.samples = samples, !.tracker = tracker, !.said = "none"]
    BY DEF Aged
  <1>2. /\ TrackerInv(tracker)
        /\ tracker.confirmed = e.tracker.confirmed /\ tracker.silences = e.tracker.silences
    <2> HIDE DEF since
    <2>1. TrackerInv(e.tracker)
      BY DEF RadioInv
    <2> HIDE DEF e
    <2>2. /\ DOMAIN tracker = TrackerFields /\ tracker.pending = e.tracker.pending
          /\ tracker.confirmed = e.tracker.confirmed /\ tracker.silences = e.tracker.silences
          /\ tracker.before = e.tracker.before
      BY <2>1 DEF TrackerInv, TrackerFields
    <2> HIDE DEF tracker
    <2> QED
      BY <2>1, <2>2 DEF TrackerInv
  <1>3. RadioInv(e)
    OBVIOUS
  <1> HIDE DEF samples, tracker, e, next
  <1>4. /\ DOMAIN next = RadioFields
        /\ next.association = e.association /\ next.wireless = e.wireless
        /\ next.tracker = tracker /\ next.events = e.events
        /\ next.said = "none" /\ next.announced = e.announced /\ next.present = e.present
    BY <1>1, <1>3 DEF RadioInv, RadioFields
  <1>5. RadioInv(next)
    BY Zenon, <1>2, <1>3, <1>4 DEF RadioInv
  <1> QED
    BY <1>4, <1>5 DEF next, e

\* The warnings are of those that were announced to be lost last.
LostRadios(e) == e.announced \notin Recoveries \cup {"none"}
WirelessInv ==
    /\ \A d \in DOMAIN radio : RadioInv(radio[d])
    /\ warned = {d \in DOMAIN radio : LostRadios(radio[d])}

LEMMA UpdateKeepsWireless ==
    ASSUME WirelessInv, WirelessUpdate
    PROVE  WirelessInv'
  <1>1. PICK step \in Steps, found \in Snapshots, reading \in Readings, due \in BOOLEAN :
          LET old == Aged(radio, step)
              entries == [d \in DOMAIN old \cup found |->
                            IF d \notin found THEN Missed(old[d])
                            ELSE IF d \in DOMAIN old THEN Fed(TRUE, old[d], reading, due)
                            ELSE Fed(FALSE, NoRadio, reading, due)]
          IN \E out \in Evictions(entries) :
                /\ radio' = [d \in DOMAIN entries \ out |-> entries[d]]
                /\ warned' = Warned(radio')
    BY Zenon DEF WirelessUpdate
  <1> DEFINE old == Aged(radio, step)
             entries == [d \in DOMAIN old \cup found |->
                            IF d \notin found THEN Missed(old[d])
                            ELSE IF d \in DOMAIN old THEN Fed(TRUE, old[d], reading, due)
                            ELSE Fed(FALSE, NoRadio, reading, due)]
             before(d) == IF d \in DOMAIN radio THEN radio[d].announced ELSE "none"
  <1>2. PICK out : /\ radio' = [d \in DOMAIN entries \ out |-> entries[d]]
                   /\ warned' = Warned(radio')
    BY Zenon, <1>1
  <1>3. /\ DOMAIN old = DOMAIN radio
        /\ \A d \in DOMAIN radio : /\ RadioInv(old[d]) /\ old[d].said = "none"
                                   /\ old[d].announced = radio[d].announced
    <2>1. DOMAIN old = DOMAIN radio
      BY DEF Aged
    <2>2. ASSUME NEW d \in DOMAIN radio
          PROVE  /\ RadioInv(old[d]) /\ old[d].said = "none"
                 /\ old[d].announced = radio[d].announced
      BY AgedKeeps DEF WirelessInv
    <2> QED
      BY <2>1, <2>2
  <1> HIDE DEF old
  <1>4. ASSUME NEW d \in DOMAIN entries
        PROVE  RadioInv(entries[d]) /\ Says(entries[d], before(d))
    <2>1. CASE d \notin found
      <3>1. d \in DOMAIN radio /\ entries[d] = Missed(old[d])
        BY <1>3, <2>1
      <3> QED
        BY <1>3, <3>1, MissedKeeps
    <2>2. CASE d \in found /\ d \in DOMAIN old
      <3>1. d \in DOMAIN radio /\ entries[d] = Fed(TRUE, old[d], reading, due)
        BY <1>3, <2>2
      <3> QED
        <4>1. before(d) = old[d].announced /\ RadioInv(old[d]) /\ old[d].said = "none"
          BY <1>3, <3>1
        <4> HIDE DEF before, entries
        <4>2. /\ RadioInv(Fed(TRUE, old[d], reading, due))
              /\ Says(Fed(TRUE, old[d], reading, due), old[d].announced)
          BY Zenon, <4>1, FedKeeps
        <4> QED
          BY Zenon, <3>1, <4>1, <4>2
    <2>3. CASE d \in found /\ d \notin DOMAIN old
      <3>1. d \notin DOMAIN radio /\ entries[d] = Fed(FALSE, NoRadio, reading, due)
        BY <1>3, <2>3
      <3> QED
        BY <3>1, FedKeeps, NoRadioFacts
    <2> QED
      BY <2>1, <2>2, <2>3
  <1> HIDE DEF entries
  <1>5. /\ DOMAIN radio' \subseteq DOMAIN entries
        /\ \A d \in DOMAIN radio' : radio'[d] = entries[d]
    BY <1>2
  <1>6. \A d \in DOMAIN radio' : RadioInv(radio'[d]) /\ Says(radio'[d], before(d))
    BY <1>4, <1>5
  <1>7. ASSUME NEW d \in DOMAIN radio'
        PROVE  (/\ radio'[d].wireless
                /\ IF radio'[d].said = "none" THEN d \in warned
                   ELSE radio'[d].said \notin Recoveries)
               <=> LostRadios(radio'[d])
    <2>1. d \in warned <=> before(d) \notin Recoveries \cup {"none"}
      BY DEF WirelessInv, LostRadios
    <2>2. radio'[d].wireless \/ radio'[d].announced = "none"
      BY Zenon, <1>6 DEF RadioInv
    <2>3. Says(radio'[d], before(d))
      BY <1>6
    <2> HIDE DEF before
    <2> QED
      BY Zenon, <2>1, <2>2, <2>3 DEF Says, LostRadios
  <1>8. warned' = {d \in DOMAIN radio' : LostRadios(radio'[d])}
    BY Zenon, <1>2, <1>7 DEF Warned
  <1> QED
    BY <1>6, <1>8 DEF WirelessInv

LEMMA UnreadableKeepsWireless ==
    ASSUME WirelessInv, WirelessUnreadable
    PROVE  WirelessInv'
  <1>1. PICK step \in Steps :
          radio' = [d \in DOMAIN Aged(radio, step) |->
                      [Aged(radio, step)[d] EXCEPT
                          !.field = IF @ = "Available" THEN "Stale" ELSE @,
                          !.phy = IF @ = "Available" THEN "Stale" ELSE @]]
    BY Zenon DEF WirelessUnreadable
  <1>2. UNCHANGED warned
    BY DEF WirelessUnreadable
  <1>3. DOMAIN radio' = DOMAIN radio
    BY <1>1 DEF Aged
  <1>4. ASSUME NEW d \in DOMAIN radio
        PROVE  RadioInv(radio'[d]) /\ radio'[d].announced = radio[d].announced
    <2> DEFINE e == Aged(radio, step)[d]
               next == radio'[d]
    <2>1. RadioInv(e) /\ e.announced = radio[d].announced
      BY AgedKeeps DEF WirelessInv
    <2>2. next = [e EXCEPT !.field = IF @ = "Available" THEN "Stale" ELSE @,
                           !.phy = IF @ = "Available" THEN "Stale" ELSE @]
      BY <1>1, <1>3
    <2> HIDE DEF e, next
    <2>3. /\ DOMAIN next = RadioFields
          /\ next.association = e.association /\ next.wireless = e.wireless
          /\ next.tracker = e.tracker /\ next.events = e.events
          /\ next.announced = e.announced /\ next.present = e.present
      BY <2>1, <2>2 DEF RadioInv, RadioFields
    <2>4. RadioInv(next)
      BY Zenon, <2>1, <2>3 DEF RadioInv
    <2> QED
      BY <2>1, <2>3, <2>4 DEF next
  <1> QED
    BY <1>2, <1>3, <1>4 DEF WirelessInv, LostRadios

LEMMA ResizeKeepsWireless ==
    ASSUME WirelessInv, NEW size, SetWirelessHistory(size)
    PROVE  WirelessInv'
  <1>1. /\ radio' = [d \in DOMAIN radio |->
                       [radio[d] EXCEPT !.samples = << >>, !.events = << >>]]
        /\ UNCHANGED warned
    BY DEF SetWirelessHistory
  <1>2. ASSUME NEW d \in DOMAIN radio
        PROVE  RadioInv(radio'[d]) /\ radio'[d].announced = radio[d].announced
    <2> DEFINE e == radio[d]
               next == radio'[d]
    <2>1. RadioInv(e)
      BY DEF WirelessInv
    <2>2. next = [e EXCEPT !.samples = << >>, !.events = << >>]
      BY <1>1
    <2> HIDE DEF e, next
    <2>3. /\ DOMAIN next = RadioFields
          /\ next.association = e.association /\ next.wireless = e.wireless
          /\ next.tracker = e.tracker /\ next.events = << >>
          /\ next.announced = e.announced /\ next.present = e.present
      BY <2>1, <2>2 DEF RadioInv, RadioFields
    <2>4. EventsInv(next.events, next.tracker.confirmed, next.tracker.silences)
      <3>1. << >> \in Seq(SeenEvents) /\ Len(<< >>) = 0
        BY EmptySeq
      <3> QED
        BY <2>3, <3>1 DEF EventsInv
    <2>5. RadioInv(next)
      BY Zenon, <2>1, <2>3, <2>4 DEF RadioInv
    <2> QED
      BY <2>3, <2>5 DEF next, e
  <1> QED
    BY <1>1, <1>2 DEF WirelessInv, LostRadios

LEMMA WirelessInvHolds == WirelessSpec => []WirelessInv
  <1>1. WirelessInit => WirelessInv
    BY DEF WirelessInit, WirelessInv, NoRadios
  <1>2. WirelessInv /\ [WirelessNext]_wirelessVars => WirelessInv'
    <2> SUFFICES ASSUME WirelessInv, [WirelessNext]_wirelessVars PROVE WirelessInv'
      OBVIOUS
    <2>1. CASE WirelessUpdate
      BY <2>1, UpdateKeepsWireless
    <2>2. CASE WirelessUnreadable
      BY <2>2, UnreadableKeepsWireless
    <2>3. CASE \E size \in WirelessRooms : SetWirelessHistory(size)
      BY <2>3, ResizeKeepsWireless
    <2>4. CASE UNCHANGED wirelessVars
      BY <2>4 DEF WirelessInv, wirelessVars
    <2> QED
      BY <2>1, <2>2, <2>3, <2>4 DEF WirelessNext
  <1> QED
    BY <1>1, <1>2, PTL DEF WirelessSpec

\* No connection event without two updates in a row that saw the change
\* (advanceWirelessConnectionTracker), and the events kept tell one story: each begins where
\* the one before it ended, unless an observation was adopted in silence in between.
THEOREM EventsConfirmed == WirelessSpec => []EventsAreConfirmed
  <1>1. WirelessInv => EventsAreConfirmed
    <2> SUFFICES ASSUME WirelessInv, NEW d \in DOMAIN radio
                 PROVE  LET events == radio[d].events
                        IN /\ \A n \in DOMAIN events :
                                 events[n].twice /\ events[n].from # events[n].to
                           /\ \A n \in 2 .. Len(events) :
                                 events[n].silences = events[n - 1].silences =>
                                    events[n].from = events[n - 1].to
      BY DEF EventsAreConfirmed
    <2> DEFINE events == radio[d].events
    <2>1. EventsInv(events, radio[d].tracker.confirmed, radio[d].tracker.silences)
      BY DEF WirelessInv, RadioInv
    <2> HIDE DEF events
    <2>2. \A n \in DOMAIN events : events[n] \in SeenEvents
      BY <2>1, ElementOfSeq, LenProperties DEF EventsInv
    <2>3. \A n \in DOMAIN events : events[n].twice /\ events[n].from # events[n].to
      BY <2>2 DEF SeenEvents
    <2>4. \A n \in 2 .. Len(events) :
             events[n].silences = events[n - 1].silences => events[n].from = events[n - 1].to
      BY <2>1 DEF EventsInv
    <2> QED
      BY <2>3, <2>4 DEF events
  <1> QED
    BY <1>1, WirelessInvHolds, PTL

\* The wireless warnings of the dashboard are those of the interfaces that the monitor knows
\* and whose last announcement was a loss (recordConnectionEvent, clearSubject): evictions,
\* interfaces that stop being wireless and new histories leave none behind and lose none.
THEOREM WarningsAreOfEvents == WirelessSpec => []WarningsFollowEvents
  <1>1. WirelessInv => WarningsFollowEvents
    BY DEF WirelessInv, WarningsFollowEvents, LostRadios
  <1> QED
    BY <1>1, WirelessInvHolds, PTL

-----------------------------------------------------------------------------
(* The summary and grade of a wireless interface: what its loops compute.  *)

\* A function on 1 .. n is a sequence of length n.
LEMMA LengthOfNumbers ==
    ASSUME NEW n \in Nat, NEW f \in [1 .. n -> Int]
    PROVE  Len(f) = n
  <1>1. f \in Seq(Int)
    BY SeqDef
  <1>2. Len(f) \in Nat /\ 1 .. Len(f) = 1 .. n
    BY <1>1, LenProperties
  <1> QED
    BY <1>2

\* What a loop that sums has after each number.
SumRun(f, n, run) ==
    /\ run \in [0 .. n -> Int] /\ run[0] = 0 /\ run[n] = Summed(f)
    /\ \A k \in 1 .. n : run[k] = run[k - 1] + f[k]

\* A sum is the last of the sums of the first parts.
LEMMA SummedFacts ==
    ASSUME NEW n \in Nat, NEW f \in [1 .. n -> Int]
    PROVE  \E run : SumRun(f, n, run)
  <1> DEFINE body == [k \in 1 .. n |-> [x \in Int |-> x + f[k]]]
             step(u, k) == IF k = 0 THEN 0 ELSE u[k - 1] + f[k]
             looped == CHOOSE u : u = [k \in 0 .. n |-> step(u, k)]
  <1>1. Summed(f) = looped[n]
    BY Zenon, LengthOfNumbers DEF Summed
  <1>2. PICK run \in [0 .. n -> Int] :
           run[0] = 0 /\ \A k \in 1 .. n : run[k] = body[k][run[k - 1]]
    <2>1. body \in [1 .. n -> [Int -> Int]]
      OBVIOUS
    <2> HIDE DEF body
    <2>2. 0 \in Int
      OBVIOUS
    <2>3. LoopOf(n, Int, 0, body)
      BY Zenon, <2>1, <2>2, LoopRuns
    <2> QED
      BY Zenon, <2>3 DEF LoopOf
  <1>3. \A k \in 1 .. n : run[k] = run[k - 1] + f[k]
    <2>1. ASSUME NEW k \in 1 .. n PROVE run[k] = run[k - 1] + f[k]
      <3>1. run[k] = body[k][run[k - 1]]
        BY <1>2
      <3>2. run[k - 1] \in Int
        BY <1>2
      <3>3. body[k] = [x \in Int |-> x + f[k]]
        OBVIOUS
      <3> HIDE DEF body
      <3> QED
        BY <3>1, <3>2, <3>3
    <2> QED
      BY <2>1
  <1>4. run = [k \in 0 .. n |-> step(run, k)]
    <2>1. \A k \in 0 .. n : run[k] = step(run, k)
      BY <1>2, <1>3
    <2> QED
      BY <1>2, <2>1
  <1>5. looped = [k \in 0 .. n |-> step(looped, k)]
    <2> HIDE DEF step
    <2> QED
      BY Zenon, <1>4
  <1>6. looped[0] = 0 /\ \A k \in 1 .. n : looped[k] = looped[k - 1] + f[k]
    <2>1. \A k \in 0 .. n : looped[k] = step(looped, k)
      <3> HIDE DEF looped, step
      <3> QED
        BY <1>5
    <2> HIDE DEF looped
    <2> QED
      BY <2>1
  <1> HIDE DEF looped
  <1>7. 0 .. n \subseteq {k \in 0 .. n : looped[k] = run[k]}
    <2> DEFINE same == {k \in 0 .. n : looped[k] = run[k]}
    <2>1. 0 \in same
      BY <1>2, <1>6
    <2>2. ASSUME NEW k \in 1 .. n, k - 1 \in same PROVE k \in same
      BY <1>3, <1>6, <2>2
    <2> HIDE DEF same
    <2>3. 0 .. n \subseteq same
      BY <2>1, <2>2, LoopKeeps
    <2> QED
      BY <2>3 DEF same
  <1>8. looped[n] = run[n]
    BY <1>7
  <1> QED
    BY <1>1, <1>2, <1>3, <1>8 DEF SumRun

\* A sum of natural numbers is one, and at least each of them.
LEMMA SumWithin ==
    ASSUME NEW n \in Nat, NEW f \in [1 .. n -> Nat]
    PROVE  Summed(f) \in Nat /\ \A k \in 1 .. n : f[k] <= Summed(f)
  <1>1. PICK run : SumRun(f, n, run)
    BY SummedFacts
  <1> DEFINE good == {k \in 0 .. n : run[k] \in Nat /\ \A j \in 1 .. k : f[j] <= run[k]}
  <1>2. 0 \in good
    BY <1>1 DEF SumRun
  <1>3. ASSUME NEW k \in 1 .. n, k - 1 \in good PROVE k \in good
    <2>1. run[k] = run[k - 1] + f[k] /\ f[k] \in Nat
      BY <1>1 DEF SumRun
    <2>2. run[k - 1] \in Nat /\ \A j \in 1 .. k - 1 : f[j] <= run[k - 1]
      BY <1>3
    <2>3. ASSUME NEW j \in 1 .. k PROVE f[j] <= run[k]
      <3>1. CASE j = k
        BY <2>1, <2>2, <3>1
      <3>2. CASE j # k
        <4>1. j \in 1 .. k - 1 /\ j \in 1 .. n
          BY <3>2
        <4>2. f[j] <= run[k - 1] /\ f[j] \in Nat
          BY <2>2, <4>1
        <4> QED
          BY <2>1, <2>2, <4>2
      <3> QED
        BY <3>1, <3>2
    <2>4. run[k] \in Nat /\ k \in 0 .. n
      BY <2>1, <2>2
    <2> QED
      BY <2>3, <2>4
  <1> HIDE DEF good
  <1>4. 0 .. n \subseteq good
    BY <1>2, <1>3, LoopKeeps
  <1>5. run[n] \in Nat /\ \A k \in 1 .. n : f[k] <= run[n]
    BY <1>4 DEF good
  <1> QED
    BY Zenon, <1>1, <1>5 DEF SumRun

\* The root of a natural number is one.
LEMMA RootFacts ==
    ASSUME NEW x \in Nat
    PROVE  Root(x) \in Nat
  <1> DEFINE has(y) == \E r \in 0 .. y : r * r <= y /\ y < (r + 1) * (r + 1)
             S == {y \in Nat : has(y)}
  <1>1. 0 \in S
    <2>1. 0 \in 0 .. 0 /\ 0 * 0 <= 0 /\ 0 < (0 + 1) * (0 + 1)
      OBVIOUS
    <2> QED
      BY <2>1
  <1>2. ASSUME NEW y \in Nat, y \in S PROVE y + 1 \in S
    <2>1. PICK r \in 0 .. y : r * r <= y /\ y < (r + 1) * (r + 1)
      BY <1>2
    <2>2. r * r \in Nat /\ (r + 1) * (r + 1) = r * r + 2 * r + 1
          /\ (r + 2) * (r + 2) = r * r + 4 * r + 4
      BY <2>1
    <2>3. CASE y + 1 < (r + 1) * (r + 1)
      <3>1. r \in 0 .. y + 1 /\ r * r <= y + 1
        BY <2>1, <2>2
      <3> QED
        BY <2>3, <3>1
    <2>4. CASE ~ (y + 1 < (r + 1) * (r + 1))
      <3> DEFINE t == r + 1
      <3>1. t \in 0 .. y + 1 /\ t + 1 = r + 2
        BY <2>1
      <3>2. t * t <= y + 1 /\ y + 1 < (r + 2) * (r + 2)
        BY <2>1, <2>2, <2>4
      <3>3. y + 1 < (t + 1) * (t + 1)
        BY <3>1, <3>2
      <3> HIDE DEF t
      <3> QED
        BY <3>1, <3>2, <3>3
    <2> QED
      BY <2>3, <2>4
  <1>3. has(x)
    <2> HIDE DEF S
    <2>1. Nat \subseteq S
      BY <1>1, <1>2, SetInduction
    <2> QED
      BY <2>1 DEF S
  <1>4. Root(x) \in 0 .. x
    BY <1>3 DEF Root
  <1> QED
    BY <1>4

\* What a quotient is between.
LEMMA DivBounds ==
    ASSUME NEW a \in Int, NEW b \in Nat \ {0}, NEW c \in Int
    PROVE  /\ a \div b \in Int
           /\ c * b <= a => c <= a \div b
           /\ a < c * b => a \div b < c
  <1> DEFINE d == a \div b
  <1>1. d \in Int /\ b * d <= a /\ a < b * d + b
    BY SMTT(30)
  <1> HIDE DEF d
  <1>2. ASSUME c * b <= a PROVE c <= d
    <2>1. SUFFICES ASSUME d + 1 <= c PROVE FALSE
      BY <1>1
    <2>2. b * (d + 1) <= b * c
      BY <1>1, <2>1, SMTT(30)
    <2>3. b * (d + 1) = b * d + b /\ b * c = c * b
      BY <1>1
    <2> QED
      BY <1>1, <1>2, <2>2, <2>3
  <1>3. ASSUME a < c * b PROVE d < c
    <2>1. SUFFICES ASSUME c <= d PROVE FALSE
      BY <1>1
    <2>2. b * c <= b * d
      BY <1>1, <2>1, SMTT(30)
    <2>3. b * c = c * b
      OBVIOUS
    <2> QED
      BY <1>1, <1>3, <2>2, <2>3
  <1> QED
    BY <1>1, <1>2, <1>3 DEF d

\* A share is a number of hundredths.
LEMMA ShareFacts ==
    ASSUME NEW part \in Nat, NEW whole \in Nat \ {0}
    PROVE  /\ Share(part, whole) \in 0 .. 100
           /\ part = 0 => Share(part, whole) = 0
           /\ part >= whole => Share(part, whole) = 100
  <1> DEFINE least == Least(part, whole)
             share == (100 * least) \div whole
  <1>1. least \in Nat /\ least <= whole /\ (part = 0 => least = 0) /\ (part >= whole => least = whole)
    BY DEF Least
  <1> HIDE DEF least
  <1>2. /\ share \in Int
        /\ 0 * whole <= 100 * least => 0 <= share
        /\ 100 * least < 101 * whole => share < 101
        /\ 100 * least < 1 * whole => share < 1
        /\ 100 * whole <= 100 * least => 100 <= share
    <2>1. 100 * least \in Int
      BY <1>1
    <2> QED
      BY <2>1, DivBounds
  <1>3. share \in 0 .. 100 /\ (least = 0 => share = 0) /\ (least = whole => share = 100)
    <2> HIDE DEF share
    <2> QED
      BY <1>1, <1>2
  <1> QED
    BY <1>1, <1>3 DEF Share, least

\* Six factors, the last two of which may be absent.
SixFactors(f) ==
    /\ DOMAIN f = 1 .. 6
    /\ f[1].weight = 30 /\ f[2].weight = 25 /\ f[3].weight = 10 /\ f[4].weight = 10
    /\ f[5].weight \in {0, 15} /\ f[6].weight \in {0, 5}
    /\ \A n \in 1 .. 6 : f[n].value \in 0 .. 100

\* Their weighted mean is low if the first two are nothing, and high if the first four are full.
LEMMA MeanFacts ==
    ASSUME NEW f, SixFactors(f)
    PROVE  LET mean == Summed([n \in DOMAIN f |-> f[n].weight * f[n].value])
                       \div Summed([n \in DOMAIN f |-> f[n].weight])
           IN /\ mean \in Int
              /\ f[1].value = 0 /\ f[2].value = 0 => mean < 60
              /\ f[1].value = 100 /\ f[2].value = 100 /\ f[3].value = 100 /\ f[4].value = 100 =>
                    mean >= 60
  <1> DEFINE w == [n \in 1 .. 6 |-> f[n].weight]
             p == [n \in 1 .. 6 |-> f[n].weight * f[n].value]
             weights == Summed(w)
             points == Summed(p)
  <1>0. 6 \in Nat /\ 1 \in 1 .. 6 /\ 2 \in 1 .. 6 /\ 3 \in 1 .. 6 /\ 4 \in 1 .. 6 /\ 5 \in 1 .. 6 /\ 6 \in 1 .. 6
    OBVIOUS
  <1>1. \A n \in 1 .. 6 : n = 1 \/ n = 2 \/ n = 3 \/ n = 4 \/ n = 5 \/ n = 6
    OBVIOUS
  <1>2. \A n \in 1 .. 6 : f[n].weight \in Nat /\ f[n].value \in 0 .. 100
    <2>1. ASSUME NEW n \in 1 .. 6 PROVE f[n].weight \in Nat
      BY <1>1 DEF SixFactors
    <2> QED
      BY <2>1 DEF SixFactors
  <1>3. w \in [1 .. 6 -> Int]
    BY <1>2
  <1>4. p \in [1 .. 6 -> Int]
    <2>1. ASSUME NEW n \in 1 .. 6 PROVE f[n].weight * f[n].value \in Int
      BY <1>2, SMTT(30)
    <2> QED
      BY <2>1
  <1>5. PICK r : SumRun(w, 6, r)
    BY Zenon, <1>0, <1>3, SummedFacts
  <1>6. PICK s : SumRun(p, 6, s)
    BY Zenon, <1>0, <1>4, SummedFacts
  <1>7. weights = f[1].weight + f[2].weight + f[3].weight + f[4].weight + f[5].weight + f[6].weight
    <2>1. \A n \in 1 .. 6 : w[n] = f[n].weight
      OBVIOUS
    <2> HIDE DEF w
    <2> QED
      BY <1>0, <1>2, <1>5, <2>1 DEF SumRun
  <1>8. points = f[1].weight * f[1].value + f[2].weight * f[2].value + f[3].weight * f[3].value
                 + f[4].weight * f[4].value + f[5].weight * f[5].value + f[6].weight * f[6].value
    <2>1. \A n \in 1 .. 6 : p[n] = f[n].weight * f[n].value
      OBVIOUS
    <2>2. \A n \in 1 .. 6 : p[n] \in Int
      BY <1>4
    <2> HIDE DEF p
    <2>3. points = p[1] + p[2] + p[3] + p[4] + p[5] + p[6]
      BY <1>0, <1>6, <2>2 DEF SumRun
    <2>4. /\ p[1] = f[1].weight * f[1].value /\ p[2] = f[2].weight * f[2].value
          /\ p[3] = f[3].weight * f[3].value /\ p[4] = f[4].weight * f[4].value
          /\ p[5] = f[5].weight * f[5].value /\ p[6] = f[6].weight * f[6].value
      BY <1>0, <2>1
    <2> HIDE DEF points
    <2> QED
      BY Zenon, <2>3, <2>4
  <1> HIDE DEF w, p
  <1>9. /\ points \in Int /\ weights \in Nat \ {0}
        /\ f[1].value = 0 /\ f[2].value = 0 => points < 60 * weights
        /\ f[1].value = 100 /\ f[2].value = 100 /\ f[3].value = 100 /\ f[4].value = 100 =>
              60 * weights <= points
    <2> DEFINE v1 == f[1].value  v2 == f[2].value  v3 == f[3].value
               v4 == f[4].value  v5 == f[5].value  v6 == f[6].value
               w5 == f[5].weight  w6 == f[6].weight
    <2>1. /\ v1 \in 0 .. 100 /\ v2 \in 0 .. 100 /\ v3 \in 0 .. 100
          /\ v4 \in 0 .. 100 /\ v5 \in 0 .. 100 /\ v6 \in 0 .. 100
      BY <1>0, <1>2
    <2>2. w5 \in {0, 15} /\ w6 \in {0, 5}
      BY DEF SixFactors
    <2>3. weights = 75 + w5 + w6
      BY <1>7, <2>2 DEF SixFactors
    <2>4. points = 30 * v1 + 25 * v2 + 10 * v3 + 10 * v4 + w5 * v5 + w6 * v6
      BY <1>8 DEF SixFactors
    <2> HIDE DEF v1, v2, v3, v4, v5, v6, w5, w6, weights, points
    <2>5. w5 * v5 \in Nat /\ w5 * v5 <= 100 * w5 /\ w6 * v6 \in Nat /\ w6 * v6 <= 100 * w6
      BY <2>1, <2>2
    <2>6. /\ points \in Int /\ weights \in Nat \ {0}
          /\ v1 = 0 /\ v2 = 0 => points < 60 * weights
          /\ v1 = 100 /\ v2 = 100 /\ v3 = 100 /\ v4 = 100 => 60 * weights <= points
      BY <2>1, <2>2, <2>3, <2>4, <2>5
    <2> QED
      BY <2>6 DEF v1, v2, v3, v4
  <1> HIDE DEF weights, points
  <1> DEFINE mean == points \div weights
  <1>10. /\ mean \in Int
         /\ 60 * weights <= points => 60 <= mean
         /\ points < 60 * weights => mean < 60
    BY <1>9, DivBounds
  <1> HIDE DEF mean
  <1>11. /\ mean \in Int
         /\ f[1].value = 0 /\ f[2].value = 0 => mean < 60
         /\ f[1].value = 100 /\ f[2].value = 100 /\ f[3].value = 100 /\ f[4].value = 100 =>
               mean >= 60
    BY <1>9, <1>10
  <1>12. DOMAIN f = 1 .. 6
    BY DEF SixFactors
  <1> QED
    BY Zenon, <1>11, <1>12 DEF mean, points, weights, p, w

\* What a grade is made of.
SoundSummary(q) ==
    /\ q.connected \in Nat /\ q.disconnected \in Nat
    /\ q.disconnections \in Nat /\ q.unavailable \in Nat
    /\ q.longest["Disconnected"] \in Nat
    /\ q.disconnected = 0 => q.longest["Disconnected"] = 0
    /\ q.signal.count \in Nat
    /\ q.signal.count > 0 => q.signal.average \in Int /\ q.signal.deviation \in Nat

\* Good counts make a high score and bad ones a low one.
LEMMA ScoreFacts ==
    ASSUME NEW q, SoundSummary(q), UnitSeconds * (q.connected + q.disconnected) >= 5
    PROVE  /\ Score(q) \in Int
           /\ q.connected = 0 => Score(q) < 60
           /\ q.disconnected + q.disconnections + q.unavailable = 0 => Score(q) >= 60
  <1> DEFINE u == UnitSeconds
             determined == u * (q.connected + q.disconnected)
             connected == u * q.connected
             outage == u * q.longest["Disconnected"]
             rate == (100 * u * q.connected * 10) \div (10 * determined + 3600 * q.disconnections)
             f == Factors(q)
  <1>1. u \in Nat \ {0} /\ MinFactor \in Nat \ {0}
    BY WirelessConstants
  <1> HIDE DEF u
  <1>2. /\ determined \in Nat \ {0} /\ connected \in Nat /\ connected <= determined /\ outage \in Nat
        /\ q.connected = 0 => connected = 0
        /\ q.disconnected = 0 => outage = 0 /\ connected = determined
    <2>0. determined >= 5
      BY DEF u
    <2> DEFINE c == q.connected  d == q.disconnected  l == q.longest["Disconnected"]
    <2>1. c \in Nat /\ d \in Nat /\ l \in Nat /\ (d = 0 => l = 0)
      BY DEF SoundSummary
    <2>2. determined = u * (c + d) /\ connected = u * c /\ outage = u * l
      OBVIOUS
    <2> HIDE DEF c, d, l, determined, connected, outage
    <2>3. u * c \in Nat /\ u * d \in Nat /\ u * l \in Nat /\ u * (c + d) = u * c + u * d
      BY <1>1, <2>1, SMTT(30)
    <2>4. (c = 0 => u * c = 0) /\ (d = 0 => u * d = 0) /\ (l = 0 => u * l = 0)
      BY <1>1
    <2>5. /\ determined \in Nat \ {0} /\ connected \in Nat /\ connected <= determined /\ outage \in Nat
          /\ c = 0 => connected = 0
          /\ d = 0 => outage = 0 /\ connected = determined
      BY <2>0, <2>1, <2>2, <2>3, <2>4
    <2> QED
      BY <2>5 DEF c, d
  <1>3. /\ rate \in 0 .. 100
        /\ q.connected = 0 => rate = 0
        /\ q.disconnected = 0 /\ q.disconnections = 0 => rate = 100
    <2> DEFINE parts == 100 * u * q.connected * 10
               whole == 10 * determined + 3600 * q.disconnections
    <2>1. parts = 1000 * connected
      BY <1>1, SMTT(30) DEF SoundSummary
    <2>2. /\ whole \in Nat \ {0} /\ 10 * determined <= whole
          /\ q.disconnections = 0 => whole = 10 * determined
      BY <1>2 DEF SoundSummary
    <2> HIDE DEF determined, connected, parts, whole
    <2>3. /\ parts \in Int /\ 0 <= parts /\ parts <= 100 * whole
          /\ q.connected = 0 => parts = 0
          /\ q.disconnected = 0 /\ q.disconnections = 0 => parts = 100 * whole
      BY <1>2, <2>1, <2>2
    <2>4. /\ parts \div whole \in Int
          /\ 0 * whole <= parts => 0 <= parts \div whole
          /\ 100 * whole <= parts => 100 <= parts \div whole
          /\ parts < 101 * whole => parts \div whole < 101
          /\ parts < 1 * whole => parts \div whole < 1
      BY <2>2, <2>3, DivBounds
    <2>5. rate = parts \div whole
      BY DEF parts, whole, determined
    <2> HIDE DEF rate
    <2> QED
      BY <2>2, <2>3, <2>4, <2>5
  <1> DEFINE v1 == Share(connected, determined)
             v3 == 100 - Share(outage, 60)
             v4 == 100 - Share(q.unavailable, 3)
             strength == IF q.signal.count < MinFactor THEN Absent
                         ELSE Factor(15, IF q.signal.average < -90 THEN 0
                                         ELSE Share(q.signal.average + 90, 60))
             variability == IF q.signal.count < 2 THEN Absent
                            ELSE Factor(5, 100 - Share(q.signal.deviation, 6))
  <1>4. f = <<Factor(30, v1), Factor(25, rate), Factor(10, v3), Factor(10, v4), strength, variability>>
    BY Zenon DEF Factors, u
  <1>5. /\ v1 \in 0 .. 100 /\ (q.connected = 0 => v1 = 0) /\ (q.disconnected = 0 => v1 = 100)
    <2> HIDE DEF connected, determined
    <2> QED
      BY <1>2, ShareFacts, SMTT(30)
  <1>6. v3 \in 0 .. 100 /\ (q.disconnected = 0 => v3 = 100)
    <2> HIDE DEF outage
    <2>1. Share(outage, 60) \in 0 .. 100 /\ (outage = 0 => Share(outage, 60) = 0)
      BY <1>2, ShareFacts, SMTT(30)
    <2> QED
      BY <1>2, <2>1
  <1>7. v4 \in 0 .. 100 /\ (q.unavailable = 0 => v4 = 100)
    <2> DEFINE times == q.unavailable
    <2>1. times \in Nat
      BY DEF SoundSummary
    <2> HIDE DEF times
    <2>2. Share(times, 3) \in 0 .. 100 /\ (times = 0 => Share(times, 3) = 0)
      BY <2>1, ShareFacts, SMTT(30)
    <2>3. 100 - Share(times, 3) \in 0 .. 100 /\ (times = 0 => 100 - Share(times, 3) = 100)
      BY <2>2
    <2> QED
      BY <2>3 DEF times
  <1>8. strength.weight \in {0, 15} /\ strength.value \in 0 .. 100
    <2>1. CASE q.signal.count < MinFactor
      BY <2>1 DEF Absent, Factor
    <2>2. CASE ~ (q.signal.count < MinFactor)
      <3> DEFINE a == q.signal.average
                 v == IF a < -90 THEN 0 ELSE Share(a + 90, 60)
      <3>1. a \in Int
        BY <1>1, <2>2 DEF SoundSummary
      <3>2. v \in 0 .. 100
        <4> HIDE DEF a
        <4>1. CASE a < -90
          BY <4>1
        <4>2. CASE ~ (a < -90)
          <5>1. a + 90 \in Nat
            BY <3>1, <4>2
          <5> DEFINE above == a + 90
          <5>2. above \in Nat /\ 60 \in Nat \ {0}
            BY <5>1
          <5> HIDE DEF above
          <5>3. Share(above, 60) \in 0 .. 100
            BY <5>2, ShareFacts, SMTT(30)
          <5> QED
            BY <4>2, <5>3 DEF above
        <4> QED
          BY <4>1, <4>2
      <3>3. strength = Factor(15, v)
        BY <2>2
      <3> HIDE DEF v, strength
      <3> QED
        BY <3>2, <3>3 DEF Factor
    <2> QED
      BY <2>1, <2>2
  <1>9. variability.weight \in {0, 5} /\ variability.value \in 0 .. 100
    <2>1. CASE q.signal.count < 2
      BY <2>1 DEF Absent, Factor
    <2>2. CASE ~ (q.signal.count < 2)
      <3> DEFINE share == Share(q.signal.deviation, 6)
      <3>1. q.signal.deviation \in Nat /\ 6 \in Nat \ {0}
        BY <2>2 DEF SoundSummary
      <3>2. share \in 0 .. 100
        BY Zenon, <3>1, ShareFacts
      <3>3. variability = Factor(5, 100 - share)
        BY <2>2
      <3> HIDE DEF share, variability
      <3> QED
        BY <3>2, <3>3 DEF Factor
    <2> QED
      BY <2>1, <2>2
  <1> HIDE DEF strength, variability, v1, v3, v4, rate, connected, determined, outage, f
  <1>10. /\ DOMAIN f = 1 .. 6
         /\ f[1] = Factor(30, v1) /\ f[2] = Factor(25, rate) /\ f[3] = Factor(10, v3)
         /\ f[4] = Factor(10, v4) /\ f[5] = strength /\ f[6] = variability
    BY <1>4
  <1>11. /\ f[1].weight = 30 /\ f[1].value = v1 /\ f[2].weight = 25 /\ f[2].value = rate
         /\ f[3].weight = 10 /\ f[3].value = v3 /\ f[4].weight = 10 /\ f[4].value = v4
    BY <1>10 DEF Factor
  <1>12. SixFactors(f)
    <2>1. \A n \in 1 .. 6 : n = 1 \/ n = 2 \/ n = 3 \/ n = 4 \/ n = 5 \/ n = 6
      OBVIOUS
    <2>2. /\ f[1].value \in 0 .. 100 /\ f[2].value \in 0 .. 100 /\ f[3].value \in 0 .. 100
          /\ f[4].value \in 0 .. 100 /\ f[5].value \in 0 .. 100 /\ f[6].value \in 0 .. 100
      BY Zenon, <1>3, <1>5, <1>6, <1>7, <1>8, <1>9, <1>10, <1>11
    <2>3. \A n \in 1 .. 6 : f[n].value \in 0 .. 100
      BY Zenon, <2>1, <2>2
    <2>4. f[5].weight \in {0, 15} /\ f[6].weight \in {0, 5}
      BY Zenon, <1>8, <1>9, <1>10
    <2> QED
      BY Zenon, <1>10, <1>11, <2>3, <2>4 DEF SixFactors
  <1> DEFINE mean == Summed([n \in DOMAIN f |-> f[n].weight * f[n].value])
                     \div Summed([n \in DOMAIN f |-> f[n].weight])
  <1>13. /\ mean \in Int
         /\ f[1].value = 0 /\ f[2].value = 0 => mean < 60
         /\ f[1].value = 100 /\ f[2].value = 100 /\ f[3].value = 100 /\ f[4].value = 100 =>
               mean >= 60
    BY Zenon, <1>12, MeanFacts
  <1>14. Score(q) = mean
    BY Zenon DEF Score, f
  <1>15. q.disconnected + q.disconnections + q.unavailable = 0 =>
            q.disconnected = 0 /\ q.disconnections = 0 /\ q.unavailable = 0
    <2>1. q.disconnected \in Nat /\ q.disconnections \in Nat /\ q.unavailable \in Nat
      BY DEF SoundSummary
    <2> QED
      BY <2>1
  <1> HIDE DEF mean
  <1> QED
    BY <1>3, <1>5, <1>6, <1>7, <1>11, <1>13, <1>14, <1>15

\* The grade follows the counts of a summary, whatever signal there was.
LEMMA GradeFacts ==
    ASSUME NEW q, SoundSummary(q)
    PROVE  /\ q.connected = 0 => Stability(q) \in {"Unknown", "Poor", "Fair"}
           /\ q.disconnected + q.disconnections + q.unavailable = 0 =>
                 Stability(q) \in {"Unknown", "Good", "Excellent"}
  <1> DEFINE grade == IF Score(q) >= 80 THEN "Excellent" ELSE IF Score(q) >= 60 THEN "Good"
                      ELSE IF Score(q) >= 40 THEN "Fair" ELSE "Poor"
  <1>1. CASE q.valid < MinValid \/ UnitSeconds * (q.connected + q.disconnected) < 5
    BY <1>1 DEF Stability
  <1>2. CASE ~ (q.valid < MinValid \/ UnitSeconds * (q.connected + q.disconnected) < 5)
    <2>1. Stability(q) = grade
      BY <1>2 DEF Stability
    <2>2. UnitSeconds * (q.connected + q.disconnected) >= 5
      <3>1. UnitSeconds * (q.connected + q.disconnected) \in Int
        BY WirelessConstants, SMTT(30) DEF SoundSummary
      <3> QED
        BY <1>2, <3>1
    <2>3. /\ Score(q) \in Int
          /\ q.connected = 0 => Score(q) < 60
          /\ q.disconnected + q.disconnections + q.unavailable = 0 => Score(q) >= 60
      BY <2>2, ScoreFacts
    <2>4. (Score(q) < 60 => grade \in {"Poor", "Fair"}) /\ (Score(q) >= 60 => grade \in {"Good", "Excellent"})
      BY <2>3
    <2> QED
      BY <2>1, <2>3, <2>4
  <1> QED
    BY <1>1, <1>2

States == {"Associated", "Disconnected", "Unknown"}
Measures == UNION {[M -> Int] : M \in SUBSET Metrics}
WirelessSamples == [age : Nat, association : States, valid : BOOLEAN, values : Measures]

\* The samples of a history, each younger than those before it.
InTime(samples) ==
    /\ samples \in Seq(WirelessSamples)
    /\ \A j, k \in 1 .. Len(samples) : j < k => samples[j].age > samples[k].age

\* Ages are numbers.
LEMMA AgesFacts ==
    ASSUME NEW samples, InTime(samples)
    PROVE  /\ Len(samples) \in Nat /\ DOMAIN samples = 1 .. Len(samples)
           /\ \A k \in 1 .. Len(samples) :
                 samples[k] \in WirelessSamples /\ samples[k].age \in Nat
           /\ \A k \in 1 .. Len(samples) - 1 :
                 Elapsed(samples, k) \in Nat \ {0} /\ StateAfter(samples, k) \in States
  <1>1. /\ Len(samples) \in Nat /\ DOMAIN samples = 1 .. Len(samples)
        /\ \A k \in 1 .. Len(samples) : samples[k] \in WirelessSamples
    BY LenProperties, ElementOfSeq DEF InTime
  <1>2. \A k \in 1 .. Len(samples) : samples[k].age \in Nat /\ samples[k].association \in States
    BY <1>1 DEF WirelessSamples
  <1>3. ASSUME NEW k \in 1 .. Len(samples) - 1
        PROVE  Elapsed(samples, k) \in Nat \ {0} /\ StateAfter(samples, k) \in States
    <2>1. k \in 1 .. Len(samples) /\ k + 1 \in 1 .. Len(samples) /\ k < k + 1
      BY <1>1
    <2>2. samples[k].age > samples[k + 1].age
      BY <2>1 DEF InTime
    <2>3. Elapsed(samples, k) \in Nat \ {0}
      BY <1>2, <2>1, <2>2 DEF Elapsed
    <2>4. StateAfter(samples, k) \in States
      BY <1>2, <2>1 DEF StateAfter, States
    <2> QED
      BY <2>3, <2>4
  <1> QED
    BY <1>1, <1>2, <1>3

\* The time in a assoc is a sum over the samples; the three sums make up the time of all.
LEMMA TimesFacts ==
    ASSUME NEW samples, InTime(samples), Len(samples) > 0
    PROVE  /\ \A assoc \in States :
                 /\ SecondsIn(samples, assoc) \in Nat
                 /\ \A k \in 1 .. Len(samples) - 1 :
                       StateAfter(samples, k) = assoc => SecondsIn(samples, assoc) > 0
           /\ SecondsIn(samples, "Associated") + SecondsIn(samples, "Disconnected")
              + SecondsIn(samples, "Unknown") = samples[1].age - samples[Len(samples)].age
  <1> DEFINE n == Len(samples) - 1
             part(assoc) == [k \in 1 .. n |-> IF StateAfter(samples, k) = assoc
                                              THEN Elapsed(samples, k) ELSE 0]
  <1>1. /\ n \in Nat /\ Len(samples) = n + 1
        /\ \A k \in 1 .. n + 1 : samples[k].age \in Nat
        /\ \A k \in 1 .. n : Elapsed(samples, k) \in Nat \ {0} /\ StateAfter(samples, k) \in States
    BY AgesFacts
  <1> HIDE DEF n
  <1>2. ASSUME NEW assoc
        PROVE  /\ SecondsIn(samples, assoc) = Summed(part(assoc))
               /\ part(assoc) \in [1 .. n -> Nat]
               /\ \A k \in 1 .. n : part(assoc)[k] = IF StateAfter(samples, k) = assoc
                                                     THEN Elapsed(samples, k) ELSE 0
    BY <1>1 DEF SecondsIn, n
  <1>3. ASSUME NEW assoc \in States
        PROVE  /\ SecondsIn(samples, assoc) \in Nat
               /\ \A k \in 1 .. n : StateAfter(samples, k) = assoc => SecondsIn(samples, assoc) > 0
    <2>1. /\ Summed(part(assoc)) \in Nat
          /\ \A k \in 1 .. n : part(assoc)[k] <= Summed(part(assoc))
      <3>1. part(assoc) \in [1 .. n -> Nat]
        BY <1>2
      <3> HIDE DEF part
      <3> QED
        BY <1>1, <3>1, SumWithin
    <2>2. ASSUME NEW k \in 1 .. n, StateAfter(samples, k) = assoc
          PROVE  SecondsIn(samples, assoc) > 0
      <3>1. part(assoc)[k] \in Nat \ {0}
        BY <1>1, <2>2
      <3>2. part(assoc)[k] <= Summed(part(assoc)) /\ SecondsIn(samples, assoc) = Summed(part(assoc))
        BY Zenon, <1>2, <2>1
      <3> HIDE DEF part
      <3> QED
        BY <2>1, <3>1, <3>2
    <2>3. SecondsIn(samples, assoc) \in Nat
      BY Zenon, <1>2, <2>1
    <2> QED
      BY <2>2, <2>3
  <1> DEFINE A == part("Associated")  D == part("Disconnected")  U == part("Unknown")
  <1>4. A \in [1 .. n -> Int] /\ D \in [1 .. n -> Int] /\ U \in [1 .. n -> Int]
    BY <1>1
  <1>5. /\ SecondsIn(samples, "Associated") = Summed(A)
        /\ SecondsIn(samples, "Disconnected") = Summed(D)
        /\ SecondsIn(samples, "Unknown") = Summed(U)
    BY Zenon, <1>2
  <1>6. \A k \in 1 .. n : A[k] + D[k] + U[k] = samples[k].age - samples[k + 1].age
    <2>1. ASSUME NEW k \in 1 .. n
          PROVE  A[k] + D[k] + U[k] = samples[k].age - samples[k + 1].age
      <3> DEFINE assoc == StateAfter(samples, k)  time == Elapsed(samples, k)
      <3>1. /\ A[k] = IF assoc = "Associated" THEN time ELSE 0
            /\ D[k] = IF assoc = "Disconnected" THEN time ELSE 0
            /\ U[k] = IF assoc = "Unknown" THEN time ELSE 0
        OBVIOUS
      <3>2. time \in Nat /\ assoc \in States /\ time = samples[k].age - samples[k + 1].age
        BY <1>1 DEF Elapsed
      <3> HIDE DEF A, D, U, assoc, time
      <3>3. A[k] + D[k] + U[k] = time
        BY <3>1, <3>2 DEF States
      <3> QED
        BY <3>2, <3>3
    <2> QED
      BY <2>1
  <1> HIDE DEF A, D, U
  <1>7. PICK a : SumRun(A, n, a)
    BY <1>1, <1>4, SummedFacts
  <1>8. PICK d : SumRun(D, n, d)
    BY <1>1, <1>4, SummedFacts
  <1>9. PICK u : SumRun(U, n, u)
    BY <1>1, <1>4, SummedFacts
  <1> DEFINE good == {k \in 0 .. n : a[k] + d[k] + u[k] = samples[1].age - samples[k + 1].age}
  <1>10. 0 \in good
    <2>1. 0 \in 0 .. n /\ a[0] = 0 /\ d[0] = 0 /\ u[0] = 0 /\ samples[1].age \in Nat /\ 0 + 1 = 1
      BY <1>1, <1>7, <1>8, <1>9 DEF SumRun
    <2> QED
      BY <2>1
  <1>11. ASSUME NEW k \in 1 .. n, k - 1 \in good PROVE k \in good
    <2>1. k - 1 \in 0 .. n /\ (k - 1) + 1 = k /\ k \in 0 .. n /\ k \in 1 .. n + 1 /\ k + 1 \in 1 .. n + 1 /\ 1 \in 1 .. n + 1
      BY <1>1
    <2>2. /\ a[k] = a[k - 1] + A[k] /\ d[k] = d[k - 1] + D[k] /\ u[k] = u[k - 1] + U[k]
          /\ a[k - 1] \in Int /\ d[k - 1] \in Int /\ u[k - 1] \in Int
      BY <1>7, <1>8, <1>9, <2>1 DEF SumRun
    <2>3. A[k] \in Int /\ D[k] \in Int /\ U[k] \in Int
      BY <1>4
    <2>4. /\ a[k - 1] + d[k - 1] + u[k - 1] = samples[1].age - samples[k].age
          /\ A[k] + D[k] + U[k] = samples[k].age - samples[k + 1].age
      BY <1>6, <1>11, <2>1
    <2>5. samples[1].age \in Nat /\ samples[k].age \in Nat /\ samples[k + 1].age \in Nat
      BY <1>1, <2>1
    <2>6. a[k] + d[k] + u[k] = samples[1].age - samples[k + 1].age
      <3> DEFINE y0 == samples[1].age  y1 == samples[k].age  y2 == samples[k + 1].age
                 a0 == a[k - 1]  d0 == d[k - 1]  u0 == u[k - 1]
                 a1 == A[k]  d1 == D[k]  u1 == U[k]
      <3>1. y0 \in Int /\ y1 \in Int /\ y2 \in Int
        BY <2>5
      <3>2. /\ a0 \in Int /\ d0 \in Int /\ u0 \in Int
            /\ a1 \in Int /\ d1 \in Int /\ u1 \in Int
        BY <2>2, <2>3
      <3>3. a0 + d0 + u0 = y0 - y1 /\ a1 + d1 + u1 = y1 - y2
        BY <2>4
      <3>4. a[k] = a0 + a1 /\ d[k] = d0 + d1 /\ u[k] = u0 + u1
        BY <2>2
      <3> HIDE DEF y0, y1, y2, a0, d0, u0, a1, d1, u1
      <3>5. a[k] + d[k] + u[k] = y0 - y2
        BY <3>1, <3>2, <3>3, <3>4
      <3> QED
        BY <3>5 DEF y0, y2
    <2> QED
      BY <2>1, <2>6
  <1> HIDE DEF good
  <1>12. 0 .. n \subseteq good
    BY <1>1, <1>10, <1>11, LoopKeeps
  <1>13. a[n] + d[n] + u[n] = samples[1].age - samples[n + 1].age
    BY <1>1, <1>12 DEF good
  <1>14. a[n] = Summed(A) /\ d[n] = Summed(D) /\ u[n] = Summed(U)
    BY Zenon, <1>7, <1>8, <1>9 DEF SumRun
  <1>15. SecondsIn(samples, "Associated") + SecondsIn(samples, "Disconnected")
         + SecondsIn(samples, "Unknown") = samples[1].age - samples[Len(samples)].age
    BY Zenon, <1>1, <1>5, <1>13, <1>14
  <1> QED
    BY <1>3, <1>15 DEF n

\* The states whose runs are kept, and what the loop over the samples has.
Kept == {"Associated", "Disconnected"}
Loops == [best : [Kept -> Nat], run : [state : States, time : Nat]]

RunOf(samples, assoc, m, n) == \A i \in m .. n - 1 : StateAfter(samples, i) = assoc
Spent(samples, m, n) == samples[m].age - samples[n].age

\* The longest run in a assoc among the samples up to one of them.
LongestUpto(samples, end, assoc, time) ==
    /\ \E m, n \in 1 .. end : m <= n /\ RunOf(samples, assoc, m, n) /\ time = Spent(samples, m, n)
    /\ \A m, n \in 1 .. end : m <= n /\ RunOf(samples, assoc, m, n) => Spent(samples, m, n) <= time

\* At a sample, a run is under way from its start, and the longest runs are those up to there.
UnderWay(samples, k, loop, start) ==
    /\ start \in 1 .. k /\ (k > 1 => start < k)
    /\ loop.run.time = Spent(samples, start, k)
    /\ RunOf(samples, loop.run.state, start, k)
    /\ start > 1 => StateAfter(samples, start - 1) # loop.run.state
    /\ \A assoc \in Kept : LongestUpto(samples, start, assoc, loop.best[assoc])

LoopInv(samples, k, loop) == loop \in Loops /\ \E start \in 1 .. k : UnderWay(samples, k, loop, start)

\* What the two loops of the longest runs compute is typed.
LEMMA LoopsFields ==
    ASSUME NEW loop \in Loops
    PROVE  /\ loop.best \in [Kept -> Nat] /\ loop.run.state \in States /\ loop.run.time \in Nat
           /\ loop = [best |-> loop.best, run |-> loop.run]
           /\ loop.run = [state |-> loop.run.state, time |-> loop.run.time]
  BY DEF Loops

\* The run under way is closed: the longer of it and of those before.
LEMMA LongerFacts ==
    ASSUME NEW best \in [Kept -> Nat], NEW run \in [state : States, time : Nat]
    PROVE  /\ Longer(best, run) \in [Kept -> Nat]
           /\ \A assoc \in Kept :
                 Longer(best, run)[assoc] =
                    IF run.state = assoc /\ run.time > best[assoc] THEN run.time ELSE best[assoc]
  <1>1. CASE run.state = "Unknown"
    <2>1. \A assoc \in Kept : run.state # assoc
      BY <1>1 DEF Kept
    <2>2. Longer(best, run) = best
      BY <1>1 DEF Longer
    <2> QED
      BY <2>1, <2>2
  <1>2. CASE run.state # "Unknown"
    <2>1. run.state \in Kept /\ run.time \in Nat
      BY <1>2 DEF States, Kept
    <2> DEFINE t == IF run.time > best[run.state] THEN run.time ELSE best[run.state]
    <2>2. Longer(best, run) = [best EXCEPT ![run.state] = t]
      BY <1>2 DEF Longer
    <2>3. t \in Nat
      BY <2>1
    <2> QED
      BY <2>1, <2>2, <2>3
  <1> QED
    BY <1>1, <1>2

\* A run that ends.
LEMMA CloseFacts ==
    ASSUME NEW samples, InTime(samples), NEW k \in 1 .. Len(samples),
           NEW loop \in Loops, NEW start, UnderWay(samples, k, loop, start), NEW assoc \in Kept
    PROVE  LongestUpto(samples, k, assoc, Longer(loop.best, loop.run)[assoc])
  <1> DEFINE ageOf(i) == samples[i].age
             b == loop.best[assoc]
             r == loop.run.state
             t == loop.run.time
             new == Longer(loop.best, loop.run)[assoc]
  <1>1. /\ Len(samples) \in Nat /\ \A i \in 1 .. Len(samples) : ageOf(i) \in Nat
        /\ \A i, j \in 1 .. Len(samples) : i < j => ageOf(i) > ageOf(j)
    BY AgesFacts DEF InTime
  <1>2. start \in 1 .. k /\ k \in Nat /\ k \in 1 .. Len(samples) /\ start \in 1 .. Len(samples)
    BY <1>1 DEF UnderWay
  <1>3. b \in Nat /\ t \in Nat /\ new = (IF r = assoc /\ t > b THEN t ELSE b)
    <2>1. loop.best \in [Kept -> Nat] /\ loop.run \in [state : States, time : Nat]
      BY DEF Loops
    <2>2. Longer(loop.best, loop.run)[assoc] =
             IF loop.run.state = assoc /\ loop.run.time > loop.best[assoc]
             THEN loop.run.time ELSE loop.best[assoc]
      BY Zenon, <2>1, LongerFacts
    <2> QED
      BY <2>1, <2>2
  <1>4. /\ t = ageOf(start) - ageOf(k) /\ RunOf(samples, r, start, k)
        /\ start > 1 => StateAfter(samples, start - 1) # r
        /\ LongestUpto(samples, start, assoc, b)
    BY Zenon DEF UnderWay, Spent
  <1> HIDE DEF b, r, t, new
  <1>5. ASSUME NEW m \in 1 .. k, NEW n \in 1 .. k, m <= n, RunOf(samples, assoc, m, n)
        PROVE  ageOf(m) - ageOf(n) <= new
    <2>1. CASE n <= start
      <3>1. m \in 1 .. start /\ n \in 1 .. start
        BY <1>2, <1>5, <2>1
      <3>2. ageOf(m) - ageOf(n) <= b
        BY Zenon, <1>4, <1>5, <3>1 DEF LongestUpto, Spent
      <3>3. m \in 1 .. Len(samples) /\ n \in 1 .. Len(samples)
        BY <1>1, <1>2
      <3>4. ageOf(m) \in Nat /\ ageOf(n) \in Nat
        BY <1>1, <3>3
      <3> HIDE DEF ageOf
      <3> QED
        BY <1>3, <3>2, <3>4
    <2>2. CASE n > start /\ m < n
      <3>1. n - 1 \in start .. k - 1 /\ n - 1 \in m .. n - 1
        BY <1>2, <2>2
      <3>2. StateAfter(samples, n - 1) = r /\ StateAfter(samples, n - 1) = assoc
        BY Zenon, <1>4, <1>5, <3>1 DEF RunOf
      <3>3. m >= start
        <4>1. SUFFICES ASSUME m < start PROVE FALSE
          BY <1>2
        <4>2. start > 1 /\ start - 1 \in m .. n - 1
          BY <1>2, <2>2, <4>1
        <4> QED
          BY Zenon, <1>4, <1>5, <3>2, <4>2 DEF RunOf
      <3>4. /\ m \in 1 .. Len(samples) /\ n \in 1 .. Len(samples)
            /\ m = start \/ start < m
            /\ n = k \/ n < k
        BY <1>1, <1>2, <3>3
      <3>5. /\ ageOf(m) \in Nat /\ ageOf(n) \in Nat /\ ageOf(start) \in Nat /\ ageOf(k) \in Nat
            /\ ageOf(m) <= ageOf(start) /\ ageOf(k) <= ageOf(n)
        <4>1. ageOf(m) \in Nat /\ ageOf(n) \in Nat /\ ageOf(start) \in Nat /\ ageOf(k) \in Nat
          BY <1>1, <1>2, <3>4
        <4>2. (start < m => ageOf(start) > ageOf(m)) /\ (n < k => ageOf(n) > ageOf(k))
          BY <1>1, <1>2, <3>4
        <4>3. (m = start => ageOf(m) = ageOf(start)) /\ (n = k => ageOf(n) = ageOf(k))
          OBVIOUS
        <4> HIDE DEF ageOf
        <4> QED
          BY <3>4, <4>1, <4>2, <4>3
      <3> HIDE DEF ageOf
      <3>6. ageOf(m) - ageOf(n) <= t
        BY <1>4, <3>5
      <3> QED
        BY <1>3, <3>2, <3>5, <3>6
    <2>3. CASE n > start /\ m = n
      <3>1. m \in 1 .. Len(samples)
        BY <1>1, <1>2
      <3>2. ageOf(m) \in Nat /\ ageOf(n) = ageOf(m)
        BY <1>1, <2>3, <3>1
      <3> HIDE DEF ageOf
      <3> QED
        BY <1>3, <3>2
    <2> QED
      BY <1>2, <1>5, <2>1, <2>2, <2>3
  <1>6. \E m, n \in 1 .. k : m <= n /\ RunOf(samples, assoc, m, n) /\ new = ageOf(m) - ageOf(n)
    <2>1. CASE r = assoc /\ t > b
      <3>1. start \in 1 .. k /\ k \in 1 .. k /\ start <= k
        BY <1>2
      <3>2. RunOf(samples, assoc, start, k) /\ new = ageOf(start) - ageOf(k)
        BY Zenon, <1>3, <1>4, <2>1
      <3> QED
        BY Zenon, <3>1, <3>2
    <2>2. CASE ~ (r = assoc /\ t > b)
      <3>1. PICK m, n \in 1 .. start : m <= n /\ RunOf(samples, assoc, m, n) /\ b = ageOf(m) - ageOf(n)
        BY Zenon, <1>4 DEF LongestUpto, Spent
      <3>2. m \in 1 .. k /\ n \in 1 .. k
        BY <1>2
      <3>3. new = b
        BY Zenon, <1>3, <2>2
      <3> QED
        BY Zenon, <3>1, <3>2, <3>3
    <2> QED
      BY <2>1, <2>2
  <1>7. LongestUpto(samples, k, assoc, new)
    BY Zenon, <1>5, <1>6 DEF LongestUpto, Spent
  <1> QED
    BY <1>7 DEF new

\* The first sample.
LEMMA LoopBegins ==
    ASSUME NEW samples, InTime(samples), Len(samples) > 0
    PROVE  LoopInv(samples, 1, [best |-> NoTimes, run |-> NoRun])
  <1> DEFINE loop == [best |-> NoTimes, run |-> NoRun]
  <1>1. NoTimes \in [Kept -> Nat] /\ \A assoc \in Kept : NoTimes[assoc] = 0
    BY DEF NoTimes, Kept
  <1>2. NoRun \in [state : States, time : Nat] /\ NoRun.time = 0
    BY DEF NoRun, States
  <1>3. loop \in Loops /\ loop.run.time = 0 /\ \A assoc \in Kept : loop.best[assoc] = 0
    BY <1>1, <1>2 DEF Loops
  <1>4. samples[1].age \in Nat
    BY AgesFacts
  <1>5. Spent(samples, 1, 1) = 0
    BY <1>4 DEF Spent
  <1>6. \A i : ~ (i \in 1 .. 1 - 1)
    OBVIOUS
  <1>7. 1 \in 1 .. 1 /\ ~ (1 > 1) /\ 1 <= 1 /\ 0 <= 0 /\ \A m \in 1 .. 1 : m = 1
    OBVIOUS
  <1>8. \A assoc : RunOf(samples, assoc, 1, 1)
    BY Zenon, <1>6 DEF RunOf
  <1>9. \A assoc \in Kept : LongestUpto(samples, 1, assoc, 0)
    BY Zenon, <1>5, <1>7, <1>8 DEF LongestUpto
  <1> HIDE DEF loop
  <1>10. UnderWay(samples, 1, loop, 1)
    BY Zenon, <1>3, <1>5, <1>7, <1>8, <1>9 DEF UnderWay
  <1>11. LoopInv(samples, 1, loop)
    BY Zenon, <1>3, <1>7, <1>10 DEF LoopInv
  <1> QED
    BY <1>11 DEF loop

\* One more.
LEMMA LoopGoesOn ==
    ASSUME NEW samples, InTime(samples), NEW k \in 1 .. Len(samples) - 1,
           NEW loop, LoopInv(samples, k, loop)
    PROVE  LoopInv(samples, k + 1, RunsAlong(samples, k, loop))
  <1> DEFINE assoc == StateAfter(samples, k)
             time == Elapsed(samples, k)
             next == RunsAlong(samples, k, loop)
             ageOf(i) == samples[i].age
  <1>0. PICK start \in 1 .. k : UnderWay(samples, k, loop, start)
    BY Zenon DEF LoopInv
  <1>1. /\ Len(samples) \in Nat /\ k \in 1 .. Len(samples) /\ k + 1 \in 1 .. Len(samples)
        /\ k \in Nat /\ start \in 1 .. Len(samples)
        /\ ageOf(k) \in Nat /\ ageOf(k + 1) \in Nat /\ ageOf(start) \in Nat
        /\ time \in Nat /\ assoc \in States /\ time = ageOf(k) - ageOf(k + 1)
    <2>1. Len(samples) \in Nat
      BY AgesFacts
    <2>2. /\ k \in 1 .. Len(samples) /\ k + 1 \in 1 .. Len(samples) /\ k \in Nat
          /\ start \in 1 .. Len(samples)
      BY <2>1
    <2> QED
      BY <2>1, <2>2, AgesFacts DEF Elapsed
  <1>2. /\ loop \in Loops /\ loop.best \in [Kept -> Nat] /\ loop.run \in [state : States, time : Nat]
    BY LoopsFields DEF LoopInv, Loops
  <1>3. /\ start \in 1 .. k /\ (k > 1 => start < k)
        /\ loop.run.time = ageOf(start) - ageOf(k)
        /\ \A i \in start .. k - 1 : StateAfter(samples, i) = loop.run.state
        /\ start > 1 => StateAfter(samples, start - 1) # loop.run.state
        /\ \A s \in Kept : LongestUpto(samples, start, s, loop.best[s])
    BY Zenon, <1>0 DEF UnderWay, RunOf, Spent
  <1> HIDE DEF assoc, time, next, ageOf
  <1>4. CASE assoc = loop.run.state
    <2>1. next = [loop EXCEPT !.run.time = @ + time]
      BY <1>4 DEF next, RunsAlong, assoc, time
    <2>2. /\ next \in Loops /\ next.best = loop.best /\ next.run.state = loop.run.state
          /\ next.run.time = loop.run.time + time
      BY <1>1, <1>2, <2>1 DEF Loops
    <2>3. next.run.time = ageOf(start) - ageOf(k + 1)
      BY <1>1, <1>3, <2>2
    <2>4. ASSUME NEW i \in start .. (k + 1) - 1 PROVE StateAfter(samples, i) = next.run.state
      <3>1. i = k \/ i \in start .. k - 1
        BY <1>1
      <3> QED
        BY Zenon, <1>3, <1>4, <2>2, <3>1 DEF assoc
    <2>5. start \in 1 .. k + 1 /\ start < k + 1
      BY <1>1
    <2>6. start > 1 => StateAfter(samples, start - 1) # next.run.state
      BY Zenon, <1>3, <2>2
    <2>7. \A s \in Kept : LongestUpto(samples, start, s, next.best[s])
      BY Zenon, <1>3, <2>2
    <2>8. UnderWay(samples, k + 1, next, start)
      BY Zenon, <2>3, <2>4, <2>5, <2>6, <2>7 DEF UnderWay, RunOf, Spent, ageOf
    <2> QED
      BY Zenon, <2>2, <2>5, <2>8 DEF LoopInv, next
  <1>5. CASE assoc # loop.run.state
    <2> DEFINE best == Longer(loop.best, loop.run)
    <2>1. next = [best |-> best, run |-> [state |-> assoc, time |-> time]]
      BY <1>5 DEF next, RunsAlong, assoc, time
    <2>2. best \in [Kept -> Nat]
      BY Zenon, <1>2, LongerFacts
    <2>3. \A s \in Kept : LongestUpto(samples, k, s, best[s])
      BY Zenon, <1>0, <1>1, <1>2, CloseFacts
    <2> HIDE DEF best
    <2>4. next \in Loops /\ next.best = best /\ next.run.state = assoc /\ next.run.time = time
      BY <1>1, <2>1, <2>2 DEF Loops
    <2>5. ASSUME NEW i \in k .. (k + 1) - 1 PROVE StateAfter(samples, i) = next.run.state
      <3>1. i = k
        BY <1>1
      <3> QED
        BY Zenon, <2>4, <3>1 DEF assoc
    <2>6. k \in 1 .. k + 1 /\ k < k + 1
      BY <1>1
    <2>7. k > 1 => StateAfter(samples, k - 1) # next.run.state
      <3>1. k > 1 => k - 1 \in start .. k - 1
        BY <1>1, <1>3
      <3> QED
        BY Zenon, <1>3, <1>5, <2>4, <3>1
    <2>8. UnderWay(samples, k + 1, next, k)
      BY Zenon, <1>1, <2>3, <2>4, <2>5, <2>6, <2>7 DEF UnderWay, RunOf, Spent, ageOf
    <2> QED
      BY Zenon, <2>4, <2>6, <2>8 DEF LoopInv, next
  <1> QED
    BY <1>4, <1>5

\* The runs of a history are the longest there are in it.
LEMMA LongestFacts ==
    ASSUME NEW samples, InTime(samples), Len(samples) > 0
    PROVE  /\ LongestRuns(samples) \in [Kept -> Nat]
           /\ \A assoc \in Kept :
                 LongestUpto(samples, Len(samples), assoc, LongestRuns(samples)[assoc])
  <1> DEFINE n == Len(samples)
             start == [best |-> NoTimes, run |-> NoRun]
             step(u, k) == IF k < 2 THEN start ELSE RunsAlong(samples, k - 1, u[k - 1])
             looped == CHOOSE u : u = [k \in 0 .. n |-> step(u, k)]
             body == [k \in 1 .. n |-> [l \in Loops |->
                         IF k < 2 THEN start ELSE RunsAlong(samples, k - 1, l)]]
  <1>1. LongestRuns(samples) = Longer(looped[n].best, looped[n].run)
    BY Zenon DEF LongestRuns
  <1>2. n \in Nat \ {0}
    BY AgesFacts
  <1>3. start \in Loops /\ LoopInv(samples, 1, start)
    BY LoopBegins DEF LoopInv
  <1> HIDE DEF n, start, looped
  <1>4. body \in [1 .. n -> [Loops -> Loops]]
    <2>1. ASSUME NEW k \in 1 .. n, ~ (k < 2), NEW l \in Loops
          PROVE  RunsAlong(samples, k - 1, l) \in Loops
      <3> DEFINE assoc == StateAfter(samples, k - 1)
                 time == Elapsed(samples, k - 1)
      <3>1. k - 1 \in 1 .. Len(samples) - 1
        BY <1>2, <2>1 DEF n
      <3>2. time \in Nat /\ assoc \in States
        BY <3>1, AgesFacts
      <3>3. /\ l.best \in [Kept -> Nat] /\ l.run \in [state : States, time : Nat]
            /\ Longer(l.best, l.run) \in [Kept -> Nat]
        BY LongerFacts DEF Loops
      <3>4. RunsAlong(samples, k - 1, l) = IF assoc = l.run.state
                                           THEN [l EXCEPT !.run.time = @ + time]
                                           ELSE [best |-> Longer(l.best, l.run),
                                                 run |-> [state |-> assoc, time |-> time]]
        BY DEF RunsAlong
      <3> DEFINE longer == Longer(l.best, l.run)
                 next == RunsAlong(samples, k - 1, l)
      <3> HIDE DEF assoc, time, longer, next
      <3>5. CASE assoc = l.run.state
        <4>1. next = [l EXCEPT !.run.time = @ + time]
          BY Zenon, <3>4, <3>5 DEF next
        <4>2. next \in Loops
          BY <3>2, <3>3, <4>1 DEF Loops
        <4> QED
          BY <4>2 DEF next
      <3>6. CASE assoc # l.run.state
        <4>1. next = [best |-> longer, run |-> [state |-> assoc, time |-> time]]
          BY Zenon, <3>4, <3>6 DEF next, longer
        <4>2. longer \in [Kept -> Nat]
          BY <3>3 DEF longer
        <4>3. next \in Loops
          BY <3>2, <4>1, <4>2 DEF Loops
        <4> QED
          BY <4>3 DEF next
      <3> QED
        BY <3>5, <3>6
    <2>2. ASSUME NEW k \in 1 .. n, NEW l \in Loops
          PROVE  (IF k < 2 THEN start ELSE RunsAlong(samples, k - 1, l)) \in Loops
      BY Zenon, <1>3, <2>1
    <2> QED
      BY Zenon, <2>2
  <1>5. PICK run \in [0 .. n -> Loops] :
           run[0] = start /\ \A k \in 1 .. n : run[k] = body[k][run[k - 1]]
    <2> HIDE DEF body
    <2>1. n \in Nat
      BY <1>2
    <2>2. LoopOf(n, Loops, start, body)
      BY Zenon, <1>3, <1>4, <2>1, LoopRuns
    <2> QED
      BY Zenon, <2>2 DEF LoopOf
  <1>6. \A k \in 1 .. n : run[k] = IF k < 2 THEN start ELSE RunsAlong(samples, k - 1, run[k - 1])
    <2>1. ASSUME NEW k \in 1 .. n
          PROVE  run[k] = IF k < 2 THEN start ELSE RunsAlong(samples, k - 1, run[k - 1])
      <3>1. run[k] = body[k][run[k - 1]]
        BY <1>5
      <3>2. run[k - 1] \in Loops
        BY <1>2, <1>5
      <3> QED
        BY Zenon, <3>1, <3>2
    <2> QED
      BY <2>1
  <1>7. run = [k \in 0 .. n |-> step(run, k)]
    <2>1. \A k \in 0 .. n : run[k] = step(run, k)
      <3>1. \A k \in 0 .. n : k = 0 \/ k \in 1 .. n
        BY <1>2
      <3>2. 0 < 2
        OBVIOUS
      <3> QED
        BY Zenon, <1>5, <1>6, <3>1, <3>2
    <2> HIDE DEF step
    <2> QED
      BY <1>5, <2>1
  <1>8. looped = [k \in 0 .. n |-> step(looped, k)]
    <2> HIDE DEF step
    <2> QED
      BY Zenon, <1>7 DEF looped
  <1>9. /\ looped[0] = start
        /\ \A k \in 1 .. n :
              looped[k] = IF k < 2 THEN start ELSE RunsAlong(samples, k - 1, looped[k - 1])
    <2>1. \A k \in 0 .. n : looped[k] = step(looped, k)
      <3> HIDE DEF step
      <3> QED
        BY Zenon, <1>8
    <2>2. 0 \in 0 .. n /\ 0 < 2 /\ \A k \in 1 .. n : k \in 0 .. n
      BY <1>2
    <2> QED
      BY Zenon, <2>1, <2>2
  <1> DEFINE good == {k \in 0 .. n : k = 0 \/ LoopInv(samples, k, looped[k])}
  <1>10. 0 \in good
    BY <1>2
  <1>11. ASSUME NEW k \in 1 .. n, k - 1 \in good PROVE k \in good
    <2>1. k \in 0 .. n
      BY <1>2
    <2>2. CASE k = 1
      <3>1. k < 2
        BY <2>2
      <3>2. looped[k] = start
        BY Zenon, <1>9, <3>1
      <3> QED
        BY Zenon, <1>3, <2>1, <2>2, <3>2
    <2>3. CASE k # 1
      <3>1. ~ (k < 2) /\ k - 1 # 0 /\ k - 1 \in 1 .. Len(samples) - 1 /\ (k - 1) + 1 = k
        BY <1>2, <2>3 DEF n
      <3>2. LoopInv(samples, k - 1, looped[k - 1])
        BY Zenon, <1>11, <3>1
      <3>3. looped[k] = RunsAlong(samples, k - 1, looped[k - 1])
        BY Zenon, <1>9, <3>1
      <3>4. LoopInv(samples, (k - 1) + 1, RunsAlong(samples, k - 1, looped[k - 1]))
        BY Zenon, <3>1, <3>2, LoopGoesOn
      <3>5. LoopInv(samples, k, looped[k])
        BY Zenon, <3>1, <3>3, <3>4
      <3> QED
        BY Zenon, <2>1, <3>5
    <2> QED
      BY <2>2, <2>3
  <1> HIDE DEF good
  <1>12. 0 .. n \subseteq good
    BY <1>2, <1>10, <1>11, LoopKeeps
  <1>13. LoopInv(samples, n, looped[n])
    <2>1. n \in 0 .. n /\ n # 0
      BY <1>2
    <2> QED
      BY Zenon, <1>12, <2>1 DEF good
  <1>14. PICK first : UnderWay(samples, n, looped[n], first)
    BY Zenon, <1>13 DEF LoopInv
  <1>15. n \in 1 .. Len(samples)
    BY <1>2 DEF n
  <1>16. looped[n] \in Loops
    BY Zenon, <1>13 DEF LoopInv
  <1>17. looped[n].best \in [Kept -> Nat] /\ looped[n].run \in [state : States, time : Nat]
    BY <1>16 DEF Loops
  <1>18. Longer(looped[n].best, looped[n].run) \in [Kept -> Nat]
    BY Zenon, <1>17, LongerFacts
  <1>19. \A assoc \in Kept :
            LongestUpto(samples, n, assoc, Longer(looped[n].best, looped[n].run)[assoc])
    BY Zenon, <1>14, <1>15, <1>16, CloseFacts
  <1> QED
    BY Zenon, <1>1, <1>18, <1>19 DEF n

\* The greatest of a set of numbers.
LEMMA MaxOf ==
    ASSUME NEW S \in SUBSET Int, NEW x \in S, \A y \in S : y <= x
    PROVE  Max(S) = x
  <1>1. \E z \in S : \A y \in S : z >= y
    BY DEF Max
  <1>2. Max(S) \in S /\ \A y \in S : Max(S) >= y
    BY <1>1 DEF Max
  <1>3. Max(S) >= x /\ Max(S) <= x /\ Max(S) \in Int
    BY <1>2
  <1> QED
    BY <1>3

\* The loop of the longest runs finds the longest.
LEMMA LongestIsMax ==
    ASSUME NEW samples, InTime(samples), Len(samples) > 0, NEW assoc \in Kept
    PROVE  LongestRuns(samples)[assoc] =
              Max({time \in 0 .. samples[1].age :
                     \E m, n \in DOMAIN samples :
                        /\ m <= n /\ time = samples[m].age - samples[n].age
                        /\ \A k \in m .. n - 1 : StateAfter(samples, k) = assoc})
  <1> DEFINE S == {time \in 0 .. samples[1].age :
                     \E m, n \in DOMAIN samples :
                        /\ m <= n /\ time = samples[m].age - samples[n].age
                        /\ \A k \in m .. n - 1 : StateAfter(samples, k) = assoc}
             x == LongestRuns(samples)[assoc]
  <1>1. LongestUpto(samples, Len(samples), assoc, x) /\ x \in Nat
    <2>1. LongestRuns(samples) \in [Kept -> Nat]
      BY LongestFacts
    <2> QED
      BY <2>1, LongestFacts
  <1> HIDE DEF x
  <1>2. DOMAIN samples = 1 .. Len(samples) /\ Len(samples) \in Nat
        /\ \A i \in 1 .. Len(samples) : samples[i].age \in Nat
    BY AgesFacts
  <1>3. S \in SUBSET Int
    OBVIOUS
  <1>4. x \in S
    <2>1. PICK m, n \in 1 .. Len(samples) :
             m <= n /\ RunOf(samples, assoc, m, n) /\ x = Spent(samples, m, n)
      BY Zenon, <1>1 DEF LongestUpto
    <2>2. x = samples[m].age - samples[n].age
      BY <2>1 DEF Spent
    <2>3. samples[m].age <= samples[1].age
      <3>1. CASE m = 1
        BY <1>2, <3>1
      <3>2. CASE m # 1
        <4>1. 1 < m /\ 1 \in 1 .. Len(samples)
          BY <1>2, <3>2
        <4>2. samples[1].age > samples[m].age
          BY <4>1 DEF InTime
        <4>3. samples[1].age \in Nat /\ samples[m].age \in Nat
          BY <1>2, <4>1
        <4> QED
          BY <4>2, <4>3
      <3> QED
        BY <3>1, <3>2
    <2>4. 1 \in 1 .. Len(samples)
      BY <1>2
    <2>5. samples[1].age \in Nat /\ samples[m].age \in Nat /\ samples[n].age \in Nat
      BY <1>2, <2>4
    <2>6. x \in 0 .. samples[1].age
      BY <1>1, <2>2, <2>3, <2>5
    <2> QED
      BY Zenon, <1>2, <2>1, <2>2, <2>6 DEF RunOf
  <1>5. \A y \in S : y <= x
    BY Zenon, <1>1, <1>2 DEF LongestUpto, RunOf, Spent
  <1> HIDE DEF S
  <1>6. Max(S) = x
    BY <1>3, <1>4, <1>5, MaxOf
  <1> QED
    BY <1>6 DEF S, x

\* A level that was read is a number.
LEMMA LevelType ==
    ASSUME NEW m \in Measures, "signal" \in DOMAIN m
    PROVE  m["signal"] \in Int
  BY DEF Measures

\* What the samples say of the signal can be graded.
LEMMA SignalFacts ==
    ASSUME NEW samples, InTime(samples)
    PROVE  LET signal == SignalSummary(samples)
           IN /\ signal.count \in Nat
              /\ signal.count > 0 => signal.average \in Int /\ signal.deviation \in Nat
  <1> DEFINE n == Len(samples)
             heard == {k \in DOMAIN samples : "signal" \in DOMAIN samples[k].values}
             level(k) == samples[k].values["signal"]
             count == Cardinality(heard)
             parts == [k \in DOMAIN samples |-> IF k \in heard THEN level(k) ELSE 0]
             average == Summed(parts) \div count
             squares == [k \in DOMAIN samples |->
                            IF k \in heard THEN (level(k) - average) * (level(k) - average) ELSE 0]
             variance == Summed(squares) \div count
             signal == SignalSummary(samples)
  <1>1. n \in Nat /\ DOMAIN samples = 1 .. n /\ \A k \in 1 .. n : samples[k] \in WirelessSamples
    BY AgesFacts
  <1>2. IsFiniteSet(heard) /\ count \in Nat
    <2>1. IsFiniteSet(1 .. n)
      BY <1>1, FS_Interval
    <2>2. heard \subseteq 1 .. n
      BY <1>1
    <2>3. IsFiniteSet(heard)
      BY Zenon, <2>1, <2>2, FS_Subset
    <2> QED
      BY <2>3, FS_CardinalityType
  <1>3. \A k \in heard : level(k) \in Int
    <2>1. ASSUME NEW k \in heard PROVE level(k) \in Int
      <3>1. samples[k].values \in Measures /\ "signal" \in DOMAIN samples[k].values
        BY <1>1 DEF WirelessSamples
      <3> QED
        BY <3>1, LevelType
    <2> QED
      BY <2>1
  <1>4. CASE heard = {}
    <2>1. signal = [count |-> 0]
      BY Zenon, <1>4 DEF SignalSummary
    <2> HIDE DEF signal
    <2>2. signal.count = 0
      BY <2>1
    <2> QED
      BY <2>2 DEF signal
  <1>5. CASE heard # {}
    <2> DEFINE levels == {level(k) : k \in heard}
    <2>1. signal = [count |-> count, current |-> level(Max(heard)), low |-> Min(levels),
                    high |-> Max(levels), average |-> average, deviation |-> Root(variance)]
      BY Zenon, <1>5 DEF SignalSummary
    <2>2. count \in Nat \ {0}
      <3>1. count # 0
        BY Zenon, <1>2, <1>5, FS_EmptySet
      <3> QED
        BY <1>2, <3>1
    <2> HIDE DEF heard, level, count
    <2>3. parts \in [1 .. n -> Int]
      BY <1>1, <1>3
    <2>4. Summed(parts) \in Int
      <3> HIDE DEF parts
      <3>1. PICK run : SumRun(parts, n, run)
        BY <1>1, <2>3, SummedFacts
      <3> QED
        BY <1>1, <3>1 DEF SumRun
    <2>5. average \in Int
      <3> HIDE DEF parts
      <3> QED
        BY <2>2, <2>4, DivBounds
    <2> HIDE DEF average
    <2>6. squares \in [1 .. n -> Nat]
      <3>1. ASSUME NEW x \in Int PROVE x * x \in Nat
        BY SMTT(30)
      <3>2. ASSUME NEW k \in heard PROVE (level(k) - average) * (level(k) - average) \in Nat
        <4>1. level(k) - average \in Int
          BY <1>3, <2>5
        <4> QED
          BY Zenon, <3>1, <4>1
      <3>3. 0 \in Nat
        OBVIOUS
      <3>4. \A k \in 1 .. n :
               (IF k \in heard THEN (level(k) - average) * (level(k) - average) ELSE 0) \in Nat
        BY Zenon, <3>2, <3>3
      <3> QED
        BY Zenon, <1>1, <3>4
    <2>7. Summed(squares) \in Nat
      <3> HIDE DEF squares
      <3> QED
        BY <1>1, <2>6, SumWithin
    <2> HIDE DEF squares
    <2>8. variance \in Nat
      <3>1. Summed(squares) \in Int /\ 0 * count <= Summed(squares) /\ 0 \in Int
        BY <2>2, <2>7
      <3>2. variance \in Int /\ 0 <= variance
        BY Zenon, <2>2, <3>1, DivBounds
      <3> HIDE DEF variance
      <3> QED
        BY <3>2
    <2> HIDE DEF variance
    <2>9. Root(variance) \in Nat
      BY <2>8, RootFacts
    <2> HIDE DEF signal
    <2>10. signal.count = count /\ signal.average = average /\ signal.deviation = Root(variance)
      BY <2>1
    <2> QED
      BY <2>2, <2>5, <2>9, <2>10 DEF signal
  <1> QED
    BY <1>4, <1>5

\* The summary of a history can be graded.
LEMMA SummaryFacts ==
    ASSUME NEW entry, InTime(entry.samples), Len(entry.samples) > 0, NEW S, entry.events \in Seq(S)
    PROVE  SoundSummary(Quality(entry))
  <1> DEFINE q == Quality(entry)
             samples == entry.samples
             counted(type) == Cardinality({k \in DOMAIN entry.events : entry.events[k].type = type})
  <1>1. /\ q.connected = SecondsIn(samples, "Associated")
        /\ q.disconnected = SecondsIn(samples, "Disconnected")
        /\ q.longest = LongestRuns(samples) /\ q.signal = SignalSummary(samples)
        /\ q.disconnections = counted("Disassociated")
        /\ q.unavailable = counted("InterfaceUnavailable")
    BY DEF Quality
  <1> HIDE DEF q
  <1>2. ASSUME NEW type PROVE counted(type) \in Nat
    <2> DEFINE those == {k \in DOMAIN entry.events : entry.events[k].type = type}
    <2>1. Len(entry.events) \in Nat /\ DOMAIN entry.events = 1 .. Len(entry.events)
      BY LenProperties
    <2>2. IsFiniteSet(1 .. Len(entry.events)) /\ those \subseteq 1 .. Len(entry.events)
      BY <2>1, FS_Interval
    <2> HIDE DEF those
    <2>3. IsFiniteSet(those)
      BY Zenon, <2>2, FS_Subset
    <2>4. Cardinality(those) \in Nat
      BY Zenon, <2>3, FS_CardinalityType
    <2> QED
      BY <2>4 DEF those
  <1>3. q.disconnections \in Nat /\ q.unavailable \in Nat
    <2> HIDE DEF counted
    <2> QED
      BY <1>1, <1>2
  <1> HIDE DEF samples, counted
  <1>4. /\ q.connected \in Nat /\ q.disconnected \in Nat
        /\ \A k \in 1 .. Len(samples) - 1 :
              StateAfter(samples, k) = "Disconnected" => q.disconnected > 0
    BY <1>1, TimesFacts DEF States, samples
  <1>5. /\ q.longest["Disconnected"] \in Nat
        /\ LongestUpto(samples, Len(samples), "Disconnected", q.longest["Disconnected"])
    <2>1. "Disconnected" \in Kept
      BY DEF Kept
    <2>2. /\ LongestRuns(samples) \in [Kept -> Nat]
          /\ \A assoc \in Kept :
                LongestUpto(samples, Len(samples), assoc, LongestRuns(samples)[assoc])
      BY Zenon, LongestFacts DEF samples
    <2> QED
      BY <1>1, <2>1, <2>2
  <1>6. q.disconnected = 0 => q.longest["Disconnected"] = 0
    <2> SUFFICES ASSUME q.disconnected = 0 PROVE q.longest["Disconnected"] = 0
      OBVIOUS
    <2>1. PICK m, n \in 1 .. Len(samples) :
             /\ m <= n /\ RunOf(samples, "Disconnected", m, n)
             /\ q.longest["Disconnected"] = Spent(samples, m, n)
      BY Zenon, <1>5 DEF LongestUpto
    <2>2. Len(samples) \in Nat /\ samples[m].age \in Nat
      BY AgesFacts DEF samples
    <2>3. m = n
      <3>1. SUFFICES ASSUME m # n PROVE FALSE
        OBVIOUS
      <3>2. m \in m .. n - 1 /\ m \in 1 .. Len(samples) - 1
        BY <2>1, <2>2, <3>1
      <3>3. StateAfter(samples, m) = "Disconnected"
        BY Zenon, <2>1, <3>2 DEF RunOf
      <3>4. q.disconnected > 0
        BY Zenon, <1>4, <3>2, <3>3
      <3> QED
        BY <3>4
    <2> QED
      BY <2>1, <2>2, <2>3 DEF Spent
  <1>7. q.signal.count \in Nat /\ (q.signal.count > 0 => q.signal.average \in Int /\ q.signal.deviation \in Nat)
    BY Zenon, <1>1, SignalFacts DEF samples
  <1>8. SoundSummary(q)
    BY <1>3, <1>4, <1>5, <1>6, <1>7 DEF SoundSummary
  <1> QED
    BY <1>8 DEF q

-----------------------------------------------------------------------------
(* What the wireless monitor keeps for them. *)

\* What the samples of an interface are taken from, and those it has, all taken some time ago
\* or not.
MeasuredInv(e) == DOMAIN e = RadioFields /\ e.values \in Measures /\ InTime(e.samples)
Past(samples) == \A k \in 1 .. Len(samples) : samples[k].age > 0

LEMMA NoSamples == InTime(<< >>) /\ NoValues \in Measures
  <1>1. << >> \in Seq(WirelessSamples) /\ Len(<< >>) = 0
    BY EmptySeq
  <1>2. InTime(<< >>)
    BY <1>1 DEF InTime
  <1>3. NoValues \in [{} -> Int] /\ {} \in SUBSET Metrics
    BY DEF NoValues
  <1>4. NoValues \in Measures
    BY Zenon, <1>3 DEF Measures
  <1> QED
    BY <1>2, <1>4

LEMMA MeasureOf ==
    ASSUME NEW f, DOMAIN f \subseteq Metrics, f \in [DOMAIN f -> Int]
    PROVE  f \in Measures
  BY Zenon DEF Measures

\* A reading gives measures.
LEMMA ValuesAreMeasures ==
    ASSUME NEW reading \in Readings
    PROVE  ValuesOf(reading) \in Measures
  <1>1. /\ DOMAIN reading.files \subseteq Metrics /\ DOMAIN reading.table \subseteq {"signal", "noise"}
        /\ reading.files \in [DOMAIN reading.files -> Int]
        /\ reading.table \in [DOMAIN reading.table -> Int]
    BY WirelessConstants
  <1>2. reading.files \in Measures
    BY Zenon, <1>1, MeasureOf
  <1>3. TableOf(reading.table) \in Measures
    <2> DEFINE row == reading.table
               table == TableOf(row)
    <2>1. /\ DOMAIN table \subseteq DOMAIN row
          /\ \A m \in DOMAIN table : table[m] = row[m]
          /\ table = [m \in DOMAIN table |-> table[m]]
      BY DEF TableOf
    <2>2. DOMAIN row \subseteq Metrics /\ \A m \in DOMAIN row : row[m] \in Int
      BY <1>1 DEF Metrics
    <2> HIDE DEF row, table
    <2>3. DOMAIN table \subseteq Metrics /\ table \in [DOMAIN table -> Int]
      BY <2>1, <2>2
    <2>4. table \in Measures
      BY Zenon, <2>3, MeasureOf
    <2> QED
      BY <2>4 DEF table, row
  <1> QED
    BY Zenon, <1>2, <1>3 DEF ValuesOf

\* A value kept from before is a measure too.
LEMMA MergedMeasures ==
    ASSUME NEW f \in Measures, NEW g \in Measures
    PROVE  FilledFrom(f, g) \in Measures
  <1> DEFINE h == FilledFrom(f, g)
  <1>1. h = [x \in DOMAIN f \cup DOMAIN g |-> IF x \in DOMAIN f THEN f[x] ELSE g[x]]
    BY DEF FilledFrom
  <1>2. ASSUME NEW m \in Measures PROVE DOMAIN m \subseteq Metrics /\ \A x \in DOMAIN m : m[x] \in Int
    BY DEF Measures
  <1> HIDE DEF h
  <1>3. DOMAIN h \subseteq Metrics /\ h \in [DOMAIN h -> Int]
    BY <1>1, <1>2
  <1>4. h \in Measures
    BY Zenon, <1>3, MeasureOf
  <1> QED
    BY <1>4 DEF h

\* Of one that is judged to be wireless, a sample can be taken.
LEMMA JudgedMeasures ==
    ASSUME NEW e, MeasuredInv(e), NEW reading \in Readings, NEW probe
    PROVE  LET next == Judged(e, reading, probe)
           IN /\ DOMAIN next = RadioFields /\ next.values \in Measures /\ next.samples = e.samples
              /\ IsWireless(reading, probe) => next.association \in States
              /\ next.wireless = IsWireless(reading, probe)
  <1> DEFINE next == Judged(e, reading, probe)
  <1>0. DOMAIN e = RadioFields /\ e.values \in Measures
    BY DEF MeasuredInv
  <1>1. CASE ~ IsWireless(reading, probe)
    <2>1. next = [e EXCEPT !.wireless = FALSE, !.mac = FALSE, !.ok = probe.ok, !.phy = "Unavailable",
                           !.values = NoValues, !.field = "Unavailable", !.association = "Unknown"]
      BY Zenon, <1>1 DEF Judged, NotWireless
    <2> HIDE DEF next
    <2>2. /\ DOMAIN next = RadioFields /\ next.values = NoValues /\ next.samples = e.samples
          /\ next.wireless = FALSE
      BY <1>0, <2>1 DEF RadioFields
    <2>3. next.values \in Measures
      BY Zenon, <2>2, NoSamples
    <2>4. next.wireless = IsWireless(reading, probe)
      BY Zenon, <1>1, <2>2 DEF IsWireless
    <2>5. IsWireless(reading, probe) => next.association \in States
      BY Zenon, <1>1
    <2> QED
      BY Zenon, <2>2, <2>3, <2>4, <2>5 DEF next
  <1>2. CASE IsWireless(reading, probe)
    <2> DEFINE values == FilledFrom(ValuesOf(reading), e.values)
               field == IF ValuesOf(reading) # NoValues THEN "Available"
                        ELSE IF values # NoValues THEN "Stale" ELSE "Unavailable"
               phy == PhyState(e, probe)
               association == AssociationOf(reading.carrier)
    <2>1. next = [e EXCEPT !.wireless = TRUE, !.mac = probe.mac, !.ok = probe.ok,
                           !.phy = phy, !.values = values, !.field = field,
                           !.association = association]
      BY <1>2 DEF Judged
    <2>2. association \in States
      BY DEF AssociationOf, States
    <2>3. values \in Measures
      BY Zenon, <1>0, ValuesAreMeasures, MergedMeasures
    <2> HIDE DEF values, field, phy, association, next
    <2>4. /\ DOMAIN next = RadioFields /\ next.values = values /\ next.samples = e.samples
          /\ next.association = association /\ next.wireless = TRUE
      BY <1>0, <2>1 DEF RadioFields
    <2> QED
      BY Zenon, <1>2, <2>2, <2>3, <2>4 DEF next
  <1> QED
    BY Zenon, <1>1, <1>2

\* An observation leaves measures and samples alone.
LEMMA ObservedMeasures ==
    ASSUME NEW e, DOMAIN e = RadioFields, NEW seen
    PROVE  LET next == Observed(e, seen)
           IN DOMAIN next = RadioFields /\ next.values = e.values /\ next.samples = e.samples
  <1> DEFINE step == Advanced(e.tracker, seen)
             said == IF step.events = << >> THEN "none" ELSE Head(step.events).type
             announced == IF step.events = << >> THEN e.announced ELSE Head(step.events).type
             events == Newest(e.events \o step.events, MaxLogged)
             tracker == step.tracker
             next == Observed(e, seen)
  <1>1. next = [e EXCEPT !.tracker = tracker, !.events = events, !.said = said,
                         !.announced = announced]
    BY DEF Observed
  <1> HIDE DEF said, announced, events, tracker, next
  <1>2. DOMAIN next = RadioFields /\ next.values = e.values /\ next.samples = e.samples
    BY <1>1 DEF RadioFields
  <1> QED
    BY <1>2 DEF next

\* The sample of this update.
LEMMA SampleIsOne ==
    ASSUME NEW e, DOMAIN e = RadioFields, e.values \in Measures, e.association \in States
    PROVE  SampleOf(e) \in WirelessSamples /\ SampleOf(e).age = 0
  <1> DEFINE heard == [m \in DOMAIN e.values \ {"noise"} |-> e.values[m]]
             values == IF e.field = "Available" THEN heard ELSE NoValues
             valid == e.field = "Available"
  <1>1. SampleOf(e) = [age |-> 0, association |-> e.association, valid |-> valid, values |-> values]
    BY Zenon DEF SampleOf
  <1>2. valid \in BOOLEAN
    BY Zenon
  <1>3. values \in Measures
    <2>1. DOMAIN e.values \subseteq Metrics /\ \A m \in DOMAIN e.values : e.values[m] \in Int
      BY DEF Measures
    <2>2. DOMAIN heard \subseteq Metrics /\ heard \in [DOMAIN heard -> Int]
      BY <2>1
    <2> HIDE DEF heard
    <2>3. heard \in Measures
      BY Zenon, <2>2, MeasureOf
    <2> QED
      BY Zenon, <2>3, NoSamples
  <1> HIDE DEF values, valid
  <1>4. [age |-> 0, association |-> e.association, valid |-> valid, values |-> values]
          \in WirelessSamples
    BY <1>2, <1>3 DEF WirelessSamples
  <1>5. [age |-> 0, association |-> e.association, valid |-> valid, values |-> values].age = 0
    OBVIOUS
  <1> QED
    BY Zenon, <1>1, <1>4, <1>5

\* A new sample is the youngest, and the oldest make room for it.
LEMMA TakenInTime ==
    ASSUME NEW samples, InTime(samples), Past(samples), NEW sample \in WirelessSamples,
           sample.age = 0, NEW size \in Nat \ {0}
    PROVE  InTime(Newest(Append(samples, sample), size))
  <1> DEFINE more == Append(samples, sample)
             n == Len(samples)
             cut == IF n + 1 > size THEN n + 1 - size ELSE 0
             kept == Newest(more, size)
  <1>1. n \in Nat /\ samples \in Seq(WirelessSamples) /\ \A k \in 1 .. n : samples[k].age \in Nat
    BY AgesFacts DEF InTime
  <1>2. /\ more \in Seq(WirelessSamples) /\ Len(more) = n + 1 /\ more[n + 1] = sample
        /\ \A k \in 1 .. n : more[k] = samples[k]
    BY <1>1, AppendProperties
  <1>3. cut \in Nat /\ cut <= n + 1
    BY <1>1
  <1>4. kept = SubSeq(more, cut + 1, n + 1)
    <2>1. CASE n + 1 > size
      <3>1. Len(more) > size /\ cut + 1 = Len(more) - size + 1
        BY <1>1, <1>2, <2>1
      <3> QED
        BY <1>2, <3>1 DEF Newest
    <2>2. CASE ~ n + 1 > size
      <3>1. ~ Len(more) > size /\ kept = more /\ cut + 1 = 1
        BY <1>1, <1>2, <2>2 DEF Newest
      <3> QED
        BY <1>2, <3>1
    <2> QED
      BY <2>1, <2>2
  <1> HIDE DEF more, n, cut, kept
  <1>5. ASSUME NEW j \in 1 .. n + 1, NEW k \in 1 .. n + 1, j < k PROVE more[j].age > more[k].age
    <2>1. j \in 1 .. n /\ more[j] = samples[j] /\ samples[j].age > 0
      BY <1>1, <1>2, <1>5 DEF Past, n
    <2>2. CASE k = n + 1
      BY <1>2, <2>1, <2>2
    <2>3. CASE k # n + 1
      <3>1. k \in 1 .. n /\ more[k] = samples[k]
        BY <1>1, <1>2, <2>3
      <3>2. samples[j].age > samples[k].age
        BY <1>5, <2>1, <3>1 DEF InTime, n
      <3> QED
        BY <2>1, <3>1, <3>2
    <2> QED
      BY <2>2, <2>3
  <1>6. /\ kept \in Seq(WirelessSamples) /\ Len(kept) = n + 1 - cut
        /\ \A i \in 1 .. n + 1 - cut : kept[i] = more[cut + i]
    <2>1. \A i \in cut + 1 .. n + 1 : more[i] \in WirelessSamples
      BY <1>1, <1>2, <1>3, ElementOfSeq
    <2>3. cut + 1 \in Int /\ n + 1 \in Int
      BY <1>1, <1>3
    <2> DEFINE last == n + 1
    <2>2. /\ SubSeq(more, cut + 1, last) \in Seq(WirelessSamples)
          /\ Len(SubSeq(more, cut + 1, last)) =
                IF cut + 1 <= last THEN last - (cut + 1) + 1 ELSE 0
          /\ \A i \in 1 .. last - (cut + 1) + 1 :
                SubSeq(more, cut + 1, last)[i] = more[cut + 1 + i - 1]
      <3>1. last \in Int /\ cut + 1 \in Int /\ \A i \in cut + 1 .. last : more[i] \in WirelessSamples
        BY <2>1, <2>3
      <3> HIDE DEF last
      <3> QED
        BY <3>1, SubSeqProperties
    <2> QED
      BY <1>1, <1>3, <1>4, <2>2
  <1>7. ASSUME NEW j \in 1 .. Len(kept), NEW k \in 1 .. Len(kept), j < k
        PROVE  kept[j].age > kept[k].age
    <2>1. /\ cut + j \in 1 .. n + 1 /\ cut + k \in 1 .. n + 1 /\ cut + j < cut + k
          /\ kept[j] = more[cut + j] /\ kept[k] = more[cut + k]
      BY <1>1, <1>3, <1>6, <1>7
    <2>2. more[cut + j].age > more[cut + k].age
      BY Zenon, <1>5, <2>1
    <2> QED
      BY <2>1, <2>2
  <1>8. InTime(kept)
    BY <1>6, <1>7 DEF InTime
  <1> QED
    BY <1>8 DEF kept, more

\* Time passes.
LEMMA AgedMeasures ==
    ASSUME NEW entries, NEW step \in Steps, NEW d \in DOMAIN entries, MeasuredInv(entries[d])
    PROVE  LET next == Aged(entries, step)[d] IN MeasuredInv(next) /\ Past(next.samples)
  <1> DEFINE e == entries[d]
             next == Aged(entries, step)[d]
             old == e.samples
             samples == AgedSamples(old, step)
             since == IF e.tracker.since > ResetGap \/ e.tracker.confirmed = "none"
                      THEN e.tracker.since ELSE e.tracker.since + step.wall
             tracker == [e.tracker EXCEPT !.since = since]
             by == step.steady
             n == Len(old)
  <1>1. next = [e EXCEPT !.samples = samples, !.tracker = tracker, !.said = "none"]
    BY DEF Aged
  <1>2. by \in Nat \ {0}
    BY WirelessConstants
  <1>3. e.values \in Measures /\ DOMAIN e = RadioFields /\ InTime(old)
    BY DEF MeasuredInv
  <1>4. /\ n \in Nat /\ DOMAIN old = 1 .. n
        /\ \A k \in 1 .. n : old[k] \in WirelessSamples /\ old[k].age \in Nat
    BY <1>3, AgesFacts
  <1>5. samples = [k \in 1 .. n |-> [old[k] EXCEPT !.age = @ + by]]
    BY Zenon, <1>4 DEF AgedSamples
  <1> HIDE DEF samples, tracker, old, n, by, next, e
  <1>6. \A k \in 1 .. n : samples[k] \in WirelessSamples /\ samples[k].age = old[k].age + by
    <2>1. ASSUME NEW k \in 1 .. n PROVE samples[k] \in WirelessSamples /\ samples[k].age = old[k].age + by
      <3> DEFINE s == old[k]
      <3>1. samples[k] = [s EXCEPT !.age = @ + by] /\ s \in WirelessSamples
        BY <1>4, <1>5
      <3> HIDE DEF s
      <3>2. samples[k] \in WirelessSamples /\ samples[k].age = s.age + by
        BY <1>2, <3>1 DEF WirelessSamples
      <3> QED
        BY <3>2 DEF s
    <2> QED
      BY <2>1
  <1>7. samples \in Seq(WirelessSamples) /\ Len(samples) = n
    <2>1. samples \in [1 .. n -> WirelessSamples]
      BY Zenon, <1>5, <1>6
    <2>2. samples \in Seq(WirelessSamples)
      BY <1>4, <2>1, SeqDef
    <2>3. Len(samples) \in Nat /\ 1 .. Len(samples) = 1 .. n
      BY <2>1, <2>2, LenProperties
    <2> QED
      BY <1>4, <2>2, <2>3
  <1>8. \A j, k \in 1 .. n : j < k => samples[j].age > samples[k].age
    <2>1. ASSUME NEW j \in 1 .. n, NEW k \in 1 .. n, j < k PROVE samples[j].age > samples[k].age
      <3>1. old[j].age > old[k].age
        BY <1>3, <2>1 DEF InTime, n
      <3>2. /\ samples[j].age = old[j].age + by /\ samples[k].age = old[k].age + by
            /\ old[j].age \in Nat /\ old[k].age \in Nat
        BY <1>4, <1>6
      <3> QED
        BY <1>2, <3>1, <3>2
    <2> QED
      BY <2>1
  <1>9. InTime(samples)
    BY Zenon, <1>7, <1>8 DEF InTime
  <1>10. Past(samples)
    <2>1. ASSUME NEW k \in 1 .. n PROVE samples[k].age > 0
      <3>1. samples[k].age = old[k].age + by /\ old[k].age \in Nat
        BY <1>4, <1>6
      <3> QED
        BY <1>2, <3>1
    <2> QED
      BY Zenon, <1>7, <2>1 DEF Past
  <1>11. DOMAIN next = RadioFields /\ next.values = e.values /\ next.samples = samples
    BY <1>1, <1>3 DEF RadioFields
  <1>12. MeasuredInv(next) /\ Past(next.samples)
    BY Zenon, <1>3, <1>9, <1>10, <1>11 DEF MeasuredInv
  <1> QED
    BY <1>12 DEF next

\* One that is new.
LEMMA NoRadioMeasures == MeasuredInv(NoRadio) /\ Past(NoRadio.samples)
  <1>1. DOMAIN NoRadio = RadioFields /\ NoRadio.values = NoValues /\ NoRadio.samples = << >>
    BY DEF NoRadio, RadioFields
  <1>2. Past(<< >>)
    <2>1. Len(<< >>) = 0
      BY EmptySeq
    <2> QED
      BY <2>1 DEF Past
  <1> QED
    BY Zenon, <1>1, <1>2, NoSamples DEF MeasuredInv

\* An interface that the snapshot has.
LEMMA FedMeasures ==
    ASSUME NEW e, MeasuredInv(e), Past(e.samples), NEW known, NEW reading \in Readings, NEW due,
           retained \in Nat \ {0}
    PROVE  MeasuredInv(Fed(known, e, reading, due))
  <1> DEFINE probe == ProbeNow(known, e, reading, due)
             judged == Judged(e, reading, probe)
             next == Fed(known, e, reading, due)
  <1>1. /\ DOMAIN judged = RadioFields /\ judged.values \in Measures /\ judged.samples = e.samples
        /\ judged.wireless => judged.association \in States
    BY Zenon, JudgedMeasures
  <1>2. CASE judged.wireless
    <2> DEFINE samples == Newest(Append(judged.samples, SampleOf(judged)), retained)
               fed == [judged EXCEPT !.samples = samples, !.present = TRUE, !.missing = 0]
               seen == ObservationOf(judged, TRUE)
    <2>1. next = Observed(fed, seen)
      BY <1>2 DEF Fed
    <2>2. InTime(samples)
      <3>1. SampleOf(judged) \in WirelessSamples /\ SampleOf(judged).age = 0
        BY Zenon, <1>1, <1>2, SampleIsOne
      <3>2. InTime(e.samples)
        BY DEF MeasuredInv
      <3> HIDE DEF judged
      <3> QED
        BY Zenon, <1>1, <3>1, <3>2, TakenInTime
    <2> HIDE DEF samples, judged, seen
    <2>3. DOMAIN fed = RadioFields /\ fed.values = judged.values /\ fed.samples = samples
      BY <1>1 DEF RadioFields
    <2> HIDE DEF fed, next
    <2>4. DOMAIN next = RadioFields /\ next.values = fed.values /\ next.samples = fed.samples
      BY Zenon, <2>1, <2>3, ObservedMeasures
    <2>5. MeasuredInv(next)
      BY Zenon, <1>1, <2>2, <2>3, <2>4 DEF MeasuredInv
    <2> QED
      BY <2>5 DEF next
  <1>3. CASE ~ judged.wireless
    <2>1. next = [judged EXCEPT !.samples = << >>, !.events = << >>, !.tracker = NoTracker,
                                !.present = TRUE, !.missing = 0, !.announced = "none"]
      BY <1>3 DEF Fed
    <2> HIDE DEF judged, next
    <2>2. DOMAIN next = RadioFields /\ next.values = judged.values /\ next.samples = << >>
      BY <1>1, <2>1 DEF RadioFields
    <2>3. MeasuredInv(next)
      BY Zenon, <1>1, <2>2, NoSamples DEF MeasuredInv
    <2> QED
      BY <2>3 DEF next
  <1> QED
    BY Zenon, <1>2, <1>3

\* One that it does not have.
LEMMA MissedMeasures ==
    ASSUME NEW e, MeasuredInv(e)
    PROVE  MeasuredInv(Missed(e))
  <1> DEFINE next == Missed(e)
  <1>0. DOMAIN e = RadioFields
    BY DEF MeasuredInv
  <1>1. CASE e.present
    <2> DEFINE seen == Observed(e, ObservationOf(e, FALSE))
               missing == IF e.tracker.since > ResetGap THEN 0 ELSE 1
    <2>1. next = [seen EXCEPT !.present = FALSE, !.missing = missing]
      BY <1>1 DEF Missed
    <2>2. DOMAIN seen = RadioFields /\ seen.values = e.values /\ seen.samples = e.samples
      BY Zenon, <1>0, ObservedMeasures
    <2> HIDE DEF seen, missing, next
    <2>3. DOMAIN next = RadioFields /\ next.values = seen.values /\ next.samples = seen.samples
      BY <2>1, <2>2 DEF RadioFields
    <2>4. MeasuredInv(next)
      BY Zenon, <2>2, <2>3 DEF MeasuredInv
    <2> QED
      BY <2>4 DEF next
  <1>2. CASE ~ e.present
    <2> DEFINE missing == IF e.missing \in {0, Debounce} \/ e.tracker.since > ResetGap
                          THEN e.missing ELSE e.missing + 1
    <2>1. next = [e EXCEPT !.missing = missing]
      BY <1>2 DEF Missed
    <2> HIDE DEF missing, next
    <2>2. DOMAIN next = RadioFields /\ next.values = e.values /\ next.samples = e.samples
      BY <1>0, <2>1 DEF RadioFields
    <2>3. MeasuredInv(next)
      BY Zenon, <2>2 DEF MeasuredInv
    <2> QED
      BY <2>3 DEF next
  <1> QED
    BY <1>1, <1>2

QualityInv == retained \in Nat \ {0} /\ \A d \in DOMAIN radio : MeasuredInv(radio[d])

LEMMA UpdateKeepsQuality ==
    ASSUME QualityInv, WirelessUpdate
    PROVE  QualityInv'
  <1>1. PICK step \in Steps, found \in Snapshots, reading \in Readings, due \in BOOLEAN :
          LET old == Aged(radio, step)
              entries == [d \in DOMAIN old \cup found |->
                            IF d \notin found THEN Missed(old[d])
                            ELSE IF d \in DOMAIN old THEN Fed(TRUE, old[d], reading, due)
                            ELSE Fed(FALSE, NoRadio, reading, due)]
          IN \E out \in Evictions(entries) :
                /\ radio' = [d \in DOMAIN entries \ out |-> entries[d]]
                /\ warned' = Warned(radio')
    BY Zenon DEF WirelessUpdate
  <1> DEFINE old == Aged(radio, step)
             entries == [d \in DOMAIN old \cup found |->
                            IF d \notin found THEN Missed(old[d])
                            ELSE IF d \in DOMAIN old THEN Fed(TRUE, old[d], reading, due)
                            ELSE Fed(FALSE, NoRadio, reading, due)]
  <1>2. PICK out : radio' = [d \in DOMAIN entries \ out |-> entries[d]]
    BY Zenon, <1>1
  <1>3. DOMAIN old = DOMAIN radio
    BY DEF Aged
  <1>4. \A d \in DOMAIN radio : MeasuredInv(old[d]) /\ Past(old[d].samples)
    BY Zenon, AgedMeasures DEF QualityInv
  <1>5. retained \in Nat \ {0}
    BY DEF QualityInv
  <1> HIDE DEF old
  <1>6. ASSUME NEW d \in DOMAIN entries PROVE MeasuredInv(entries[d])
    <2>1. entries[d] = IF d \notin found THEN Missed(old[d])
                       ELSE IF d \in DOMAIN old THEN Fed(TRUE, old[d], reading, due)
                       ELSE Fed(FALSE, NoRadio, reading, due)
      BY Zenon
    <2>2. d \in DOMAIN radio \/ d \in found
      BY Zenon, <1>3
    <2> HIDE DEF entries
    <2>3. CASE d \notin found
      BY Zenon, <1>4, <2>1, <2>2, <2>3, MissedMeasures
    <2>4. CASE d \in found /\ d \in DOMAIN old
      BY Zenon, <1>3, <1>4, <1>5, <2>1, <2>4, FedMeasures
    <2>5. CASE d \in found /\ d \notin DOMAIN old
      BY Zenon, <1>5, <2>1, <2>5, FedMeasures, NoRadioMeasures
    <2> QED
      BY Zenon, <2>3, <2>4, <2>5
  <1> HIDE DEF entries
  <1>7. \A d \in DOMAIN radio' : d \in DOMAIN entries /\ radio'[d] = entries[d]
    BY Zenon, <1>2
  <1>8. retained' \in Nat \ {0}
    BY <1>5 DEF WirelessUpdate
  <1>9. \A d \in DOMAIN radio' : MeasuredInv(radio'[d])
    BY Zenon, <1>6, <1>7
  <1> QED
    BY Zenon, <1>8, <1>9 DEF QualityInv

LEMMA UnreadableKeepsQuality ==
    ASSUME QualityInv, WirelessUnreadable
    PROVE  QualityInv'
  <1>1. PICK step \in Steps :
          radio' = [d \in DOMAIN Aged(radio, step) |->
                      [Aged(radio, step)[d] EXCEPT
                          !.field = IF @ = "Available" THEN "Stale" ELSE @,
                          !.phy = IF @ = "Available" THEN "Stale" ELSE @]]
    BY Zenon DEF WirelessUnreadable
  <1>2. retained' \in Nat \ {0}
    BY DEF WirelessUnreadable, QualityInv
  <1>3. DOMAIN radio' = DOMAIN radio
    BY <1>1 DEF Aged
  <1>4. ASSUME NEW d \in DOMAIN radio PROVE MeasuredInv(radio'[d])
    <2> DEFINE e == Aged(radio, step)[d]
               next == radio'[d]
    <2>1. MeasuredInv(e)
      BY Zenon, AgedMeasures DEF QualityInv
    <2>2. next = [e EXCEPT !.field = IF @ = "Available" THEN "Stale" ELSE @,
                           !.phy = IF @ = "Available" THEN "Stale" ELSE @]
      BY <1>1, <1>3
    <2> HIDE DEF e, next
    <2>3. DOMAIN next = RadioFields /\ next.values = e.values /\ next.samples = e.samples
      BY <2>1, <2>2 DEF MeasuredInv, RadioFields
    <2>4. MeasuredInv(next)
      BY Zenon, <2>1, <2>3 DEF MeasuredInv
    <2> QED
      BY <2>4 DEF next
  <1> QED
    BY Zenon, <1>2, <1>3, <1>4 DEF QualityInv

LEMMA ResizeKeepsQuality ==
    ASSUME QualityInv, NEW size \in WirelessRooms, SetWirelessHistory(size)
    PROVE  QualityInv'
  <1>1. /\ radio' = [d \in DOMAIN radio |->
                       [radio[d] EXCEPT !.samples = << >>, !.events = << >>]]
        /\ retained' = size
    BY DEF SetWirelessHistory
  <1>2. size \in Nat \ {0}
    BY WirelessConstants
  <1>3. ASSUME NEW d \in DOMAIN radio PROVE MeasuredInv(radio'[d])
    <2> DEFINE e == radio[d]
               next == radio'[d]
    <2>1. MeasuredInv(e)
      BY DEF QualityInv
    <2>2. next = [e EXCEPT !.samples = << >>, !.events = << >>]
      BY <1>1
    <2> HIDE DEF e, next
    <2>3. DOMAIN next = RadioFields /\ next.values = e.values /\ next.samples = << >>
      BY <2>1, <2>2 DEF MeasuredInv, RadioFields
    <2>4. MeasuredInv(next)
      BY Zenon, <2>1, <2>3, NoSamples DEF MeasuredInv
    <2> QED
      BY <2>4 DEF next
  <1>4. DOMAIN radio' = DOMAIN radio
    BY <1>1
  <1> QED
    BY Zenon, <1>1, <1>2, <1>3, <1>4 DEF QualityInv

LEMMA QualityInvHolds == WirelessSpec => []QualityInv
  <1>1. WirelessInit => QualityInv
    BY WirelessConstants DEF WirelessInit, QualityInv, NoRadios
  <1>2. QualityInv /\ [WirelessNext]_wirelessVars => QualityInv'
    <2> SUFFICES ASSUME QualityInv, [WirelessNext]_wirelessVars PROVE QualityInv'
      OBVIOUS
    <2>1. CASE WirelessUpdate
      BY <2>1, UpdateKeepsQuality
    <2>2. CASE WirelessUnreadable
      BY <2>2, UnreadableKeepsQuality
    <2>3. ASSUME NEW size \in WirelessRooms, SetWirelessHistory(size) PROVE QualityInv'
      BY <2>3, ResizeKeepsQuality
    <2>4. CASE UNCHANGED wirelessVars
      BY <2>4 DEF QualityInv, wirelessVars
    <2> QED
      BY <2>1, <2>2, <2>3, <2>4 DEF WirelessNext
  <1> QED
    BY <1>1, <1>2, PTL DEF WirelessSpec

\* The summary of a wireless interface (summarizeWirelessQuality) divides the time of its
\* samples without a rest, its longest runs are the longest there are, and the grade
\* (assessWirelessStability) is at best fair when it was never connected and at least good
\* when nothing ever took the connection away, whatever signal was measured or missing, for
\* any readings, steps of time, sizes of the history and thresholds.
THEOREM GradesAreOfConnection == WirelessSpec => []GradesFollowConnection
  <1>1. WirelessInv /\ QualityInv => GradesFollowConnection
    <2> SUFFICES ASSUME WirelessInv, QualityInv, NEW d \in DOMAIN radio, Len(radio[d].samples) > 1
                 PROVE  LET samples == radio[d].samples
                            q == Quality(radio[d])
                        IN /\ q.connected + q.disconnected + q.unobserved
                                 = samples[1].age - Last(samples).age
                           /\ \A assoc \in {"Associated", "Disconnected"} :
                                 q.longest[assoc] = Max({time \in 0 .. samples[1].age :
                                    \E m, n \in DOMAIN samples :
                                        /\ m <= n /\ time = samples[m].age - samples[n].age
                                        /\ \A k \in m .. n - 1 : StateAfter(samples, k) = assoc})
                           /\ q.connected = 0 => Stability(q) \in {"Unknown", "Poor", "Fair"}
                           /\ q.disconnected + q.disconnections + q.unavailable = 0 =>
                                 Stability(q) \in {"Unknown", "Good", "Excellent"}
      BY Zenon DEF GradesFollowConnection
    <2> DEFINE samples == radio[d].samples
               q == Quality(radio[d])
    <2>1. InTime(samples) /\ radio[d].events \in Seq(SeenEvents)
      BY Zenon DEF QualityInv, MeasuredInv, WirelessInv, RadioInv, EventsInv
    <2>2. Len(samples) \in Nat /\ Len(samples) > 0
      <3>1. Len(samples) \in Nat
        BY <2>1, AgesFacts
      <3> QED
        BY <3>1
    <2>3. SoundSummary(q)
      BY Zenon, <2>1, <2>2, SummaryFacts
    <2>4. /\ q.connected = 0 => Stability(q) \in {"Unknown", "Poor", "Fair"}
          /\ q.disconnected + q.disconnections + q.unavailable = 0 =>
                Stability(q) \in {"Unknown", "Good", "Excellent"}
      BY Zenon, <2>3, GradeFacts
    <2>5. /\ q.connected = SecondsIn(samples, "Associated")
          /\ q.disconnected = SecondsIn(samples, "Disconnected")
          /\ q.unobserved = SecondsIn(samples, "Unknown") /\ q.longest = LongestRuns(samples)
      BY DEF Quality
    <2>6. Last(samples) = samples[Len(samples)]
      BY DEF Last
    <2> HIDE DEF samples, q
    <2>7. q.connected + q.disconnected + q.unobserved = samples[1].age - Last(samples).age
      BY Zenon, <2>1, <2>2, <2>5, <2>6, TimesFacts
    <2>8. \A assoc \in Kept :
             q.longest[assoc] = Max({time \in 0 .. samples[1].age :
                                    \E m, n \in DOMAIN samples :
                                        /\ m <= n /\ time = samples[m].age - samples[n].age
                                        /\ \A k \in m .. n - 1 : StateAfter(samples, k) = assoc})
      <3>1. TAKE assoc \in Kept
      <3>2. LongestRuns(samples)[assoc] =
               Max({time \in 0 .. samples[1].age :
                      \E m, n \in DOMAIN samples :
                          /\ m <= n /\ time = samples[m].age - samples[n].age
                          /\ \A k \in m .. n - 1 : StateAfter(samples, k) = assoc})
        BY <2>1, <2>2, LongestIsMax
      <3> QED
        BY Zenon, <2>5, <3>2
    <2> QED
      BY Zenon, <2>4, <2>7, <2>8 DEF Kept, samples, q
  <1> QED
    BY <1>1, WirelessInvHolds, QualityInvHolds, PTL

-----------------------------------------------------------------------------
(* Link metrics.                                                           *)

CardFields == {"present", "physical", "active", "first", "speed", "duplex"}
SpeedReports == {r \in Reports : UsableSpeed(r.speed)}
DuplexReports == {r \in Reports : Usable(r.duplex)}

\* The usable reports since an interface was physical for the last time.
GoodReports(reports, usable) ==
    {n \in DOMAIN reports : reports[n] \in usable /\ \A k \in n .. Len(reports) : reports[k].physical}

LastGood(reports, usable, n) ==
    /\ n \in GoodReports(reports, usable)
    /\ \A k \in GoodReports(reports, usable) : k <= n

\* The state of a field that was reported last by report n.
Standing(reports, n) ==
    IF n = Len(reports) /\ reports[n].active THEN "Valid" ELSE "Stale"

\* What a field says of the reports: key names it in them.
FieldInv(field, reports, usable, key) ==
    /\ DOMAIN field = {"value", "known", "state"}
    /\ \/ /\ GoodReports(reports, usable) = {}
          /\ field.known = FALSE /\ field.state = "Unavailable"
       \/ /\ field.known = TRUE
          /\ \E n \in 1 .. Len(reports) :
                /\ LastGood(reports, usable, n)
                /\ field.value = reports[n][key] /\ field.state = Standing(reports, n)

LEMMA ReportFacts ==
    ASSUME NEW r \in Reports
    PROVE  r.physical \in BOOLEAN /\ r.active \in BOOLEAN
  BY LinkMetricsConstants

\* One more report.
LEMMA GoodReportsGrow ==
    ASSUME NEW reports \in Seq(Reports), NEW r \in Reports, NEW usable
    PROVE  LET more == Append(reports, r)
           IN /\ more \in Seq(Reports) /\ Len(more) = Len(reports) + 1
              /\ \A i \in 1 .. Len(reports) : more[i] = reports[i]
              /\ more[Len(reports) + 1] = r
              /\ ~ r.physical => GoodReports(more, usable) = {}
              /\ r.physical =>
                    GoodReports(more, usable) =
                       GoodReports(reports, usable)
                          \cup {n \in {Len(reports) + 1} : r \in usable}
  <1> DEFINE more == Append(reports, r)
             top == Len(reports) + 1
  <1>1. /\ more \in Seq(Reports) /\ Len(more) = top
        /\ \A i \in 1 .. Len(reports) : more[i] = reports[i]
        /\ more[top] = r
    BY AppendProperties
  <1>2. Len(reports) \in Nat /\ DOMAIN reports = 1 .. Len(reports)
    BY LenProperties
  <1>3. DOMAIN more = 1 .. top
    BY <1>1, LenProperties
  <1> HIDE DEF more
  <1>4. ASSUME ~ r.physical PROVE GoodReports(more, usable) = {}
    <2> SUFFICES ASSUME NEW n \in GoodReports(more, usable) PROVE FALSE
      OBVIOUS
    <2>1. n \in 1 .. top /\ \A k \in n .. top : more[k].physical
      BY <1>1, <1>3 DEF GoodReports
    <2>2. top \in n .. top
      BY <1>2, <2>1
    <2> QED
      BY Zenon, <1>1, <1>4, <2>1, <2>2
  <1>5. ASSUME r.physical
        PROVE  GoodReports(more, usable) =
                  GoodReports(reports, usable) \cup {n \in {top} : r \in usable}
    <2>1. ASSUME NEW n \in GoodReports(more, usable)
          PROVE  n \in GoodReports(reports, usable) \cup {m \in {top} : r \in usable}
      <3>1. /\ n \in 1 .. top /\ more[n] \in usable
            /\ \A k \in n .. top : more[k].physical
        BY <1>1, <1>3, <2>1 DEF GoodReports
      <3>2. CASE n = top
        BY <1>1, <3>1, <3>2
      <3>3. CASE n # top
        <4>1. n \in 1 .. Len(reports)
          BY <1>2, <3>1, <3>3
        <4>2. ASSUME NEW k \in n .. Len(reports) PROVE reports[k].physical
          <5>1. k \in n .. top /\ k \in 1 .. Len(reports)
            BY <1>2, <4>1, <4>2
          <5> QED
            BY Zenon, <1>1, <3>1, <5>1
        <4>3. reports[n] \in usable
          BY <1>1, <3>1, <4>1
        <4> QED
          BY <1>2, <4>1, <4>2, <4>3 DEF GoodReports
      <3> QED
        BY <3>2, <3>3
    <2>2. ASSUME NEW n \in GoodReports(reports, usable)
          PROVE  n \in GoodReports(more, usable)
      <3>1. /\ n \in 1 .. Len(reports) /\ reports[n] \in usable
            /\ \A k \in n .. Len(reports) : reports[k].physical
        BY <1>2, <2>2 DEF GoodReports
      <3>2. ASSUME NEW k \in n .. top PROVE more[k].physical
        <4>1. k = top \/ (k \in n .. Len(reports) /\ k \in 1 .. Len(reports))
          BY <1>2, <3>1, <3>2
        <4> QED
          BY Zenon, <1>1, <1>5, <3>1, <4>1
      <3>3. n \in 1 .. top /\ more[n] \in usable
        BY <1>1, <1>2, <3>1
      <3> QED
        BY <1>1, <1>3, <3>2, <3>3 DEF GoodReports
    <2>3. ASSUME r \in usable PROVE top \in GoodReports(more, usable)
      <3>1. \A k \in top .. top : more[k].physical
        <4>1. \A k \in top .. top : k = top
          BY <1>2
        <4> QED
          BY Zenon, <1>1, <1>5, <4>1
      <3>2. top \in 1 .. top
        BY <1>2
      <3> QED
        BY <1>1, <1>3, <2>3, <3>1, <3>2 DEF GoodReports
    <2> QED
      BY <2>1, <2>2, <2>3
  <1> QED
    BY <1>1, <1>4, <1>5 DEF more

LEMMA UnreportedField ==
    ASSUME NEW reports, NEW usable, NEW key, NEW nothing, GoodReports(reports, usable) = {}
    PROVE  FieldInv(Unreported(nothing), reports, usable, key)
  <1>1. /\ DOMAIN Unreported(nothing) = {"value", "known", "state"}
        /\ Unreported(nothing).known = FALSE /\ Unreported(nothing).state = "Unavailable"
    BY DEF Unreported
  <1> QED
    BY <1>1 DEF FieldInv

\* A report of a physical interface.
LEMMA FieldAbsorbs ==
    ASSUME NEW field, NEW reports \in Seq(Reports), NEW usable, NEW key, NEW r \in Reports,
           FieldInv(field, reports, usable, key), r.physical,
           NEW isUsable \in BOOLEAN, isUsable <=> r \in usable
    PROVE  FieldInv(Absorbed(field, r[key], isUsable, r.active), Append(reports, r), usable, key)
  <1> DEFINE more == Append(reports, r)
             next == Absorbed(field, r[key], isUsable, r.active)
             top == Len(reports) + 1
  <1>1. /\ Len(more) = top
        /\ \A i \in 1 .. Len(reports) : more[i] = reports[i]
        /\ more[top] = r
        /\ GoodReports(more, usable) =
              GoodReports(reports, usable) \cup {n \in {top} : r \in usable}
    BY GoodReportsGrow
  <1>2. Len(reports) \in Nat /\ DOMAIN reports = 1 .. Len(reports)
    BY LenProperties
  <1>3. GoodReports(reports, usable) \subseteq 1 .. Len(reports)
    BY <1>2 DEF GoodReports
  <1> HIDE DEF more
  <1>4. CASE r \in usable
    <2>1. next = [value |-> r[key], known |-> TRUE,
                  state |-> IF r.active THEN "Valid" ELSE "Stale"]
      BY <1>4 DEF Absorbed
    <2> HIDE DEF next
    <2>2. /\ DOMAIN next = {"value", "known", "state"} /\ next.known = TRUE
          /\ next.value = r[key] /\ next.state = IF r.active THEN "Valid" ELSE "Stale"
      BY <2>1
    <2>3. LastGood(more, usable, top)
      BY <1>1, <1>2, <1>3, <1>4 DEF LastGood
    <2>4. next.state = Standing(more, top) /\ next.value = more[top][key]
      BY <1>1, <2>2 DEF Standing
    <2>5. top \in 1 .. Len(more)
      BY <1>1, <1>2
    <2>6. FieldInv(next, more, usable, key)
      BY Zenon, <2>2, <2>3, <2>4, <2>5 DEF FieldInv
    <2> QED
      BY <2>6 DEF next, more
  <1>5. CASE r \notin usable
    <2> DEFINE mark == IF field.known THEN "Stale" ELSE "Unavailable"
    <2>1. next = [field EXCEPT !.state = mark]
      BY <1>5 DEF Absorbed
    <2> HIDE DEF next, mark
    <2>2. /\ DOMAIN next = {"value", "known", "state"} /\ next.known = field.known
          /\ next.value = field.value /\ next.state = mark
      BY <2>1 DEF FieldInv
    <2>3. GoodReports(more, usable) = GoodReports(reports, usable)
      BY <1>1, <1>5
    <2>4. CASE /\ GoodReports(reports, usable) = {} /\ field.known = FALSE
      <3>1. mark = "Unavailable"
        BY <2>4 DEF mark
      <3>2. FieldInv(next, more, usable, key)
        BY <2>2, <2>3, <2>4, <3>1 DEF FieldInv
      <3> QED
        BY <3>2 DEF next, more
    <2>5. CASE /\ field.known = TRUE
               /\ \E n \in 1 .. Len(reports) :
                     /\ LastGood(reports, usable, n)
                     /\ field.value = reports[n][key] /\ field.state = Standing(reports, n)
      <3>1. PICK n \in 1 .. Len(reports) :
                     /\ LastGood(reports, usable, n) /\ field.value = reports[n][key]
        BY Zenon, <2>5
      <3>2. mark = "Stale"
        BY <2>5 DEF mark
      <3>3. n # Len(more) /\ n \in 1 .. Len(more)
        BY <1>1, <1>2
      <3>4. Standing(more, n) = "Stale"
        BY <3>3 DEF Standing
      <3>5. LastGood(more, usable, n)
        BY <2>3, <3>1 DEF LastGood
      <3>6. next.value = more[n][key]
        BY <1>1, <2>2, <3>1
      <3>7. FieldInv(next, more, usable, key)
        BY Zenon, <2>2, <2>5, <3>2, <3>3, <3>4, <3>5, <3>6 DEF FieldInv
      <3> QED
        BY <3>7 DEF next, more
    <2> QED
      BY Zenon, <2>4, <2>5 DEF FieldInv
  <1> QED
    BY <1>4, <1>5

\* What is known of an interface, and what was told of it.
CardInv(entry, reports) ==
    /\ DOMAIN entry = CardFields
    /\ reports \in Seq(Reports)
    /\ FieldInv(entry.speed, reports, SpeedReports, "speed")
    /\ FieldInv(entry.duplex, reports, DuplexReports, "duplex")
    /\ entry.physical \/ (entry.speed.state = "Unavailable" /\ entry.duplex.state = "Unavailable")

LEMMA NewEntryFacts == CardInv(NewEntry, << >>)
  <1>1. /\ DOMAIN NewEntry = CardFields
        /\ NewEntry.speed = Unreported(Nothing) /\ NewEntry.duplex = Unreported("unknown")
    BY DEF NewEntry, CardFields
  <1>2. << >> \in Seq(Reports) /\ \A usable : GoodReports(<< >>, usable) = {}
    BY EmptySeq DEF GoodReports
  <1>3. FieldInv(NewEntry.speed, << >>, SpeedReports, "speed")
    BY <1>1, <1>2, UnreportedField
  <1>4. FieldInv(NewEntry.duplex, << >>, DuplexReports, "duplex")
    BY <1>1, <1>2, UnreportedField
  <1>5. NewEntry.speed.state = "Unavailable" /\ NewEntry.duplex.state = "Unavailable"
    BY <1>1 DEF Unreported
  <1> QED
    BY Zenon, <1>1, <1>2, <1>3, <1>4, <1>5 DEF CardInv

\* updateNetworkLinkMetrics
LEMMA UpdatedKeeps ==
    ASSUME NEW entry, NEW reports, CardInv(entry, reports), NEW r \in Reports
    PROVE  /\ CardInv(Updated(entry, r), Append(reports, r))
           /\ Updated(entry, r).present = TRUE
  <1> DEFINE more == Append(reports, r)
             next == Updated(entry, r)
             speed == IF ~ r.physical THEN Unreported(Nothing)
                      ELSE Absorbed(entry.speed, r.speed, UsableSpeed(r.speed), r.active)
             duplex == IF ~ r.physical THEN Unreported("unknown")
                       ELSE Absorbed(entry.duplex, r.duplex, Usable(r.duplex), r.active)
  <1>1. /\ DOMAIN entry = CardFields /\ reports \in Seq(Reports)
        /\ FieldInv(entry.speed, reports, SpeedReports, "speed")
        /\ FieldInv(entry.duplex, reports, DuplexReports, "duplex")
    BY DEF CardInv
  <1>2. /\ more \in Seq(Reports)
        /\ ~ r.physical => \A usable : GoodReports(more, usable) = {}
    BY <1>1, GoodReportsGrow
  <1>3. next = [entry EXCEPT !.present = TRUE, !.physical = r.physical, !.active = r.active,
                             !.speed = speed, !.duplex = duplex]
    BY DEF Updated
  <1> HIDE DEF speed, duplex, next, more
  <1>4. /\ DOMAIN next = CardFields /\ next.present = TRUE /\ next.physical = r.physical
        /\ next.speed = speed /\ next.duplex = duplex
    BY <1>1, <1>3 DEF CardFields
  <1>5. CASE ~ r.physical
    <2>1. speed = Unreported(Nothing) /\ duplex = Unreported("unknown")
      BY <1>5 DEF speed, duplex
    <2>2. /\ FieldInv(speed, more, SpeedReports, "speed")
          /\ FieldInv(duplex, more, DuplexReports, "duplex")
      BY <1>2, <1>5, <2>1, UnreportedField
    <2>3. speed.state = "Unavailable" /\ duplex.state = "Unavailable"
      BY <2>1 DEF Unreported
    <2>4. CardInv(next, more)
      BY Zenon, <1>2, <1>4, <2>2, <2>3 DEF CardInv
    <2> QED
      BY <1>4, <2>4 DEF next, more
  <1>6. CASE r.physical
    <2>1. /\ speed = Absorbed(entry.speed, r["speed"], UsableSpeed(r.speed), r.active)
          /\ duplex = Absorbed(entry.duplex, r["duplex"], Usable(r.duplex), r.active)
      BY <1>6 DEF speed, duplex
    <2>2. /\ UsableSpeed(r.speed) \in BOOLEAN /\ (UsableSpeed(r.speed) <=> r \in SpeedReports)
          /\ Usable(r.duplex) \in BOOLEAN /\ (Usable(r.duplex) <=> r \in DuplexReports)
      BY DEF UsableSpeed, Usable, SpeedReports, DuplexReports
    <2>3. FieldInv(speed, more, SpeedReports, "speed")
      BY Zenon, <1>1, <1>6, <2>1, <2>2, FieldAbsorbs DEF more
    <2>4. FieldInv(duplex, more, DuplexReports, "duplex")
      BY Zenon, <1>1, <1>6, <2>1, <2>2, FieldAbsorbs DEF more
    <2>5. CardInv(next, more)
      BY Zenon, <1>2, <1>4, <1>6, <2>3, <2>4 DEF CardInv
    <2> QED
      BY <1>4, <2>5 DEF next, more
  <1> QED
    BY <1>5, <1>6

LEMMA AbsentKeeps ==
    ASSUME NEW entry, NEW reports, CardInv(entry, reports)
    PROVE  CardInv([entry EXCEPT !.present = FALSE], reports)
  <1> DEFINE next == [entry EXCEPT !.present = FALSE]
  <1>1. /\ DOMAIN next = CardFields /\ next.physical = entry.physical
        /\ next.speed = entry.speed /\ next.duplex = entry.duplex
    BY DEF CardInv, CardFields
  <1> HIDE DEF next
  <1>2. CardInv(next, reports)
    BY Zenon, <1>1 DEF CardInv
  <1> QED
    BY <1>2 DEF next

MetricsInv ==
    /\ DOMAIN metrics \subseteq Cards /\ DOMAIN told = DOMAIN metrics
    /\ \A c \in DOMAIN metrics : CardInv(metrics[c], told[c])
    /\ Cardinality(DOMAIN metrics) > MaxCards => \A c \in DOMAIN metrics : metrics[c].present

\* When some that are gone are still kept, there was no need for their room.
LEMMA PushedMakesRoom ==
    ASSUME NEW entries, DOMAIN entries \subseteq Cards, NEW out \in Pushed(entries),
           Cardinality(DOMAIN entries \ out) > MaxCards,
           NEW c \in DOMAIN entries \ out
    PROVE  entries[c].present
  <1> DEFINE gone == {d \in DOMAIN entries : ~ entries[d].present}
             excess == Cardinality(DOMAIN entries) - MaxCards
             count == IF excess < 0 THEN 0
                      ELSE IF excess < Cardinality(gone) THEN excess ELSE Cardinality(gone)
  <1>1. out \subseteq gone /\ Cardinality(out) = count
    BY DEF Pushed
  <1>2. IsFiniteSet(DOMAIN entries)
    BY LinkMetricsConstants, FS_Subset
  <1>3. gone \subseteq DOMAIN entries
    OBVIOUS
  <1> HIDE DEF gone
  <1>4. /\ IsFiniteSet(gone) /\ Cardinality(gone) \in Nat
        /\ Cardinality(DOMAIN entries) \in Nat /\ Cardinality(gone) <= Cardinality(DOMAIN entries)
    BY <1>2, <1>3, FS_Subset, FS_CardinalityType
  <1>5. Cardinality(DOMAIN entries \ out) = Cardinality(DOMAIN entries) - Cardinality(out)
    <2>1. DOMAIN entries \cap out = out
      BY <1>1, <1>3
    <2> QED
      BY <1>2, <2>1, FS_Difference
  <1>6. MaxCards \in Nat
    BY LinkMetricsConstants
  <1>7. Cardinality(out) = Cardinality(gone)
    BY <1>1, <1>4, <1>5, <1>6
  <1>8. out = gone
    BY <1>1, <1>4, <1>7, FS_Subset
  <1> QED
    BY <1>8 DEF gone

LEMMA UpdateKeepsMetrics ==
    ASSUME MetricsInv, MetricsUpdate
    PROVE  MetricsInv'
  <1>1. PICK found \in SUBSET Cards, report \in Reports :
          LET entries == [c \in DOMAIN metrics \cup found |->
                  IF c \notin found THEN [metrics[c] EXCEPT !.present = FALSE]
                  ELSE Updated(IF c \in DOMAIN metrics THEN metrics[c] ELSE NewEntry, report)]
          IN \E out \in Pushed(entries) :
                /\ metrics' = [c \in DOMAIN entries \ out |-> entries[c]]
                /\ told' = [c \in DOMAIN entries \ out |->
                       (IF c \in DOMAIN metrics THEN told[c] ELSE <<>>)
                       \o (IF c \in found THEN <<report>> ELSE <<>>)]
    BY Zenon DEF MetricsUpdate
  <1> DEFINE entry(c) == IF c \notin found THEN [metrics[c] EXCEPT !.present = FALSE]
                         ELSE Updated(IF c \in DOMAIN metrics THEN metrics[c] ELSE NewEntry,
                                      report)
             entries == [c \in DOMAIN metrics \cup found |-> entry(c)]
             reports(c) == (IF c \in DOMAIN metrics THEN told[c] ELSE <<>>)
                           \o (IF c \in found THEN <<report>> ELSE <<>>)
  <1>2. PICK out \in Pushed(entries) :
                /\ metrics' = [c \in DOMAIN entries \ out |-> entries[c]]
                /\ told' = [c \in DOMAIN entries \ out |-> reports(c)]
    BY Zenon, <1>1
  <1>3. DOMAIN entries \subseteq Cards
    BY DEF MetricsInv
  <1>4. ASSUME NEW c \in DOMAIN metrics \cup found PROVE CardInv(entry(c), reports(c))
    <2>1. CASE c \notin found
      <3>1. CardInv(metrics[c], told[c]) /\ told[c] \in Seq(Reports)
        BY <2>1 DEF MetricsInv, CardInv
      <3>2. reports(c) = told[c] \o << >>
        BY <2>1
      <3>3. reports(c) = told[c]
        BY <3>1, <3>2, ConcatEmptySeq
      <3>4. CardInv([metrics[c] EXCEPT !.present = FALSE], told[c])
        BY <3>1, AbsentKeeps
      <3>5. entry(c) = [metrics[c] EXCEPT !.present = FALSE]
        BY <2>1
      <3> QED
        BY Zenon, <3>3, <3>4, <3>5
    <2>2. CASE c \in found
      <3> DEFINE old == IF c \in DOMAIN metrics THEN metrics[c] ELSE NewEntry
                 past == IF c \in DOMAIN metrics THEN told[c] ELSE << >>
      <3>1. CardInv(old, past)
        BY NewEntryFacts DEF MetricsInv
      <3>2. past \in Seq(Reports)
        BY <3>1 DEF CardInv
      <3>3. reports(c) = past \o <<report>> /\ entry(c) = Updated(old, report)
        BY <2>2
      <3> HIDE DEF old, past, reports, entry
      <3>4. reports(c) = Append(past, report)
        BY <3>2, <3>3, AppendIsConcat
      <3>5. CardInv(Updated(old, report), Append(past, report))
        BY <3>1, UpdatedKeeps
      <3> QED
        BY Zenon, <3>3, <3>4, <3>5
    <2> QED
      BY <2>1, <2>2
  <1>5. DOMAIN entries = DOMAIN metrics \cup found /\ \A c \in DOMAIN entries : entries[c] = entry(c)
    OBVIOUS
  <1> HIDE DEF entries, entry, reports
  <1>6. /\ DOMAIN metrics' = DOMAIN entries \ out /\ DOMAIN told' = DOMAIN entries \ out
        /\ \A c \in DOMAIN metrics' : metrics'[c] = entries[c] /\ told'[c] = reports(c)
    BY <1>2
  <1>7. \A c \in DOMAIN metrics' : CardInv(metrics'[c], told'[c])
    BY <1>4, <1>5, <1>6
  <1>8. Cardinality(DOMAIN metrics') > MaxCards => \A c \in DOMAIN metrics' : metrics'[c].present
    BY <1>3, <1>6, PushedMakesRoom
  <1>9. DOMAIN metrics' \subseteq Cards
    BY <1>3, <1>6
  <1> QED
    BY <1>6, <1>7, <1>8, <1>9 DEF MetricsInv

\* What the pages make of a field.
LEMMA FieldShown ==
    ASSUME NEW field, NEW reports \in Seq(Reports), NEW usable, NEW key,
           FieldInv(field, reports, usable, key)
    PROVE  Shown(field) =
              IF GoodReports(reports, usable) = {} THEN [unavailable |-> TRUE]
              ELSE LET last == CHOOSE n \in GoodReports(reports, usable) :
                                  \A k \in GoodReports(reports, usable) : k <= n
                   IN [value |-> reports[last][key],
                       marked |-> last < Len(reports) \/ ~ reports[last].active]
  <1>1. GoodReports(reports, usable) \subseteq 1 .. Len(reports) /\ Len(reports) \in Nat
    BY LenProperties DEF GoodReports
  <1>2. CASE GoodReports(reports, usable) = {} /\ field.state = "Unavailable"
    BY <1>2 DEF Shown
  <1>3. CASE \E n \in 1 .. Len(reports) :
                /\ LastGood(reports, usable, n)
                /\ field.value = reports[n][key] /\ field.state = Standing(reports, n)
    <2>1. PICK n \in 1 .. Len(reports) :
                /\ LastGood(reports, usable, n)
                /\ field.value = reports[n][key] /\ field.state = Standing(reports, n)
      BY Zenon, <1>3
    <2> DEFINE last == CHOOSE m \in GoodReports(reports, usable) :
                          \A k \in GoodReports(reports, usable) : k <= m
    <2>2. last = n
      <3>1. n \in GoodReports(reports, usable) /\ \A k \in GoodReports(reports, usable) : k <= n
        BY <2>1 DEF LastGood
      <3>2. /\ last \in GoodReports(reports, usable)
            /\ \A k \in GoodReports(reports, usable) : k <= last
        BY Zenon, <3>1
      <3> HIDE DEF last
      <3> QED
        BY <1>1, <3>1, <3>2
    <2> HIDE DEF last
    <2>3. field.state = "Stale" <=> (n < Len(reports) \/ ~ reports[n].active)
      BY <1>1, <2>1 DEF Standing
    <2>4. (field.state = "Stale") = (n < Len(reports) \/ ~ reports[n].active)
      BY Zenon, <2>3
    <2>5. field.state \in {"Valid", "Stale"}
      BY <2>1 DEF Standing
    <2>6. Shown(field) = [value |-> field.value, marked |-> field.state = "Stale"]
      BY <2>5 DEF Shown
    <2>7. Shown(field) = [value |-> reports[n][key],
                          marked |-> n < Len(reports) \/ ~ reports[n].active]
      BY Zenon, <2>1, <2>4, <2>6
    <2>8. GoodReports(reports, usable) # {}
      BY <2>1 DEF LastGood
    <2>9. Shown(field) = [value |-> reports[last][key],
                          marked |-> last < Len(reports) \/ ~ reports[last].active]
      BY Zenon, <2>2, <2>7
    <2> QED
      BY Zenon, <2>8, <2>9 DEF last
  <1> QED
    BY Zenon, <1>2, <1>3 DEF FieldInv

LEMMA MetricsInitFacts == MetricsInit => MetricsInv
  <1> SUFFICES ASSUME MetricsInit PROVE MetricsInv
    OBVIOUS
  <1>1. DOMAIN metrics = {} /\ DOMAIN told = {}
    BY DEF MetricsInit, NoMetrics
  <1> QED
    BY <1>1 DEF MetricsInv

LEMMA StepKeepsMetrics == MetricsInv /\ [MetricsNext]_metricsVars => MetricsInv'
  <1> SUFFICES ASSUME MetricsInv, [MetricsNext]_metricsVars PROVE MetricsInv'
    OBVIOUS
  <1>1. CASE MetricsUpdate
    BY <1>1, UpdateKeepsMetrics
  <1>2. CASE ResetMetrics
    <2>1. DOMAIN metrics' = {} /\ DOMAIN told' = {}
      BY <1>2 DEF ResetMetrics, NoMetrics
    <2> QED
      BY <2>1 DEF MetricsInv
  <1>3. CASE UNCHANGED metricsVars
    BY <1>3 DEF metricsVars, MetricsInv
  <1> QED
    BY <1>1, <1>2, <1>3 DEF MetricsNext

LEMMA CardsAreShown ==
    ASSUME NEW entry, NEW reports, CardInv(entry, reports)
    PROVE  LET speed == Expected(reports, LAMBDA r : UsableSpeed(r.speed), LAMBDA r : r.speed)
               duplex == Expected(reports, LAMBDA r : Usable(r.duplex), LAMBDA r : r.duplex)
           IN /\ ShownSpeed(entry) = speed /\ SpeedCell(entry) = speed
              /\ ShownDuplex(entry) = duplex
  <1>1. /\ reports \in Seq(Reports)
        /\ FieldInv(entry.speed, reports, SpeedReports, "speed")
        /\ FieldInv(entry.duplex, reports, DuplexReports, "duplex")
        /\ entry.physical \/ (entry.speed.state = "Unavailable" /\ entry.duplex.state = "Unavailable")
    BY DEF CardInv
  <1>2. /\ \A n \in DOMAIN reports : reports[n] \in Reports
        /\ DOMAIN reports = 1 .. Len(reports)
    BY <1>1, LenProperties, ElementOfSeq
  <1>3. Shown(entry.speed) = Expected(reports, LAMBDA r : UsableSpeed(r.speed), LAMBDA r : r.speed)
    <2>1. GoodReports(reports, SpeedReports) =
             {n \in DOMAIN reports : /\ UsableSpeed(reports[n].speed)
                                     /\ \A k \in n .. Len(reports) : reports[k].physical}
      BY Zenon, <1>2 DEF GoodReports, SpeedReports
    <2>2. Shown(entry.speed) =
             IF GoodReports(reports, SpeedReports) = {} THEN [unavailable |-> TRUE]
             ELSE LET last == CHOOSE n \in GoodReports(reports, SpeedReports) :
                                 \A k \in GoodReports(reports, SpeedReports) : k <= n
                  IN [value |-> reports[last].speed,
                      marked |-> last < Len(reports) \/ ~ reports[last].active]
      BY <1>1, FieldShown
    <2> QED
      BY Zenon, <2>1, <2>2 DEF Expected
  <1>4. Shown(entry.duplex) = Expected(reports, LAMBDA r : Usable(r.duplex), LAMBDA r : r.duplex)
    <2>1. GoodReports(reports, DuplexReports) =
             {n \in DOMAIN reports : /\ Usable(reports[n].duplex)
                                     /\ \A k \in n .. Len(reports) : reports[k].physical}
      BY Zenon, <1>2 DEF GoodReports, DuplexReports
    <2>2. Shown(entry.duplex) =
             IF GoodReports(reports, DuplexReports) = {} THEN [unavailable |-> TRUE]
             ELSE LET last == CHOOSE n \in GoodReports(reports, DuplexReports) :
                                 \A k \in GoodReports(reports, DuplexReports) : k <= n
                  IN [value |-> reports[last].duplex,
                      marked |-> last < Len(reports) \/ ~ reports[last].active]
      BY <1>1, FieldShown
    <2> QED
      BY Zenon, <2>1, <2>2 DEF Expected
  <1>5. ShownSpeed(entry) = Shown(entry.speed) /\ ShownDuplex(entry) = Shown(entry.duplex)
    BY <1>1 DEF ShownSpeed, ShownDuplex, Shown
  <1> QED
    BY Zenon, <1>3, <1>4, <1>5 DEF SpeedCell

\* For every number of cards, limit and length of run: a page shows the speed and duplex that
\* an interface reported last since it was physical, marked unless they are of the last
\* report with the link active, and more interfaces than kMaxTrackedLinkMetricsInterfaces are
\* kept only while all of them are there (updateNetworkLinkMetrics, evictOverflow).
THEOREM SpeedsReported == MetricsSpec => []SpeedsAreReported
  <1>1. MetricsInv => SpeedsAreReported
    BY Zenon, CardsAreShown DEF MetricsInv, SpeedsAreReported
  <1> QED
    BY <1>1, MetricsInitFacts, StepKeepsMetrics, PTL DEF MetricsSpec
=============================================================================
