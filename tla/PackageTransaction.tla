-------------------------- MODULE PackageTransaction --------------------------
(***************************************************************************)
(* The package page (interactPackageDetail, runSystemUpgrade), the list of *)
(* updates behind it (package_manager.cpp) and the full upgrade it drives  *)
(* (package_transaction.cpp).  Both own a libalpm handle: a handle loads   *)
(* the databases when they are first asked for and keeps them; only an     *)
(* update of the repositories and its own commit renew what it holds.      *)
(* Another package manager may work whenever it can take the lock: while   *)
(* the user reads the questions, nobody holds it.                          *)
(***************************************************************************)
EXTENDS Naturals, Sequences, FiniteSets

CONSTANTS
    Packages,
    Replaces,      \* <<new, old>>: the repositories replace old by new
    MaxVersion,    \* bound: versions; 0 is a package that is not there
    MaxRecent,     \* kMaxRecent
    MaxChanges     \* bound: what the mirror and other package managers do

ASSUME PackageConstants ==
    /\ Replaces \subseteq Packages \X Packages
    /\ MaxVersion \in Nat /\ MaxRecent \in Nat \ {0} /\ MaxChanges \in Nat

VARIABLES
    installed,     \* external: the local database
    mirror,        \* external: the repositories, upstream
    synced,        \* external: the repositories' databases on this machine
    dbLock,        \* who holds db.lck: "none", "other" or, while it commits, "own"
    changes,       \* bound on what others do
    supported, root,     \* an Arch system; geteuid() == 0
    txHandle,      \* handle_ of PackageTransaction, with what it has loaded
    txState,       \* state_
    preview,       \* preview_
    recent,        \* recent_
    pmHandle,      \* handle_ of PackageManager
    updates,       \* updates_ and what summary_ says of them
    question,      \* what runSystemUpgrade waits for
    answered       \* ghost: the questions about this preview the user agreed to

packageVars == <<installed, mirror, synced, dbLock, changes, supported, root, txHandle, txState,
                 preview, recent, pmHandle, updates, question, answered>>
machine == <<installed, mirror, synced, dbLock, changes, supported, root>>
page == <<question, answered>>

Versions == [Packages -> 0 .. MaxVersion]
Empty == [upgrade |-> {}, install |-> {}, remove |-> {}]

\* A handle that is closed, or open and holding the databases as it loaded them.
Closed == [open |-> FALSE]
Loaded == [open |-> TRUE, local |-> installed, sync |-> synced]

\* What alpm_sync_sysupgrade and alpm_trans_prepare make of the loaded databases.
Plan(handle) ==
    LET replacing == {pair \in Replaces : handle.local[pair[2]] > 0 /\ handle.sync[pair[1]] > 0}
    IN [upgrade |-> {p \in Packages : handle.local[p] > 0 /\ handle.sync[p] > handle.local[p]}
                        \ {pair[2] : pair \in replacing},
        install |-> {pair[1] : pair \in {r \in replacing : handle.local[r[1]] = 0}},
        remove |-> {pair[2] : pair \in replacing}]

\* The local database once the part `done` of a plan has been carried out.
Installed(plan, handle, done) ==
    [p \in Packages |->
        IF p \notin done THEN installed[p]
        ELSE IF p \in plan.remove THEN 0
        ELSE IF p \in plan.upgrade \cup plan.install THEN handle.sync[p] ELSE installed[p]]

Remember(outcome) ==
    LET all == Append(recent, outcome)
    IN recent' = IF Len(all) > MaxRecent THEN Tail(all) ELSE all

PackagesInit ==
    /\ installed \in {v \in Versions : \E p \in Packages : v[p] = 1} /\ mirror = installed
    /\ \A p \in Packages : installed[p] <= 1
    /\ synced = mirror /\ dbLock = "none" /\ changes = 0
    /\ supported \in BOOLEAN /\ root \in BOOLEAN
    /\ pmHandle \in {Closed, [open |-> TRUE, local |-> installed, sync |-> synced]}
    /\ txHandle = Closed /\ txState = "Idle" /\ preview = Empty /\ recent = <<>>
    /\ updates = {} /\ question = "none" /\ answered = {}

-----------------------------------------------------------------------------
(* The rest of the machine.                                                *)

Upstream ==
    /\ changes < MaxChanges /\ changes' = changes + 1
    /\ \E p \in Packages : mirror[p] < MaxVersion /\ mirror' = [mirror EXCEPT ![p] = @ + 1]
    /\ UNCHANGED <<installed, synced, dbLock, supported, root, txHandle, txState, preview, recent,
                   pmHandle, updates, page>>

OtherStarts ==
    /\ dbLock = "none" /\ changes < MaxChanges /\ changes' = changes + 1
    /\ dbLock' = "other"
    /\ UNCHANGED <<installed, mirror, synced, supported, root, txHandle, txState, preview, recent,
                   pmHandle, updates, page>>

OtherUpgrades ==
    /\ dbLock = "other"
    /\ dbLock' = "none" /\ synced' = mirror
    /\ installed' = [p \in Packages |-> IF installed[p] > 0 THEN mirror[p] ELSE 0]
    /\ UNCHANGED <<mirror, changes, supported, root, txHandle, txState, preview, recent, pmHandle,
                   updates, page>>

-----------------------------------------------------------------------------
(* package_manager.cpp                                                     *)

\* refresh(): the handle is opened if it is not, and then kept.  Nothing is fetched.
RefreshUpdates ==
    \/ /\ \/ ~ supported
          \/ ~ pmHandle.open     \* alpm_initialize fails
       /\ UNCHANGED <<pmHandle, updates>>
    \/ /\ supported
       /\ LET handle == IF pmHandle.open THEN pmHandle ELSE Loaded
          IN /\ pmHandle' = handle
             /\ updates' = {p \in Packages : handle.local[p] > 0 /\ handle.sync[p] > handle.local[p]}

-----------------------------------------------------------------------------
(* package_transaction.cpp                                                 *)

IsRunning == txState \in {"RefreshingDatabases", "ResolvingDependencies", "Downloading", "Installing"}

\* syncDatabases(), refused without a change, or failing, or done: the handle then
\* drops what it had loaded.
SyncDatabases(ok) ==
    \/ /\ ~ ok
       /\ ~ supported \/ IsRunning \/ ~ txHandle.open
       /\ UNCHANGED <<txHandle, txState, synced>>
    \/ /\ ~ ok /\ supported /\ ~ IsRunning
       /\ txHandle' = IF txHandle.open THEN txHandle ELSE Loaded
       /\ txState' = "Failed" /\ UNCHANGED synced
    \/ /\ ok /\ supported /\ ~ IsRunning /\ dbLock = "none"
       /\ synced' = mirror
       /\ txHandle' = [open |-> TRUE, local |-> IF txHandle.open THEN txHandle.local ELSE installed,
                       sync |-> mirror]
       /\ txState' = "Idle"

\* resolve(): the transaction is prepared, read and released again.
Resolve(ok) ==
    \/ /\ ~ ok /\ txState' = "Failed" /\ preview' \in {preview, Empty}
    \/ /\ ok /\ dbLock = "none"
       /\ preview' = Plan(txHandle)
       /\ txState' = "AwaitingConfirmation"

Cancel ==
    IF txState = "AwaitingConfirmation"
    THEN txState' = "Cancelled" /\ Remember("cancelled")
    ELSE UNCHANGED <<txState, recent>>

\* checkPermissions, and the state the code insists on.
MayCommit == supported /\ ~ IsRunning /\ txState = "AwaitingConfirmation" /\ root

\* alpm_trans_init takes the lock, and the transaction is prepared anew.
Ready == MayCommit /\ dbLock = "none" /\ txHandle.open

CommitStarts ==
    /\ Ready
    /\ dbLock' = "own" /\ txState' = "Installing"

\* Not allowed, or locked: no result is recorded.
CommitRefused ==
    /\ txState' = IF txState = "AwaitingConfirmation" THEN "Failed" ELSE txState
    /\ UNCHANGED dbLock

\* It could not be prepared, and no result is recorded; or it is carried out, all of it or
\* some of it.  alpm_trans_release gives the lock back.
CommitEnds ==
    LET plan == Plan(txHandle)
        all == plan.upgrade \cup plan.install \cup plan.remove
    IN
    /\ dbLock' = "none"
    /\ \/ txState' = "Failed" /\ UNCHANGED <<installed, txHandle, recent>>
       \/ \E done \in SUBSET all :
             /\ installed' = Installed(plan, txHandle, done)
             /\ txHandle' = [txHandle EXCEPT !.local = Installed(plan, txHandle, done)]
             /\ \/ /\ done = all /\ txState' = "Completed"
                   /\ Remember([upgraded |-> preview.upgrade, installed |-> preview.install,
                                removed |-> preview.remove])
                \/ txState' = "Failed" /\ Remember("failed")

-----------------------------------------------------------------------------
(* The page.                                                               *)

\* Action 1, and the refresh of the start.
PageRefresh ==
    /\ question = "none"
    /\ RefreshUpdates
    /\ UNCHANGED <<machine, txHandle, txState, preview, recent, page>>

\* Action 4: the repositories are fetched, the upgrade worked out and shown.
NothingToDo == preview'.upgrade = {} /\ preview'.install = {} /\ preview'.remove = {}

UpgradeStarts ==
    /\ question = "none" /\ supported /\ pmHandle.open /\ ~ IsRunning
    /\ SyncDatabases(TRUE)
    /\ question' = "fetched" /\ answered' = {}
    /\ UNCHANGED <<installed, mirror, dbLock, changes, supported, root, preview, recent, pmHandle,
                   updates>>

UpgradeCannotStart ==
    /\ question = "none" /\ supported /\ pmHandle.open
    /\ \/ IsRunning /\ UNCHANGED <<txHandle, txState, synced>>
       \/ SyncDatabases(FALSE)
    /\ UNCHANGED <<installed, mirror, dbLock, changes, supported, root, preview, recent, pmHandle,
                   updates, page>>

UpgradeIsShown ==
    /\ question = "fetched"
    /\ \E ok \in BOOLEAN :
          /\ Resolve(ok)
          /\ IF ~ ok THEN question' = "none"
             ELSE question' = IF NothingToDo THEN "nothing" ELSE "Continue?"
    /\ UNCHANGED <<machine, txHandle, recent, pmHandle, updates, answered>>

\* Any other answer than yes, the end of the input, or nothing to do.
Declines ==
    /\ question \in {"Continue?", "Continue anyway?", "Proceed?", "nothing"}
    /\ Cancel
    /\ question' = "none"
    /\ UNCHANGED <<machine, txHandle, preview, pmHandle, updates, answered>>

OneQuestion(asked) == "Proceed?"
NextQuestion(asked) ==
    IF asked = "Continue?" /\ preview.remove # {} THEN "Continue anyway?" ELSE "Proceed?"

Agrees ==
    /\ question \in {"Continue?", "Continue anyway?"}
    /\ answered' = answered \cup {question}
    /\ question' = NextQuestion(question)
    /\ UNCHANGED <<machine, txHandle, txState, preview, recent, pmHandle, updates>>

Proceeds ==
    /\ question = "Proceed?"
    /\ answered' = answered \cup {question}
    /\ \/ CommitStarts /\ question' = "committing"
       \/ CommitRefused /\ question' = "done"
    /\ UNCHANGED <<installed, mirror, synced, changes, supported, root, txHandle, preview, recent,
                   pmHandle, updates>>

Commits ==
    /\ question = "committing" /\ CommitEnds /\ question' = "done"
    /\ UNCHANGED <<mirror, synced, changes, supported, root, preview, pmHandle, updates, answered>>

\* Step 5 of the upgrade.
RefreshAfterwards ==
    /\ question = "done"
    /\ RefreshUpdates
    /\ question' = "none"
    /\ UNCHANGED <<machine, txHandle, txState, preview, recent, answered>>

PackagesNext ==
    \/ Upstream \/ OtherStarts \/ OtherUpgrades
    \/ PageRefresh \/ UpgradeStarts \/ UpgradeCannotStart \/ UpgradeIsShown
    \/ Declines \/ Agrees \/ Proceeds \/ Commits \/ RefreshAfterwards

PackagesSpec == PackagesInit /\ [][PackagesNext]_packageVars

-----------------------------------------------------------------------------
Touched == {p \in Packages : installed'[p] # installed[p]}
\* Another package manager, which holds the lock: the program stands still.
OthersChange == dbLock = "other" /\ UNCHANGED <<page, txState, preview, recent>>

\* The program changes nothing but what it showed and had confirmed, with the question
\* about removals if there are any, and only while it holds the lock that keeps every other
\* package manager out; and the result of a success is what has become of the packages.
ConfirmedChange ==
    /\ installed' # installed =>
          \/ OthersChange
          \/ /\ dbLock = "own"
             /\ {"Continue?", "Proceed?"} \subseteq answered'
             /\ preview.remove # {} => "Continue anyway?" \in answered'
             /\ Touched \subseteq preview.upgrade \cup preview.install \cup preview.remove
    /\ txState' = "Completed" /\ txState # "Completed" =>
          LET told == recent'[Len(recent')]
          IN /\ \A p \in told.removed : installed'[p] = 0
             /\ \A p \in told.upgraded \cup told.installed : installed'[p] > 0
             /\ Touched \subseteq told.upgraded \cup told.installed \cup told.removed

\* Every step of the program, or of another package manager, is such a change.
OnlyConfirmedChanges == [][ConfirmedChange]_packageVars
=============================================================================
