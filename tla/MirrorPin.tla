------------------------------ MODULE MirrorPin ------------------------------
(***************************************************************************)
(* Pinning a machine to a snapshot: the mirrorlist and its backup, the     *)
(* sync databases, the packages of the host, and the snapshot the ledger   *)
(* says the machine converged to, as `channel pin`, `channel unpin`,       *)
(* `rollback` and `update` change them (crates/pacvamp/src/channel.rs,     *)
(* cli/channel.rs, cli/update.rs).                                         *)
(*                                                                         *)
(* A command makes its changes one after the other: pinning[p].step is the *)
(* one that process p makes next, and p may be killed before any.  A       *)
(* rollback goes backup, list, engine, refresh, plan, apply, record; one   *)
(* that fails goes restore, unbackup, again.                               *)
(*                                                                         *)
(* A mirrorlist is one of the user's own lists, which serve what the       *)
(* channel points at, or the number of the snapshot it is pinned to.       *)
(* Snapshots are numbered in the order of their ids; databases and         *)
(* packages are the sets of snapshots theirs come from.  Abstracted:       *)
(* packages (two snapshots differ in all of them), manifests beyond their  *)
(* id, held packages and prompts (a command may end where it would ask).   *)
(***************************************************************************)
EXTENDS Naturals

CONSTANTS
  Pinners,          \* processes that run commands
  UserLists,        \* mirrorlists a user writes
  MaxNumber,        \* bound: snapshots, which are numbers
  MaxMishaps,       \* bound: kills and failing writes in a behaviour
  EditsOverBackup,  \* whether users edit their list while a backup lies there
  None              \* no backup, no manifest, no snapshot recorded

Numbers == 1 .. MaxNumber
Lists == UserLists \cup Numbers
Mixes == (SUBSET Numbers) \ {{}}

ASSUME MirrorBounds ==
  /\ MaxNumber \in Nat \ {0} /\ MaxMishaps \in Nat
  /\ EditsOverBackup \in BOOLEAN
ASSUME ListsAreTold ==
  /\ UserLists \cap Numbers = {} /\ UserLists # {}
  /\ None \notin Lists

VARIABLES
  list,       \* /etc/pacman.d/mirrorlist
  backup,     \* mirrorlist.pacvamp-unpinned
  channel,    \* the snapshot the channel points at
  databases,  \* snapshots the sync databases are of
  packages,   \* snapshots the installed packages are of
  cached,     \* the channel's manifest in the feed cache
  converged,  \* the ledger's snapshot
  pinning,    \* the command each process runs and what it holds
  mishaps,    \* kills and failing writes so far
  mine        \* history: the list the user wrote last

files == <<list, backup>>
state == <<channel, databases, packages, cached, converged>>
pinVars == <<files, state, pinning, mishaps, mine>>

Commands == {"none", "pin", "unpin", "rollback", "update"}
Steps == {"none", "backup", "list", "engine", "refresh", "release", "plan",
          "apply", "record", "restore", "unbackup", "again"}

\* A command is about snapshot `snap`; it read the list `original` and found
\* the databases `before`.  `refreshes` tells whether an update refreshes them,
\* and whether an undo does so again.
Run == [cmd       : Commands,
        step      : Steps,
        snap      : Numbers \cup {None},
        original  : Lists \cup {None},
        before    : SUBSET Numbers,
        refreshes : BOOLEAN]

PinType ==
  /\ list \in Lists
  /\ backup \in Lists \cup {None}
  /\ channel \in Numbers
  /\ databases \in Mixes
  /\ packages \in Mixes
  /\ cached \in Numbers \cup {None}
  /\ converged \in Numbers \cup {None}
  /\ pinning \in [Pinners -> Run]
  /\ mishaps \in 0 .. MaxMishaps
  /\ mine \in UserLists

NoCommand == [cmd |-> "none", step |-> "none", snap |-> None, original |-> None,
         before |-> {}, refreshes |-> FALSE]

PinInit ==
  /\ mine \in UserLists /\ list = mine
  /\ backup = None
  /\ channel \in Numbers
  /\ \E s \in Numbers : databases = {s} /\ packages = {s}
  /\ cached = None
  /\ converged = None
  /\ pinning = [p \in Pinners |-> NoCommand]
  /\ mishaps = 0

Pinned(l) == l \in Numbers
Serves(l) == IF Pinned(l) THEN l ELSE channel

-----------------------------------------------------------------------------
(* Starting a command.                                                     *)

StartCommand(p, name, s, original, step) ==
  /\ pinning[p] = NoCommand
  /\ pinning' = [pinning EXCEPT ![p] = [cmd |-> name, step |-> step, snap |-> s,
                                original |-> original, before |-> databases,
                                refreshes |-> step = "refresh"]]
  /\ UNCHANGED <<files, state, mishaps, mine>>

Pin(p) == \E s \in Numbers : StartCommand(p, "pin", s, None, "backup")

\* unpin needs a backup, and restores what it read of it.
Unpin(p) ==
  /\ Pinned(list) /\ backup # None
  /\ StartCommand(p, "unpin", None, backup, "restore")

Rollback(p) == \E s \in Numbers : StartCommand(p, "rollback", s, list, "backup")

\* One update at a time; --no-refresh goes on with the databases there are.
Update(p) ==
  /\ \A q \in Pinners : pinning[q].cmd # "update"
  /\ \E step \in {"refresh", "release"} : StartCommand(p, "update", None, None, step)

-----------------------------------------------------------------------------
(* Its steps.                                                              *)

Goto(p, step) == pinning' = [pinning EXCEPT ![p].step = step]
EndCommand(p) == pinning' = [pinning EXCEPT ![p] = NoCommand]

\* A rollback that fails puts the list back and refreshes the databases from it.
UndoRollback(p, refreshing) ==
  pinning' = [pinning EXCEPT ![p].step = "restore", ![p].refreshes = refreshing]

\* What a failed step of p leads to.
Fail(p) == IF pinning[p].cmd = "rollback" THEN UndoRollback(p, TRUE) ELSE EndCommand(p)

\* What follows once the list is restored.
Restored(p) == IF pinning[p].refreshes THEN Goto(p, "again") ELSE EndCommand(p)

\* The pin itself is kept as the backup of a list that is pinned already.
WriteAnyBackup(p) ==
  /\ pinning[p].step = "backup"
  /\ backup' = list
  /\ Goto(p, "list")
  /\ UNCHANGED <<list, state, mishaps, mine>>

\* The original is kept once.
WriteBackup(p) ==
  /\ pinning[p].step = "backup"
  /\ backup' = IF backup = None THEN list ELSE backup
  /\ Goto(p, "list")
  /\ UNCHANGED <<list, state, mishaps, mine>>

WriteList(p) ==
  /\ pinning[p].step = "list"
  /\ list' = pinning[p].snap
  /\ IF pinning[p].cmd = "pin" THEN EndCommand(p) ELSE Goto(p, "engine")
  /\ UNCHANGED <<backup, state, mishaps, mine>>

RestoreList(p) ==
  /\ pinning[p].step = "restore"
  /\ list' = pinning[p].original
  /\ IF Pinned(pinning[p].original) THEN Restored(p) ELSE Goto(p, "unbackup")
  /\ UNCHANGED <<backup, state, mishaps, mine>>

RemoveBackup(p) ==
  /\ pinning[p].step = "unbackup"
  /\ backup' = None
  /\ Restored(p)
  /\ UNCHANGED <<list, state, mishaps, mine>>

EngineReady(p) ==
  /\ pinning[p].step = "engine"
  /\ Goto(p, "refresh")
  /\ UNCHANGED <<files, state, mishaps, mine>>

\* The engine cannot be set up: nothing but the list is to undo.
EngineFails(p) ==
  /\ pinning[p].step = "engine"
  /\ UndoRollback(p, FALSE)
  /\ UNCHANGED <<files, state, mishaps, mine>>

\* The databases after a refresh from snapshot s.  Only a forced one replaces
\* databases that are newer.
Refreshed(s, force) ==
  IF force THEN {s} ELSE {IF d > s THEN d ELSE s : d \in databases}

Forced(p) == pinning[p].cmd = "rollback"

RefreshDatabases(p) ==
  /\ pinning[p].step \in {"refresh", "again"}
  /\ databases' = Refreshed(Serves(list), Forced(p))
  /\ IF pinning[p].step = "again" THEN EndCommand(p)
     ELSE Goto(p, IF pinning[p].cmd = "update" THEN "release" ELSE "plan")
  /\ UNCHANGED <<files, channel, packages, cached, converged, mishaps, mine>>

\* Some databases or none are refreshed.
RefreshFails(p) ==
  /\ databases' \in {databases, databases \cup Refreshed(Serves(list), Forced(p))}
  /\ \/ pinning[p].step = "refresh" /\ Fail(p) /\ UNCHANGED mishaps
     \/ /\ pinning[p].step = "again"
        /\ mishaps < MaxMishaps /\ mishaps' = mishaps + 1
        /\ EndCommand(p)
  /\ UNCHANGED <<files, channel, packages, cached, converged, mine>>

\* update reads the manifest of the pin, or the channel's: as it is now, as it
\* was cached, or none at all.  Only after a refresh it is kept, to record it.
ReadRelease(p) ==
  /\ pinning[p].step = "release"
  /\ \E s \in IF Pinned(list) THEN {list, None} ELSE {channel, cached, None} :
       /\ pinning' = [pinning EXCEPT ![p].step = "plan",
                          ![p].snap = IF pinning[p].refreshes THEN s ELSE None]
       /\ cached' = IF ~Pinned(list) /\ s = channel THEN s ELSE cached
  /\ UNCHANGED <<files, channel, databases, packages, converged, mishaps, mine>>

\* What an upgrade makes of the host: with downgrades the packages become those
\* of the databases, without them only older ones do.
Targets(downgrade) ==
  IF downgrade
  THEN {t \in Mixes : t \subseteq databases}
  ELSE {t \in Mixes :
          /\ \A s \in t : s \in packages \cup databases
          /\ \A h \in packages : \E d \in databases : (IF d > h THEN d ELSE h) \in t
          /\ \A s \in t : \E h \in packages, d \in databases : s = IF d > h THEN d ELSE h}

Target(p) == Targets(pinning[p].cmd = "rollback")

\* There is something to do.
PlanIsMade(p) ==
  /\ pinning[p].step = "plan"
  /\ \E t \in Target(p) : t # packages
  /\ Goto(p, "apply")
  /\ UNCHANGED <<files, state, mishaps, mine>>

\* Nothing to do: the snapshot is recorded all the same.
PlanIsEmpty(p) ==
  /\ pinning[p].step = "plan"
  /\ packages \in Target(p)
  /\ Goto(p, "record")
  /\ UNCHANGED <<files, state, mishaps, mine>>

\* The plan cannot be made, or the user declines it.
PlanFails(p) ==
  /\ pinning[p].step = "plan"
  /\ Fail(p)
  /\ UNCHANGED <<files, state, mishaps, mine>>

ApplyPlan(p) ==
  /\ pinning[p].step = "apply"
  /\ packages' \in Target(p)
  /\ Goto(p, "record")
  /\ UNCHANGED <<files, channel, databases, cached, converged, mishaps, mine>>

\* A failed pacman is taken for bookkeeping that failed: the pin is retained.
ApplyFailsKeepingPin(p) ==
  /\ pinning[p].step = "apply"
  /\ \E t \in Target(p) : packages' \in {m \in Mixes : m \subseteq packages \cup t}
  /\ EndCommand(p)
  /\ UNCHANGED <<files, channel, databases, cached, converged, mishaps, mine>>

\* pacman fails, with some of the packages changed.
ApplyFails(p) ==
  /\ pinning[p].step = "apply"
  /\ \E t \in Target(p) : packages' \in {m \in Mixes : m \subseteq packages \cup t}
  /\ Fail(p)
  /\ UNCHANGED <<files, channel, databases, cached, converged, mishaps, mine>>

\* update without a manifest records nothing.
RecordSnapshot(p) ==
  /\ pinning[p].step = "record"
  /\ converged' = IF pinning[p].snap = None THEN converged ELSE pinning[p].snap
  /\ EndCommand(p)
  /\ UNCHANGED <<files, channel, databases, packages, cached, mishaps, mine>>

\* The ledger cannot be written: the pin is retained.
RecordFails(p) ==
  /\ pinning[p].step = "record"
  /\ EndCommand(p)
  /\ UNCHANGED <<files, state, mishaps, mine>>

\* p is killed, or a write to the list or its backup fails.
KillCommand(p) ==
  /\ pinning[p] # NoCommand
  /\ mishaps < MaxMishaps /\ mishaps' = mishaps + 1
  /\ EndCommand(p)
  /\ UNCHANGED <<files, state, mine>>

\* The publisher moves the channel.
MoveChannel ==
  /\ channel' \in Numbers \ {channel}
  /\ UNCHANGED <<files, databases, packages, cached, converged, pinning, mishaps, mine>>

\* The user writes another list of their own.
EditList ==
  /\ ~Pinned(list)
  /\ EditsOverBackup \/ backup = None
  /\ \A p \in Pinners : pinning[p] = NoCommand
  /\ \E l \in UserLists \ {list} : list' = l /\ mine' = l
  /\ UNCHANGED <<backup, state, pinning, mishaps>>

PinStep(p) ==
  \/ Pin(p) \/ Unpin(p) \/ Rollback(p) \/ Update(p)
  \/ WriteBackup(p) \/ WriteList(p) \/ RestoreList(p) \/ RemoveBackup(p)
  \/ EngineReady(p) \/ EngineFails(p) \/ RefreshDatabases(p) \/ RefreshFails(p)
  \/ ReadRelease(p) \/ PlanIsMade(p) \/ PlanIsEmpty(p) \/ PlanFails(p)
  \/ ApplyPlan(p) \/ ApplyFails(p) \/ RecordSnapshot(p) \/ RecordFails(p) \/ KillCommand(p)

PinNext == MoveChannel \/ EditList \/ \E p \in Pinners : PinStep(p)

PinSpec == PinInit /\ [][PinNext]_pinVars

-----------------------------------------------------------------------------
(* Properties.                                                             *)

\* The user's own list is never lost: it is in force, or it is what unpin
\* restores, also after kills, failed writes and rollbacks that were undone.
\* One command at a time, no edits beside a backup.
UserListIsKept == mine = IF Pinned(list) THEN backup ELSE list

\* A rollback that ends by itself has either brought the machine to its
\* snapshot, with list, databases and packages of it, or put the list back
\* with databases of what the list serves, or as they were before.
RollbackIsAllOrNothing ==
  [][ \A p \in Pinners :
        ( pinning[p].cmd = "rollback" /\ pinning'[p] = NoCommand /\ mishaps' = mishaps )
        => \/ /\ list' = pinning[p].snap
              /\ databases' = {pinning[p].snap} /\ packages' = {pinning[p].snap}
           \/ /\ list' = pinning[p].original
              /\ databases' \in {{Serves(list')}, pinning[p].before} ]_pinVars

=============================================================================
