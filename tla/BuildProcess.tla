---------------------------- MODULE BuildProcess ----------------------------
(***************************************************************************)
(* The supervisor of a makepkg phase: the process group it kills, the      *)
(* limits it samples, the signals it diverts while it supervises, and the  *)
(* optional cgroup with a watcher that outlives the supervisor.            *)
(*                                                                         *)
(* The first process of the group is the __build helper; it reads its      *)
(* orders from a pipe, joins the cgroup, confines itself and becomes the   *)
(* recipe.  A recipe may fork, write, hang and exit as it likes.           *)
(*                                                                         *)
(* Code: crates/pacvamp/src/build_process.rs, cgroup.rs, cli/jail_cmd.rs,  *)
(* aur/build.rs (spawn_makepkg)                                            *)
(***************************************************************************)
EXTENDS Naturals

CONSTANTS
    Leader,     \* the helper, later makepkg
    Others,     \* bound: its descendants that live at one time
    MaxPhases,  \* bound: phases of a build, one makepkg each
    WallLimit,  \* the wall-clock limit, in ticks
    Budget,     \* the disk budget
    MaxDisk     \* bound: what a recipe can write

ASSUME BuildProcessAssumption ==
    /\ Leader \notin Others
    /\ MaxPhases \in Nat \ {0} /\ WallLimit \in Nat \ {0}
    /\ Budget \in Nat /\ MaxDisk \in Nat

VARIABLES
    cgroup,     \* whether builds use a cgroup: a setting, never changes
    pc,         \* where the supervisor is
    outcome,    \* of the current phase
    phase,      \* number of phases begun
    elapsed,    \* ticks since the supervisor waits
    disk,       \* size of the run directory
    default,    \* an interrupt ends pacvamp, as it does outside of builds
    cancelled,  \* an interrupt came
    kid,        \* the processes of the group
    joined,     \* those of them in the cgroup
    group,      \* the cgroup directory exists
    watcher     \* its watcher

vars == <<cgroup, pc, outcome, phase, elapsed, disk, default, cancelled, kid, joined, group,
          watcher>>
signals == <<default, cancelled>>
cgroupVars == <<joined, group, watcher>>

Kids == {Leader} \cup Others

Init ==
    /\ cgroup \in BOOLEAN
    /\ pc = "ready" /\ outcome = "none" /\ phase = 1 /\ elapsed = 0 /\ disk = 0
    /\ default = TRUE /\ cancelled = FALSE
    /\ kid = [k \in Kids |-> "none"]
    /\ joined = {} /\ group = FALSE /\ watcher = "none"

Dead == pc = "dead"
Alive(k) == kid[k] \in {"waiting", "fed", "running"}

(* What a kill leaves: the supervisor still has to reap its own child. *)
Killed(ks) ==
    /\ kid' = [k \in Kids |-> IF k \notin ks \/ ~Alive(k) THEN kid[k]
                              ELSE IF k = Leader /\ ~Dead THEN "zombie" ELSE "none"]
    /\ joined' = joined \ ks
-----------------------------------------------------------------------------
(* Starting a phase.                                                        *)

CreateGroup ==
    /\ pc = "ready"
    /\ pc' = "grouped"
    /\ IF cgroup THEN group' = TRUE /\ watcher' = "watching" ELSE UNCHANGED <<group, watcher>>
    /\ UNCHANGED <<cgroup, outcome, phase, elapsed, disk, signals, kid, joined>>

Spawn ==
    /\ pc = "grouped"
    /\ pc' = "spawned" /\ kid' = [kid EXCEPT ![Leader] = "waiting"]
    /\ UNCHANGED <<cgroup, outcome, phase, elapsed, disk, signals, cgroupVars>>

(* From here on interrupts only cancel. *)
Manage ==
    /\ pc = "spawned"
    /\ pc' = "managed" /\ default' = FALSE /\ cancelled' = FALSE
    /\ UNCHANGED <<cgroup, outcome, phase, elapsed, disk, kid, cgroupVars>>

Feed ==
    /\ pc = "managed" /\ kid[Leader] = "waiting"
    /\ pc' = "watching" /\ elapsed' = 0 /\ kid' = [kid EXCEPT ![Leader] = "fed"]
    /\ UNCHANGED <<cgroup, outcome, phase, disk, signals, cgroupVars>>
-----------------------------------------------------------------------------
(* Waiting.                                                                 *)

Fail ==
    /\ pc' = "drop" /\ outcome' = "error"
    /\ UNCHANGED <<cgroup, phase, elapsed, disk, signals, kid, cgroupVars>>

Goto(next) ==
    /\ pc' = next
    /\ UNCHANGED <<cgroup, outcome, phase, elapsed, disk, signals, kid, cgroupVars>>

NotCancelled == ~cancelled
Running == ~cancelled /\ elapsed < WallLimit

CheckRunning ==
    /\ pc = "watching"
    /\ IF Running THEN Goto("checked") ELSE Fail

(* Once a second the loop samples the disk; the sample may come late. *)
SampleDisk ==
    /\ pc = "checked"
    /\ disk > Budget
    /\ Fail

TryWait ==
    /\ pc = "checked"
    /\ IF kid[Leader] = "zombie"
       THEN /\ pc' = "reaped" /\ kid' = [kid EXCEPT ![Leader] = "none"]
            /\ UNCHANGED <<cgroup, outcome, phase, elapsed, disk, signals, cgroupVars>>
       ELSE Goto("watching")

LeaveGroup ==
    /\ pc = "reaped"
    /\ Goto("final")

(* Lingering writers are killed before the last accounting. *)
KillGroup ==
    /\ pc = "reaped"
    /\ pc' = "final" /\ Killed(Kids)
    /\ UNCHANGED <<cgroup, outcome, phase, elapsed, disk, signals, group, watcher>>

FinalCheck ==
    /\ pc = "final"
    /\ IF Running /\ disk <= Budget
       THEN /\ pc' = "drop" /\ outcome' = "ok"
            /\ UNCHANGED <<cgroup, phase, elapsed, disk, signals, kid, cgroupVars>>
       ELSE Fail
-----------------------------------------------------------------------------
(* Dropping the child: kill the group, reap, give the signals back, and     *)
(* close the watcher's pipe.                                                *)

DropLeader ==
    /\ pc = "drop"
    /\ pc' = IF cgroup THEN "closing" ELSE "ended"
    /\ kid' = [kid EXCEPT ![Leader] = "none"] /\ joined' = joined \ {Leader}
    /\ default' = TRUE
    /\ UNCHANGED <<cgroup, outcome, phase, elapsed, disk, cancelled, group, watcher>>

DropKill ==
    /\ pc = "drop"
    /\ pc' = IF cgroup THEN "closing" ELSE "ended"
    /\ kid' = [k \in Kids |-> "none"] /\ joined' = {}
    /\ default' = TRUE
    /\ UNCHANGED <<cgroup, outcome, phase, elapsed, disk, cancelled, group, watcher>>

(* The supervisor waits two seconds for the watcher, cleans up itself if    *)
(* the watcher is dead, and otherwise leaves it to finish.                  *)
DropGroup ==
    /\ pc = "closing"
    /\ pc' = "ended"
    /\ group' = (group /\ watcher \in {"watching", "removing"})
    /\ watcher' = IF watcher = "dead" THEN "none" ELSE watcher
    /\ UNCHANGED <<cgroup, outcome, phase, elapsed, disk, signals, kid, joined>>

(* The next phase has a cgroup of its own; here it waits for the last one.  *)
NextPhase ==
    /\ pc = "ended" /\ outcome = "ok" /\ phase < MaxPhases
    /\ ~group
    /\ pc' = "ready" /\ outcome' = "none" /\ phase' = phase + 1
    /\ UNCHANGED <<cgroup, elapsed, disk, signals, kid, cgroupVars>>
-----------------------------------------------------------------------------
(* Signals.                                                                 *)

Interrupt ==
    /\ pc \notin {"ended", "dead"}
    /\ cancelled' = TRUE
    /\ pc' = IF default THEN "dead" ELSE pc
    /\ UNCHANGED <<cgroup, outcome, phase, elapsed, disk, default, kid, cgroupVars>>

Kill ==
    /\ pc \notin {"ended", "dead"}
    /\ Goto("dead")
-----------------------------------------------------------------------------
(* The processes of the group.                                              *)

(* Without orders the helper ends with its pipe. *)
HelperEnds ==
    /\ kid[Leader] = "waiting" /\ Dead
    /\ kid' = [kid EXCEPT ![Leader] = "none"]
    /\ UNCHANGED <<cgroup, pc, outcome, phase, elapsed, disk, signals, cgroupVars>>

(* Join the cgroup, set limits, confine, exec; a group that is gone cannot  *)
(* be joined.                                                               *)
Exec ==
    /\ kid[Leader] = "fed"
    /\ IF cgroup /\ ~group
       THEN Killed({Leader})
       ELSE /\ kid' = [kid EXCEPT ![Leader] = "running"]
            /\ joined' = IF cgroup THEN {Leader} ELSE {}
    /\ UNCHANGED <<cgroup, pc, outcome, phase, elapsed, disk, signals, group, watcher>>

Fork(k) ==
    /\ \E parent \in Kids: kid[parent] = "running"
    /\ kid[k] = "none" /\ k # Leader
    /\ kid' = [kid EXCEPT ![k] = "running"]
    /\ joined' = IF cgroup THEN joined \cup {k} ELSE joined
    /\ UNCHANGED <<cgroup, pc, outcome, phase, elapsed, disk, signals, group, watcher>>

Exit(k) ==
    /\ kid[k] = "running" /\ Killed({k})
    /\ UNCHANGED <<cgroup, pc, outcome, phase, elapsed, disk, signals, group, watcher>>

Write ==
    /\ \E k \in Kids: kid[k] = "running"
    /\ disk < MaxDisk /\ disk' = disk + 1
    /\ UNCHANGED <<cgroup, pc, outcome, phase, elapsed, signals, kid, cgroupVars>>
-----------------------------------------------------------------------------
(* The watcher: kill once when the pipe closes, then remove the directory,  *)
(* trying again while it is busy.                                           *)

PipeClosed == pc \in {"closing", "ended", "dead"}

WatcherForgets ==
    /\ watcher = "watching" /\ PipeClosed
    /\ watcher' = "removing"
    /\ UNCHANGED <<cgroup, pc, outcome, phase, elapsed, disk, signals, kid, joined, group>>

WatcherKills ==
    /\ watcher = "watching" /\ PipeClosed
    /\ watcher' = "removing" /\ Killed(joined)
    /\ UNCHANGED <<cgroup, pc, outcome, phase, elapsed, disk, signals, group>>

WatcherRemoves ==
    /\ watcher = "removing" /\ joined = {}
    /\ watcher' = "none" /\ group' = FALSE
    /\ UNCHANGED <<cgroup, pc, outcome, phase, elapsed, disk, signals, kid, joined>>

WatcherDies ==
    /\ watcher = "watching" /\ ~Dead
    /\ watcher' = "dead"
    /\ UNCHANGED <<cgroup, pc, outcome, phase, elapsed, disk, signals, kid, joined, group>>

Tick ==
    /\ pc \in {"watching", "checked"} /\ elapsed < WallLimit
    /\ elapsed' = elapsed + 1
    /\ UNCHANGED <<cgroup, pc, outcome, phase, disk, signals, kid, cgroupVars>>
-----------------------------------------------------------------------------
Supervise ==
    \/ CreateGroup \/ Spawn \/ Manage \/ Feed
    \/ CheckRunning \/ SampleDisk \/ TryWait \/ KillGroup \/ FinalCheck
    \/ DropKill \/ DropGroup \/ NextPhase

Group == HelperEnds \/ Exec \/ Write \/ \E k \in Kids: Fork(k) \/ Exit(k)

Watch == WatcherKills \/ WatcherRemoves \/ WatcherDies

Next == Supervise \/ Group \/ Watch \/ Interrupt \/ Kill \/ Tick

(* The supervisor, the helper and the watcher are programs of pacvamp that  *)
(* run when they can, and time passes.  Nothing obliges a recipe to exit,   *)
(* or anybody to interrupt.                                                 *)
Fairness ==
    /\ WF_vars(Supervise) /\ WF_vars(Tick)
    /\ WF_vars(HelperEnds \/ Exec)
    /\ WF_vars(WatcherKills) /\ WF_vars(WatcherRemoves)

Spec == Init /\ [][Next]_vars /\ Fairness
-----------------------------------------------------------------------------
TypeOK ==
    /\ cgroup \in BOOLEAN
    /\ pc \in {"ready", "grouped", "spawned", "managed", "watching", "checked", "reaped",
               "final", "drop", "closing", "ended", "dead"}
    /\ outcome \in {"none", "ok", "error"}
    /\ phase \in 1 .. MaxPhases /\ elapsed \in 0 .. WallLimit /\ disk \in 0 .. MaxDisk
    /\ default \in BOOLEAN /\ cancelled \in BOOLEAN
    /\ kid \in [Kids -> {"none", "waiting", "fed", "running", "zombie"}]
    /\ joined \subseteq {k \in Kids: kid[k] = "running"}
    /\ group \in BOOLEAN /\ watcher \in {"none", "watching", "removing", "dead"}

(* Nothing of a phase lives on when pacvamp goes on with the build, however *)
(* the phase ended and whichever process of it ended first.                 *)
NothingOutlivesPhase ==
    pc \in {"closing", "ended", "ready"} => \A k \in Kids: kid[k] = "none"

(* A phase that succeeded is within the disk budget, though the disk is     *)
(* only sampled and descendants may write after makepkg has exited.         *)
SuccessIsWithinBudget ==
    outcome = "ok" => disk <= Budget

(* Every phase ends, also when the recipe hangs. *)
PhaseEnds == (pc = "grouped") ~> (pc \in {"ended", "dead"})

(* Once the recipe is in its cgroup, nothing of it survives the supervisor, *)
(* as long as the watcher lives.                                            *)
JoinedOrphansDie ==
    (Dead /\ Leader \in joined /\ watcher = "watching") ~> (\A k \in Kids: ~Alive(k))

(* docs/build-controls.md: when the supervisor exits, the cgroup is killed  *)
(* and removed.  Violated: the helper may join between the one kill and the *)
(* removal, which then waits for a build that nobody limits.                *)
GroupIsRemoved ==
    (Dead /\ group /\ watcher = "watching") ~> ~group
=============================================================================
