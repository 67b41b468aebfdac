------------------------------ MODULE AurBuild ------------------------------
(***************************************************************************)
(* AUR packages from review to the ledger: the lockfile of approved        *)
(* commits, the build runs with their receipts, what the ledger refers to, *)
(* the cache lease, and prune.                                             *)
(*                                                                         *)
(* A build run is a directory under .pacvamp-build/runs: sources, outputs  *)
(* and receipt.json.  Ledger entries and journaled transactions name the   *)
(* receipt; that is what keeps a run from being pruned.                    *)
(*                                                                         *)
(* Code: crates/pacvamp/src/aur/, cli/aur_cmd.rs, cli/cache.rs,            *)
(* lockfile.rs, cli/update.rs                                              *)
(***************************************************************************)
EXTENDS Naturals, FiniteSets

CONSTANTS
    Bases,      \* package bases
    MaxCommit,  \* bound: commits of a package base, oldest first
    Blockable,  \* bound: commits that are ever blocked
    Contents,   \* what the sources of a recipe may be when they are fetched
    Runs,       \* bound: build runs that are ever made
    Procs,      \* processes
    Commands,   \* the commands started, out of AllCommands
    DenyMode,   \* the setting mode = "deny"
    RecoverAlone, \* nobody recovers or discards a transaction another is releasing
    None

AllCommands == {"approve", "approve --force", "build", "install", "update", "rebuild", "recover", "prune"}

ASSUME AurBuildAssumption ==
    /\ MaxCommit \in Nat \ {0}
    /\ Commands \subseteq AllCommands
    /\ Blockable \subseteq 1 .. MaxCommit
    /\ DenyMode \in BOOLEAN /\ RecoverAlone \in BOOLEAN
    /\ None \notin Bases \cup Contents \cup Runs \cup Nat

VARIABLES
    head,      \* the newest commit of each package base
    blocked,   \* commits that advisories or verdicts block
    lock,      \* pacvamp.lock: the approved commit of each package base
    approved,  \* history: the commits somebody approved
    run,       \* the build runs
    entry,     \* ledger: the run each installed package base came from
    pending,   \* ledger: the journaled transaction of each run
    proc       \* what each process is doing

vars == <<head, blocked, lock, approved, run, entry, pending, proc>>

Commits == 1 .. MaxCommit

Lockfiles == [Bases -> Commits \cup {None}]

FreeRun == [state |-> "free", base |-> None, commit |-> None, of |-> None,
            sources |-> None, told |-> None]

Idle == [at |-> "idle", cmd |-> "prune", base |-> None, yes |-> FALSE,
         saw |-> [b \in Bases |-> None], pinned |-> None, target |-> None, warned |-> FALSE,
         run |-> None, of |-> None, inputs |-> None, doomed |-> {}]

Init ==
    /\ head = [b \in Bases |-> 1]
    /\ blocked = {}
    /\ lock = [b \in Bases |-> None]
    /\ approved = {}
    /\ run = [r \in Runs |-> FreeRun]
    /\ entry = [b \in Bases |-> None]
    /\ pending = [r \in Runs |-> "no"]
    /\ proc = [p \in Procs |-> Idle]
-----------------------------------------------------------------------------
(* The cache lease: shared by the commands that may build or install, for   *)
(* their whole run, and exclusive for prune; whoever cannot have it fails.  *)
(* recover takes none.                                                      *)

Sharing(p) == proc[p].at # "idle" /\ proc[p].cmd \notin {"prune", "recover"}
Pruning(p) == proc[p].at # "idle" /\ proc[p].cmd = "prune"

Leased(shared) ==
    \A q \in Procs: ~Pruning(q) /\ (Sharing(q) => shared)

(* The lock of a package base, taken for a build; a busy one fails. *)
Building(q) == proc[q].at \in {"copy", "built"}
BaseIsFree(b) == \A q \in Procs: ~(Building(q) /\ proc[q].base = b)

At(p, step) == proc[p].at = step
Goto(p, new) == proc' = [proc EXCEPT ![p] = new]
Stopped(p) == Goto(p, Idle)

(* A command dies, is refused, or fails: its lease and lock go with it. *)
Stop(p) ==
    /\ proc[p].at # "idle"
    /\ Stopped(p)
    /\ UNCHANGED <<head, blocked, lock, approved, run, entry, pending>>
-----------------------------------------------------------------------------
(* Review and approval.                                                     *)

(* The lockfile is read before the checkout is synced. *)
Start(p, c, b, yes) ==
    /\ At(p, "idle")
    /\ c \in Commands \ {"rebuild", "recover", "prune"}
    /\ Leased(TRUE)
    /\ Goto(p, [Idle EXCEPT !.at = "review", !.cmd = c, !.base = b, !.yes = yes, !.saw = lock])
    /\ UNCHANGED <<head, blocked, lock, approved, run, entry, pending>>

LoadLock(p) ==
    /\ At(p, "load")
    /\ Goto(p, [proc[p] EXCEPT !.at = "review", !.saw = lock])
    /\ UNCHANGED <<head, blocked, lock, approved, run, entry, pending>>

(* The commit under review: the one asked for or the remote head. *)
Target(p) == IF proc[p].pinned # None THEN proc[p].pinned ELSE head[proc[p].base]

(* The feeds have an advisory or a verdict against it. *)
Warned(p) == <<proc[p].base, Target(p)>> \in blocked

Review(p) ==
    /\ At(p, "review")
    /\ Goto(p, [proc[p] EXCEPT !.at = "decide", !.target = Target(p), !.warned = Warned(p),
                               !.pinned = None])
    /\ UNCHANGED <<head, blocked, lock, approved, run, entry, pending>>

(* A block denies unattended or in deny mode and only warns otherwise. *)
Denied(p) == proc[p].warned /\ (proc[p].yes \/ DenyMode)

ApprovedAnyhow(p) == proc[p].saw[proc[p].base] # None
ApprovedHere(p) == proc[p].saw[proc[p].base] = proc[p].target

(* approve: what is not denied, and with --force anything. *)
Approving(p) == proc[p].cmd \in {"approve", "approve --force"}
ApproveMay(p) == Approving(p) /\ (Denied(p) => proc[p].cmd = "approve --force")

(* A build: what is not denied and somebody confirms. *)
PrepareMay(p) ==
    /\ proc[p].cmd \in {"build", "install", "rebuild"}
    /\ ~ApprovedHere(p) /\ ~proc[p].yes /\ ~Denied(p)

(* update: what somebody confirms and, with --yes, what has no finding. *)
UpdateMay(p) ==
    /\ proc[p].cmd = "update"
    /\ ~ApprovedHere(p) /\ (proc[p].yes => ~proc[p].warned)

(* What comes after the approval: update prepares the reviewed commit as    *)
(* install does, reading the lockfile again.                                *)
Onward(p) ==
    CASE Approving(p) -> Idle
      [] proc[p].cmd = "update" ->
            [Idle EXCEPT !.at = "load", !.cmd = "install", !.base = proc[p].base,
                         !.yes = proc[p].yes, !.pinned = proc[p].target]
      [] OTHER -> [proc[p] EXCEPT !.at = "approved", !.yes = FALSE, !.saw = Idle.saw]

(* The lockfile is written whole, as it was read with the one change. *)
SaveApproval(p) ==
    /\ At(p, "decide") /\ (ApproveMay(p) \/ PrepareMay(p) \/ UpdateMay(p))
    /\ lock' = [proc[p].saw EXCEPT ![proc[p].base] = proc[p].target]
    /\ approved' = approved \cup {<<proc[p].base, proc[p].target>>}
    /\ Goto(p, Onward(p))
    /\ UNCHANGED <<head, blocked, run, entry, pending>>

UseApproval(p) ==
    /\ At(p, "decide") /\ ~Approving(p) /\ ApprovedHere(p)
    /\ Goto(p, Onward(p))
    /\ UNCHANGED <<head, blocked, lock, approved, run, entry, pending>>
-----------------------------------------------------------------------------
(* Build runs.                                                              *)

Change(r, fields) == run' = [run EXCEPT ![r] = fields]
MyRun(p) == run[proc[p].run]

(* A directory of its own for every build. *)
OpenRun(p, r) ==
    /\ At(p, "approved") /\ run[r].state = "free"
    /\ Change(r, [run[r] EXCEPT !.state = "open", !.base = proc[p].base,
                                !.commit = proc[p].target, !.of = proc[p].of])
    /\ Goto(p, [proc[p] EXCEPT !.at = IF proc[p].cmd = "rebuild" THEN "replay" ELSE "fetch",
                               !.run = r, !.warned = FALSE, !.target = None])
    /\ UNCHANGED <<head, blocked, lock, approved, entry, pending>>

(* rebuild compares the retained sources with their receipt and copies them. *)
CheckRetained(p) ==
    /\ At(p, "replay") /\ BaseIsFree(proc[p].base)
    /\ run[proc[p].of].sources = run[proc[p].of].told
    /\ Goto(p, [proc[p] EXCEPT !.at = "copy"])
    /\ UNCHANGED <<head, blocked, lock, approved, run, entry, pending>>

(* makepkg --verifysource, and the inventory of what it left; then makepkg. *)
Fetched(p, content) ==
    /\ Change(proc[p].run, [MyRun(p) EXCEPT !.sources = content])
    /\ Goto(p, [proc[p] EXCEPT !.at = "built", !.inputs = content, !.of = None])
    /\ UNCHANGED <<head, blocked, lock, approved, entry, pending>>

Fetch(p) ==
    /\ At(p, "fetch") /\ BaseIsFree(proc[p].base)
    /\ \E content \in Contents: Fetched(p, content)

(* A replay refuses to build from other sources than the receipt's. *)
CopyUnchecked(p) ==
    /\ At(p, "copy")
    /\ Fetched(p, run[proc[p].of].sources)

CopyRetained(p) ==
    /\ At(p, "copy")
    /\ run[proc[p].of].sources = run[proc[p].of].told
    /\ Fetched(p, run[proc[p].of].sources)

(* No receipt for sources that changed since their inventory. *)
SourcesAreTheSame(p) == MyRun(p).sources = proc[p].inputs

WriteReceipt(p) ==
    /\ At(p, "built") /\ SourcesAreTheSame(p)
    /\ Change(proc[p].run, [MyRun(p) EXCEPT !.state = "done", !.told = proc[p].inputs])
    /\ IF proc[p].cmd = "install" THEN Goto(p, [proc[p] EXCEPT !.at = "record", !.inputs = None]) ELSE Stopped(p)
    /\ UNCHANGED <<head, blocked, lock, approved, entry, pending>>
-----------------------------------------------------------------------------
(* Installing: the journal of the ledger, as far as receipts go.            *)

Receipted(r) == run[r].state = "done"

(* rebuild reads the receipt of a run, and its commit is what it reviews. *)
StartRebuild(p, r) ==
    /\ At(p, "idle") /\ "rebuild" \in Commands /\ Leased(TRUE)
    /\ Receipted(r)
    /\ Goto(p, [Idle EXCEPT !.at = "review", !.cmd = "rebuild", !.saw = lock, !.base = run[r].base,
                            !.pinned = run[r].commit, !.of = r])
    /\ UNCHANGED <<head, blocked, lock, approved, run, entry, pending>>

RecordIntent(p) ==
    /\ At(p, "record") /\ Receipted(proc[p].run)
    /\ pending' = [pending EXCEPT ![proc[p].run] = "intended"]
    /\ Goto(p, [proc[p] EXCEPT !.at = "install"])
    /\ UNCHANGED <<head, blocked, lock, approved, run, entry>>

RecordCompletion(p) ==
    /\ At(p, "install")
    /\ pending' = [pending EXCEPT ![proc[p].run] = "completed"]
    /\ Goto(p, [proc[p] EXCEPT !.at = "release"])
    /\ UNCHANGED <<head, blocked, lock, approved, run, entry>>

Release(p) ==
    /\ At(p, "release")
    /\ entry' = [entry EXCEPT ![proc[p].base] = proc[p].run]
    /\ pending' = [pending EXCEPT ![proc[p].run] = "no"]
    /\ Stopped(p)
    /\ UNCHANGED <<head, blocked, lock, approved, run>>

(* recover restores, from one reading of the ledger, what a command left    *)
(* completed.                                                               *)
BeingReleased(r) == \E q \in Procs: At(q, "release") /\ proc[q].run = r

StartRecover(p, r) ==
    /\ At(p, "idle") /\ "recover" \in Commands
    /\ RecoverAlone => ~BeingReleased(r)
    /\ pending[r] = "completed"
    /\ Goto(p, [Idle EXCEPT !.at = "release", !.cmd = "recover", !.base = run[r].base, !.run = r])
    /\ UNCHANGED <<head, blocked, lock, approved, run, entry, pending>>

Discard(r) ==
    /\ pending[r] # "no"
    /\ RecoverAlone => ~BeingReleased(r)
    /\ pending' = [pending EXCEPT ![r] = "no"]
    /\ UNCHANGED <<head, blocked, lock, approved, run, entry, proc>>

Remove(b) ==
    /\ entry[b] # None
    /\ entry' = [entry EXCEPT ![b] = None]
    /\ UNCHANGED <<head, blocked, lock, approved, run, pending, proc>>
-----------------------------------------------------------------------------
(* Prune.                                                                   *)

StartPrune(p) ==
    /\ At(p, "idle") /\ "prune" \in Commands /\ Leased(FALSE)
    /\ Goto(p, [Idle EXCEPT !.at = "survey", !.cmd = "prune"])
    /\ UNCHANGED <<head, blocked, lock, approved, run, entry, pending>>

ReferredByEntries == {r \in Runs: \E b \in Bases: entry[b] = r}
Referred == {r \in Runs: pending[r] # "no" \/ \E b \in Bases: entry[b] = r}

(* Runs the ledger refers to are protected, and those of the last hour; any *)
(* other may be too old or too large.  A reference to a run that is gone    *)
(* fails the command.                                                       *)
Survey(p) ==
    /\ At(p, "survey")
    /\ \A r \in Referred: run[r].state # "gone"
    /\ \E doomed \in SUBSET {r \in Runs \ Referred: run[r].state \in {"open", "done"}}:
            Goto(p, [proc[p] EXCEPT !.at = "remove", !.doomed = doomed])
    /\ UNCHANGED <<head, blocked, lock, approved, run, entry, pending>>

RemoveRun(p, r) ==
    /\ At(p, "remove") /\ r \in proc[p].doomed
    /\ Change(r, [FreeRun EXCEPT !.state = "gone"])
    /\ Goto(p, [proc[p] EXCEPT !.doomed = @ \ {r}])
    /\ UNCHANGED <<head, blocked, lock, approved, entry, pending>>
-----------------------------------------------------------------------------
(* The world: commits are pushed and blocked, and something changes the      *)
(* sources of a run, a build without the jail for instance.                 *)

Push(b) ==
    /\ head[b] < MaxCommit
    /\ head' = [head EXCEPT ![b] = @ + 1]
    /\ UNCHANGED <<blocked, lock, approved, run, entry, pending, proc>>

Block(b) ==
    /\ head[b] \in Blockable
    /\ blocked' = blocked \cup {<<b, head[b]>>}
    /\ UNCHANGED <<head, lock, approved, run, entry, pending, proc>>

ChangeSources(r) ==
    /\ run[r].sources # None
    /\ run[r].state = "done" \/ \E p \in Procs: Building(p) /\ proc[p].run = r
    /\ \E content \in Contents: Change(r, [run[r] EXCEPT !.sources = content])
    /\ UNCHANGED <<head, blocked, lock, approved, entry, pending, proc>>
-----------------------------------------------------------------------------
Step(p) ==
    \/ \E c \in Commands, b \in Bases, yes \in BOOLEAN: Start(p, c, b, yes)
    \/ LoadLock(p) \/ Review(p) \/ SaveApproval(p) \/ UseApproval(p)
    \/ CheckRetained(p) \/ Fetch(p) \/ CopyRetained(p) \/ WriteReceipt(p)
    \/ RecordIntent(p) \/ RecordCompletion(p) \/ Release(p)
    \/ StartPrune(p) \/ Survey(p) \/ Stop(p)
    \/ \E r \in Runs:
          OpenRun(p, r) \/ StartRebuild(p, r) \/ StartRecover(p, r) \/ RemoveRun(p, r)

World ==
    \/ \E b \in Bases: Push(b) \/ Block(b) \/ Remove(b)
    \/ \E r \in Runs: ChangeSources(r) \/ Discard(r)

Next == World \/ \E p \in Procs: Step(p)

Spec == Init /\ [][Next]_vars
-----------------------------------------------------------------------------
RunType ==
    [state: {"free", "open", "done", "gone"}, base: Bases \cup {None},
     commit: Commits \cup {None}, of: Runs \cup {None}, sources: Contents \cup {None},
     told: Contents \cup {None}]

ProcType ==
    [at: {"idle", "load", "review", "decide", "approved", "replay", "fetch", "copy",
          "built", "record", "install", "release", "survey", "remove"},
     cmd: AllCommands, base: Bases \cup {None}, yes: BOOLEAN, saw: Lockfiles,
     pinned: Commits \cup {None}, target: Commits \cup {None}, warned: BOOLEAN,
     run: Runs \cup {None}, of: Runs \cup {None}, inputs: Contents \cup {None},
     doomed: SUBSET Runs]

(* Every variable has its type; a build has a commit, a receipt its sources. *)
TypeOK ==
    /\ head \in [Bases -> Commits]
    /\ blocked \subseteq Bases \X Commits
    /\ lock \in Lockfiles
    /\ approved \subseteq Bases \X Commits
    /\ run \in [Runs -> RunType]
    /\ \A r \in Runs:
          /\ run[r].state \in {"open", "done"} => run[r].commit \in Commits
          /\ run[r].state = "done" => run[r].told \in Contents
    /\ entry \in [Bases -> Runs \cup {None}]
    /\ pending \in [Runs -> {"no", "intended", "completed"}]
    /\ proc \in [Procs -> ProcType]

(* Every run that the ledger refers to, by an installed package or by a     *)
(* journaled transaction, is still there with its receipt.                  *)
ReferredRunsExist == \A r \in Referred: run[r].state = "done"

(* Only commits that somebody approved are built, however the head of the   *)
(* recipe moves and whoever writes the lockfile in between.                 *)
OnlyApprovedIsBuilt ==
    \A r \in Runs: run[r].commit # None => <<run[r].base, run[r].commit>> \in approved

(* A rebuild that got its receipt was built from the very sources of the    *)
(* receipt it replays, though they may change under it.                     *)
ReplayIsFaithful ==
    \A r, s \in Runs:
        run[r].state = "done" /\ run[r].of = s /\ run[s].state = "done" => run[r].told = run[s].told

(* docs/spec/repository-feeds.md: a block means never install or build.     *)
(* Violated: a commit approved before is built although the review of this  *)
(* very command found it blocked, also unattended.                          *)
BlockedIsNotBuilt ==
    \A p \in Procs: At(p, "approved") => ~proc[p].warned
=============================================================================
