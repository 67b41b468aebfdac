# A verification project for pacvamp

pacvamp is a front end to pacman: it plans package changes, verifies what
repositories publish, builds AUR packages from approved commits, lets pacman
apply the changes, and records in a ledger what was installed and on which
evidence. pacvamp-repo is its counterpart on the publishing side: it cuts and
promotes repository snapshots, watches vendors and the AUR, and signs what
clients verify. This directory holds TLA+ models of the parts of both programs
that decide something or keep state across crashes and processes, what TLC
checks about them, and what TLAPS proves.

Paths below are relative to `src/` of the repository (`crates/...`, `docs/...`).

## The system

| Component | State | Operations | Hard behaviour | Modules |
|---|---|---|---|---|
| Ledger and journal (`pacvamp/src/ledger.rs`, `cli/recover.rs`) | `state.json`: packages with evidence, index sequences, converged snapshot, pending transactions | merge of a patch under a file lock, `journaled`, `recover --write`, `--discard`, repairs | concurrent commands, elevated writers that outlive their parent, death at any step, failed records, old readings | `Ledger`, `Journal`, `RecordedFact` |
| Transactions and update (`cli/transaction.rs`, `engine/`, `update.rs`, `cli/update.rs`) | plans, update lock, database lock | plan, verify, confirm, apply; holds, hooks, AUR loop | plan resolved again when applied, two updates, hooks around failures | `Update` |
| Mirror pin and rollback (`channel.rs`, `cli/channel.rs`) | mirrorlist and its backup, sync databases, converged snapshot | pin, unpin, rollback, update | kills between file changes, rollback of a rollback, no lock | `MirrorPin` |
| Trust feeds, index, tool channel client (`trust/`, `cli/verify.rs`) | cached documents, sequence markers | fetch and check, fall back to the cache, record | stale and torn mirrors, old documents, unlocked cache | `TrustFeed` |
| AUR approvals, builds, cache (`lockfile.rs`, `aur/`, `cli/aur_cmd.rs`, `cli/cache.rs`) | `pacvamp.lock`, build runs, receipts, leases | review, approve, build, install, rebuild, prune | two writers, moving heads, prune against build, changed sources | `AurBuild`, `AurChain` |
| Build processes (`build_process.rs`, `cgroup.rs`, `jail.rs`) | process group, limits, cgroup, watcher | run, time out, kill | races of exit, timeout and output; the supervisor's own death | `BuildProcess` |
| Manifest and settings (`manifest/`, `cli/declare.rs`, `cli/converge.rs`) | declared packages, layers, managed files | add, drop, apply | edits undone after failures; many layers | `Manifest`, `Settings` |
| Database and configuration parsers (`alpm-db`) | none | compare versions, read pacman.conf | version order, levels over includes | `Version`, `PacmanConf` |
| Policy (`pacvamp-policy`) | none | findings of a review, their outcome | attended and unattended | `Policy` |
| Snapshot store (`pacvamp-repo/src/snapshot.rs`, `feed.rs`) | snapshots, signed manifests, channel pointers | cut, test, promote, hold, unhold, prune | kills between manifest, signature and pointer; retention | `SnapshotStore` |
| AUR mirror gate (`sync_aur.rs`, `verdict.rs`) | state file, verdict feed | review, merge, human verdicts | deaths between the files, recurring verdicts | `SyncGate` |
| Vendored packages (`vendor.rs`, `repack.rs`) | `vendor.lock`, PKGBUILD | vendor, repack; bumps by hooks | replayed lists, downgrades, deaths between files | `Upstream`, `VendorPackage` |
| Tool channel producer (`tool_channel.rs`) | signed index, mirrored artifacts | publish, promote, hold | half-done publications, replaced uploads, index and signature renamed one after the other | `Upstream`, `ToolChannel` |
| Attestations, signing, index (`attest.rs`, `rekor.rs`, `sign.rs`, `index.rs`) | sidecars beside a package | attest, upload, list, sign | stale sidecars, tree arithmetic, a rebuild between check and signature | `Signing` |
| Host view and resolver, search cache, audit, doctor, import, listings, terminal interface, HTTP, command line, deployment | reports and caches | read | none that a model helps with | - |

How they interact. Every command that changes packages reads the local database
and the ledger, builds a plan, checks it against cached feeds and the index
sequence of the ledger, and hands the plan's patch to `App::journaled`, which
records the intent, runs pacman, and records the completion and then the patch.
Update and rollback add the snapshot the machine converged to. The AUR commands
end in the same journal after building, and their receipts are referenced from
ledger entries, which is what keeps build runs from being pruned. The snapshot
store publishes the release manifests that pinning, rollback and update read;
the gate's verdicts and the signed index are what clients review and verify
with.

## Modules

Every module starts with a comment that says what stands for what. Modules
without an MC module of their own are instantiated through one of five
compositions, in each of which one behaviour follows one part and the others
stay in an initial state: the parts share no file, and products of their states
would say nothing new.

| Composition | Parts | MC module |
|---|---|---|
| `Host` | `Journal` (with `Ledger`), `MirrorPin`, `SnapshotStore` | `MCHost` |
| `Clients` | `Update`, `AurChain`, `Manifest`, `Settings`, `PacmanConf`, `Version` | `MCClients` |
| `Registry` | `VendorPackage`, `ToolChannel` (both with `Upstream`), `SyncGate` (with `Policy`), `Signing` | `MCRegistry` |
| `Progress` | `BuildProcess`, `TrustFeed`, with fairness | `MCProgress` |
| - | `AurBuild`; `SnapshotStore` and `BuildProcess` alone | `MCAurBuild`, `MCSnapshotStore`, `MCBuildProcess` |

The theorems are in eight modules ending in `Proofs`: see the section on proofs.

### Ledger, Journal, RecordedFact

`ledger` is the content of `state.json`. A patch (`ledger::Patch`) is a body
(upserts, removals, install reasons, sequences, snapshot) and at most one
journal entry to set or drop; that is what every caller builds. `Merge` follows
`Ledger::merge`: journal entries, removals, upserts that keep explicitness,
install reasons, the larger sequence, the snapshot.

A process runs one command at a time; `pc` says where it is. `Look` reads host
and ledger without the lock (`App::ledger`). `Begin` is `journaled`: it picks a
plan, an id, and records the intent. A record is the two steps `LoadLedger`
(lock, load) and one of the `Save...` actions (merge, rename, unlock), which
differ in what the command does next:

    SaveIntent      -> pacman may run
    PacmanSucceeds  -> record that the transaction completed
    SaveCompletion  -> record the patch and drop the journal entry, together
    SaveRelease     -> record the patch once more (install, update, rollback),
                       with the snapshot converged to and without demotions
    SaveRestored    -> recover goes on to the next entry
    SaveLast        -> the command is over

`PacmanFails` covers every other outcome of pacman, including the end of
pacvamp while pacman runs: any part of the plan is done and the journal keeps
the intent. `Stop` is a death or an early return, a failed or timed out lock
included; `SaveReportsError` is `save` failing after its rename; `ParentDies` is
the `__ledger` child going on without its parent. `Repair` and `RecordIndex`
are the records made outside the journal, `Recover`, `RestoreNext` and `Discard`
are `pacvamp recover`.

`RecordedFact` is what the ledger promises: evidence only of what was intended,
done, and durably known to be done. `fact` is a history variable; no guard reads
it.

Abstracted: an entry's evidence (tier, repository, commit, receipt,
verification) is the number of the transaction that accepted it; ids are
numbered in the order they are taken; `Look` reads ledger and local database in
one step; the second record's explicit flags are those of the first. A plan is
what pacman applies here; `Update` has pacman resolve again.

### MirrorPin

A command makes its changes one after the other; `run[p].step` names the next
one, and a kill or a failing write (`KillCommand`) may come before any of them.

    pin       WriteBackup, WriteList
    unpin     RestoreList, RemoveBackup
    rollback  WriteBackup, WriteList, EngineReady, RefreshDatabases, PlanIsMade,
              ApplyPlan, RecordSnapshot
              undone by RestoreList, RemoveBackup, RefreshDatabases
    update    RefreshDatabases, ReadRelease, PlanIsMade, ApplyPlan, RecordSnapshot

`PlanIsEmpty` skips the apply but not the record. `EngineFails`,
`RefreshFails`, `PlanFails` and `ApplyFails` are the failures a rollback undoes
(`UndoRollback`) and an update ends with; after `RecordFails` a rollback retains
its pin. `MoveChannel` and `EditList` are the publisher and the user. `mine` is
a history variable, the list the user wrote last.

A mirrorlist is one of the user's, which serves what the channel points at, or
a snapshot's. Abstracted: packages, of which only the snapshots they are from
matter (sets, as a failed transaction leaves a mixture); manifests beyond their
id; checks and prompts before the first change. Databases keep newer contents
unless a refresh is forced, as with pacman's `-Sy` and `-Syy`, and only a
rollback downgrades packages.

### Update

`repo` is the mirror with its index and the AUR, `host` the databases, installed
versions, lock file and settings, `ledger` the entry of the repository package.
An update goes `lock`, `refresh`, `plan`, `pre`, `verify`, `download`, `apply`,
`record`, `aur`, `post`; any of them may fail or be killed. pacman resolves a
transaction from the databases it finds each time it is run (`Resolves`), so
that `OtherRefresh`, somebody's `pacman -Sy`, matters; `host.disturbed` says
that somebody did, or that two updates overlapped. Age floors are a choice of
what is too young.

A release of the repository is in its index or not, and has build provenance or
not (`repo.evidence`). `VerifyIndex` and `Download` are `verify_transaction`:
the index cannot be had, is invalid or is for another database; it does not list
the package; it lists it without provenance, or with provenance that verifies.
`Suffices` is what `required` refuses, `Loses` what `no_downgrade` does. The
settings of trust are all combinations that `TrustChoices` gives, both checks
off among them.

### AurBuild and AurChain

`AurBuild` follows a recipe from review to prune. The lockfile is read before
the review and written whole (`SaveApproval`); `head` moves and is blocked
meanwhile. A build run is a directory; `told` is what its receipt says its
sources were, `sources` what they are. `Leased` is the cache lease, shared by
builders and exclusive for prune; `recover` takes none. `ChangeSources` is
whatever changes files of a run, a build outside the jail for instance.

`AurChain` is the recursion of one `install`: `calls` is the call chain, each
call with the package it is for and the needs it has still to meet. Every
dependency graph over the packages, with at most `MaxNeeds` edges, and every way
to split them into recipes is an initial state.

### BuildProcess, TrustFeed, Progress

`BuildProcess` has the supervisor's loop (limits sampled, then `try_wait`, then
the final check), the process group, the cgroup and the watcher process that
outlives the supervisor, and the `__build` helper that joins the cgroup on its
own. A recipe forks, writes, hangs and exits as it likes.

`TrustFeed` has a publisher that renames document and signature one after the
other and undoes a failure, mirrors that serve the two members from different
moments, and clients that read the cache before the network and write it
afterwards without a lock. `RecordSequence` is the marker that stops rollback.

### Manifest, Settings, PacmanConf, Version

`Manifest`: `add` edits the user's file, transacts, and puts the file back when
it fails; what was done by then is `Owed`. `Settings`: layers, then managed
files, each with its combinator; the weight of a reviewer and the exclusions
from the release age have none, and the last managed file's replace the others. `PacmanConf`: sections, includes, merging of
levels with their masks, and the configuration rollback stages. `Version`:
rpmvercmp over segments; `Word` is the reference order, lexicographic over
tokens.

### SnapshotStore

A command loads a manifest, decides, and makes its file system changes one by
one: `command[p].steps` holds those still to be made, so that a kill (`Killed`), a
failed rename (`SignatureFails`), a failed cut (`CutFails`) or an interrupted
removal (`PruneIsInterrupted`) may come between any two. `document` and
`signature` are the two files of a signed manifest; a manifest is readable when
they agree. `Fallback` is the search of hold and of a failed test.

Abstracted: the contents of snapshots beyond whether all is there, suites (the
result is a choice), and ids (any free id, as `--id` allows). One cut is
unfinished at a time, and the fallback search reads the store in one step.

### Upstream, VendorPackage, ToolChannel

`Upstream` is a vendor with its signed release lists and GitHub's unsigned
listing, and the rules that choose and accept a release. `VendorPackage` writes
`vendor.lock` and the PKGBUILD one after the other; `ToolChannel` mirrors the
artifact and then renames the index (`RenameIndex`) and its signature
(`WriteSignature`, which may fail and put the index before back). Until the
signature has its name `torn` keeps the index it is of, and `Loads` says that no
command, and no client, accepts the pair. A vendor may upload files again. Who
attests a release, its vendor or a repackager, and its evidence are what its
packslip says (`Documents`), whatever configuration it is resolved for.

`Bump` is external: a hook of the repository moves a PKGBUILD to a version it
found. `Hooked` states the assumption that hooks do so only for packages whose
lock `vendor` did not write (`docs/spec/vendor-pipeline.md:96-111`, "For vendors
without packslips"); nothing in `src/` enforces it, and `NoSilentDowngrade`
would fail without. The pardon of an override lasts until the PKGBUILD is next
written by `vendor`, also when the run it was given to died before that.

### Policy and SyncGate

`Policy` is the findings engine of client and gate; evidence says on which side
of a threshold a number is. `SyncGate` reviews the AUR head against what was
merged last, appends a static verdict to the feed and moves the state file on.
What a change of a recipe is (a version bump, checksums skipped, a script, a
recipe) stands for the text of its diff.

### Signing

`attest` writes a statement and has a transparency log include it; `index`
lists the package; `sign` checks all of it. Hashes are terms. `TreeHash` and
`AuditPath` are the Merkle tree of RFC 6962 and the path to one of its leaves, as
the tests of `rekor.rs` compute them; `RootFromInclusion` is the code's
arithmetic: `Inner` and `Border` count bits of the index and of the last index
(`Shifted` is `>>`), and `Climb` is its two loops over the proof. An answer is
right, has one thing wrong (index, size, body, root, proof, checkpoint), is about
another entry, or is all right about a tree that is not the log's (`Foreign`).
Without `--rekor-pubkey` such a tree passes, in the code and in the model: "which
is what ties the proof to the public log rather than to whatever answered the
upload" (`docs/spec/provenance.md:124-126`). `EvidenceIsJudgedRight` says so: with the
key an answer passes exactly if the log has it, without it if it adds up, and
then it is of the log exactly if its root is.

`sign` is two steps, `CheckPackage` and `GpgSign`, with rebuilds between:
`signing.replaced` remembers one, and `SignedIsAttested` holds of signatures
without. The check reads the file and what lies beside it in one step; a
replacement in the middle of it counts as one after it. What lies beside a
package may be of an earlier build.

## Runs

| Run | Asks | Bounds |
|---|---|---|
| `host` | whether the ledger accounts for every difference to the host (`DifferencesAreJournaled`), sequences and reasons survive, the user's mirrorlist is kept (`UserListIsKept`), a rollback is all or nothing; whether channels name snapshots that are there (`TargetsAreKept`), manifests are ahead of pointers, moves go the way their command says, and what stable named is kept longer | one command at a time; 2 transactions and sequences up to 2; 2 snapshots, 2 user lists, 2 kills; in the store 2 snapshots and an unfinished one, 1 kill or failure, clock to 1: before and past the retention |
| `journal_concurrent` | `WriteAhead`, `EvidenceIsCertified`, `JournalLeavesWithItsPatch`, and that `Journal` implements `RecordedFact` | 2 processes with elevated writers, 1 package, 2 transactions: a late writer meets the other's transaction |
| `aur_builds` | whether runs that the ledger refers to exist, only approved commits are built, a replay is of the receipt's sources | 2 processes, 2 runs, 2 commits of one recipe, 2 contents of its sources |
| `progress` | whether a build ends, alone, within its budget, also when its supervisor dies; whether a client ever goes back and gets the newest document | 2 phases, a descendant, a clock to the wall limit; 2 clients, 2 documents and one of another repository |
| `registry` | whether merges without a human add up, downgrades are silent, lists are replayed, publications change, and a signature has the evidence it should | 2 versions, 3 lists, 2 signers, 2 kinds of packslips (a vendor's with provenance, a repackager's with a check of the vendor's signature), clock to 2; 2 commits, 2 verdicts; 2 builds, 2 statements, a log of up to 4 entries; signers and builds are interchangeable |
| `clients` | whether updates exclude each other and record what pacman did, evidence is not lost, builds have what they need, the manifest has what was done, floors hold, levels are the last words, versions are ordered | 2 updaters, 2 releases, 4 settings of trust; 4 AUR packages, 3 needs, depth 3; 2 packages in 2 layers; 5 lines of pacman.conf, includes 2 deep; versions of 2 segments |
| `aur_blocked`, `supervisor_orphan`, `gate_verdict`, `update_held`, `hold_lost`, `managed_loosens` | violations, see below | as small as they show in |

Two of each kind are enough for most of these questions: they concern one
package, snapshot, recipe or document and at most two commands, promotions or
versions of it. Where two were not enough, the bound is larger: a cycle between
split recipes takes three or four packages; a replaced upload that meets an
unfinished publication takes three lists and two ticks, one to pass the age
rule each time. Bounds of the code are smaller where the number does not
matter: `MaxAurDepth` is 3 for the code's 8 (`cli/aur_cmd.rs:198`), `MaxIncludeDepth` 2 for its 10,
the wall limit 2 ticks, the disk budget 1 unit. `registry` reviews only heads
that are younger than the soak (`Recent`), which is what a gate that runs at
once meets and which decides nothing but a finding; `gate_verdict` has both.
Single larger instances were checked while the models were written, among them
three snapshots in `Host` and five entries in the log of `Signing`, with the same
results.

Deadlock is checked where commands can always start; the compositions with
`CHECK_DEADLOCK FALSE` have parts that end: versions are compared once, a chain
of builds returns, a vendor publishes its last list.

Type invariants that no run lists (`UpdateType`, `ChainType`,
`GateType`, `FeedType` and the like) say what the variables range over; `TypeOK`
of the journal is checked and proved.

### What the violations show

- `aur_blocked`: `docs/spec/repository-feeds.md:106` says "`block` means never
  install or build". A commit that was approved before it was blocked is built
  and installed without a question, unattended and in deny mode too, although
  the review of that very command reports the block (`cli/aur_cmd.rs:251-286`).
- `supervisor_orphan`: the watcher kills the cgroup once (`cgroup.rs:130`) and
  the helper joins on its own. If pacvamp is killed between the orders and the
  join, the build goes on, and the group stays: what the cgroup and the process's
  own resource limits bound stays bounded, but nobody samples the wall clock and
  the disk any more, or kills it. `docs/build-controls.md:90` promises the removal.
- `gate_verdict`: a verdict equal to any earlier one on the commit is not
  appended (`sync_aur.rs:270-278`). After block, pass, block, the feed's last word
  is pass.
- `update_held`: a hold on one package of a split recipe does not keep an update
  of its sibling from upgrading it (`cli/update.rs:615-623`), against
  `docs/manifests.md:34`.
- `hold_lost`: `snapshot test` writes back the manifest it loaded before the
  suite ran (`snapshot.rs:280`, `302`, `316`). A hold placed meanwhile is gone,
  and rc may move onto the held snapshot; `docs/spec/snapshot-store.md:57-60` has
  `unhold` clear the flag, and nothing else. The run has two processes; `host`,
  whose store properties are promises for one command at a time, does not list
  `HoldIsKept`.
- `managed_loosens`: with a second managed file the weight of a reviewer and the
  exclusions from the release age are what that file says, stricter or not
  (`manifest/settings.rs:452-459`), where `manifest/mod.rs:7-8` has "combinators
  that can only tighten". `FloorHolds` says of these settings only that a layer
  never decides them.

### What a larger instance shows

Properties of the passing runs are promises under the conditions the runs state.
These behaviours appear when a condition is dropped; no document promises
otherwise, so that no run expects them:

- Recover matches by version only (`cli/recover.rs:59`): two transactions that
  installed one version and stopped before their records may be restored in
  either order, and the installed package shows the other's evidence. With two
  processes a release that comes late (`cli/recover.rs:97`; `RecoverAlone = FALSE`
  in `AurBuild`) does the same.
- The second record of install, update and rollback (`cli/install.rs:125`) comes
  after the journal released the transaction: when another command removes the
  package in between, its entry comes back.
- `SnapshotStore` with two processes: besides `hold_lost`, cuts may finish
  in the other order; two writers of one manifest share the names of their
  temporary files (`feed.rs:57`). With one process, the soak counts from the
  promotion to rc, which a hold does not reset (`snapshot.rs:365`).
- `MirrorPin` with `EditsOverBackup`: a backup that a killed pin left is taken for
  the list of a user who edited it since (`channel.rs:253`). With two processes a
  rollback and a pin interleave (`cli/channel.rs:351`). An update whose plan is
  empty, because databases or packages are newer than an older snapshot, records
  that snapshot as converged to (`cli/update.rs:181`, `407`).
- `SyncGate` with two processes in `Runs`: the feed and the state file are written
  back as they were loaded (`verdict.rs:70`), and a merge may have lost its
  verdict. A gate run that began before a human edited the state file
  overwrites the edit.
- `TrustFeed` for advisories, which have no marker: an old feed that was fetched
  first may end up in the cache.
- `Update` beside a foreign `pacman -Sy` or `pacvamp install`, which takes no
  update lock: pacman installs what it finds, under an age hold that was computed
  for another version, and the ledger read before is older than the one
  recorded into. `LedgerAgrees` is about undisturbed updates.
- `Manifest` with two editors: `add` puts back the file as it read it
  (`cli/declare.rs:191`), and what another command declared since is lost.
- `Signing` with a file that is replaced between `sign`'s check and gpg
  (`sign.rs:122`, `131`): gpg reads it again, and signs what nobody attested.
- `AurBuild` with two processes: two approvals at once, each of which writes the
  lockfile it read (`cli/aur_cmd.rs:285`), and one is lost.

### Observations

Noted while modelling, where the code may well be what is wanted:

- The gate, verdict and advisory commands take no lock. A gate may merge back to
  an older commit when the branch is pushed back. When history was rewritten,
  the silence before a commit is unknown and a large change is not reported.
- Publishing a tool version again rewrites the entry's project.
- A release or a tool index whose publisher died between document and signature
  cannot be extended by any command, nor verified by a client; the pair has to be
  mended by hand, although `write_signed` is said to write it "atomically"
  (`feed.rs:43`).
- With `provenance = "required"` and an index that is only verified, a package
  the index does not list passes with a warning (`cli/transaction.rs:503-529`),
  where `docs/spec/repository-feeds.md:179` says "`required` refuses a package
  without it". `Suffices` has it as the code does. With both checks off,
  `no_downgrade` is not looked at either.
- `SigLevel::tokens` prints no `TrustedOnly` for packages (`alpm-db/src/conf.rs:401`):
  what rollback stages under a global `TrustAll` trusts all keys where the
  configuration has `PackageTrustedOnly`. What is checked stays the same
  (`StagingChecksTheSame`).
- A mirror that serves another repository's index makes age floors fall back to
  build dates.
- Bootstrapping a cycle installs the one sibling that is needed; which packages
  are requested decides whether a cycle is found. Dependency files are
  installed before explicit ones.
- Version comparison with trailing separators is not transitive, as in libalpm;
  `VersionsAreOrdered` is about parts without.
- The manifest is written in place (`manifest/edit.rs`), unlike every other file.
- `sign` skips a package that has a `.sig`, also one of an earlier build.

## Fairness

Two runs have liveness. In `progress` the supervisor, its clock, the helper's
start and the two duties of the watcher are weakly fair: they are loops of the
program, with bounded waits, that nobody has to call. A recipe is not: that a
phase ends although it may hang is the point of `PhaseEnds`. Nor are the user's
interrupt, a kill or the watcher's own death. Each step of a client is weakly
fair, since it is a sequential program; `RecordSequence` is strongly fair,
because it waits for a lock that the others hold for a moment. The publisher and
the mirror are not fair: `NewestIsUsed` says what follows once a mirror serves
the newest document for good.
`supervisor_orphan` has the same fairness, so that its counterexample is not a
program that merely stopped.

Everything else is a safety or an action property: commands are started by
users, and nothing obliges a killed one to be repeated.

## Proofs

Eight modules hold the theorems, each about one or a few of the specifications.
All constants are arbitrary: any number of processes, packages, versions,
snapshots, lines or commits, within the assumptions that the modules state.

| Module | Theorem | Says | Assuming |
|---|---|---|---|
| `JournalProofs` | `TypeCorrect`, `WriteAheadHolds`, `EvidenceCertified` | `TypeOK`, `WriteAhead`, `EvidenceIsCertified` are invariants | |
| | `SequencesKept`, `ExplicitKept` | `SequencesNeverGoBack`, `ExplicitIsKept` | |
| | `JournalImplementsRecordedFact`, `LedgerFounded` | `Journal` implements `RecordedFact`, so that what that promises holds of the ledger | |
| | `JournalLeaves` | `JournalLeavesWithItsPatch` | |
| | `NoChangeIsLost` | `DifferencesAreJournaled` | `OneProcess` |
| `MirrorProofs` | `PinTypes`, `UserListKept` | `PinType` (no run lists it), `UserListIsKept` | -, `Serial` |
| | `RollbacksAreWhole` | `RollbackIsAllOrNothing` | `OnePinner` |
| | `BothAreKept`, `HostIsSafe` | behaviours of `Host` are ones of `Journal`, `MirrorPin` and `SnapshotStore`; what run `host` checks of ledger and mirrorlist | -, `OneProcess` and `Serial` |
| `AurProofs` | `Typing`, `ApprovedOnly`, `FaithfulReplay` | `TypeOK`, `OnlyApprovedIsBuilt`, `ReplayIsFaithful` | |
| | `ReferredRunsStay` | `ReferredRunsExist` | `RecoverAlone` |
| `UpdateProofs` | `UpdatesAreExclusive`, `HooksAreClosed`, `LedgerIsRight` | `UpdatesExclude`, `PostHooksRun`, `LedgerAgrees` | |
| | `EvidenceOnlyGrows` | `EvidenceIsKept` | |
| `ClientsProofs` | `FloorIsHeld`, `LastWordsCount`, `BuildsHaveAll` | `FloorHolds`, `LevelsAreLastWords`, `BuildsAreComplete` | |
| | `StagedAsOnTheHost`, `VersionsOrdered` | `StagingChecksTheSame`, `VersionsAreOrdered` | |
| | `OwedStaysDeclared` | `OwedIsDeclared` | `OneEditor` |
| | `PartsAreKept`, `ClientsAreSafe` | behaviours of `Clients` are ones of its parts, and the invariants hold together | |
| `RegistryProofs` | `DowngradesAreAllowed`, `ReplaysAreAllowed` | `NoSilentDowngrade`, `ListsAreNotReplayed` | |
| | `PublishedStays`, `MergesAreSeeded` | `PublishedIsImmutable`, `MergedRecipeIsSeeded` | |
| | `MergesPass` | `MergesWerePassed` | `OneGate` |
| | `ProofsAreOfLeaves` | `root_from_inclusion` reaches a tree's root from no leaf but its own, with no proof but its path, for trees of every size | |
| | `SignedWasAttested`, `EvidenceIsRight` | `SignedIsAttested`, `EvidenceIsJudgedRight` | |
| | `ServicesAreApart`, `RepositoryIsSafe` | the same for `Registry` | |
| `ProgressProofs` | `PhasesAreClosed`, `BudgetIsKept` | `NothingOutlivesPhase`, `SuccessIsWithinBudget` | |
| | `NoneIsRolledBack` | `RollbackIsRefused` | |
| | `MachineIsSafe` | the three for `Progress`, with its fairness | |
| `StoreProofs` | `StoreTyping` | `StoreType` (no run lists it) | |
| | `TargetsStay`, `ManifestsComeFirst` | `TargetsAreKept`, `ManifestSaysFirst` | `OneCommand` |
| | `MovesStayOneWay`, `StableIsKept` | `MovesAreOneWay`, `StableIsKeptLonger` | `OneCommand` |

### What is assumed

The last column is what the runs assume too, by the instances they choose:

- `OneProcess`, `OnePinner`, `OneCommand`, `OneGate`, `OneEditor`: one command
  at a time. No lock makes it so; "What a larger instance shows" says what
  happens without.
- `Serial`: one command at a time, and nobody edits the mirrorlist beside a
  backup that a killed command left.
- `RecoverAlone`: nobody recovers a transaction that another still releases.

The other assumptions are the named `ASSUME`s of the modules, which TLC
evaluates in the runs: bounds are numbers, values for "none" are none of the
others (`AbsentIsNotInstalled` of `Journal` among them), the constants that
choose settings, commands and tokens choose ones that exist, there is a signer
who is not the repackager.

### Why the invariants are not inductive, and what is

Each proof has one inductive invariant per specification; it names what a
process knows between two of its steps, because that is what the properties do
not say.

- **Journal.** Evidence reaches the ledger through patches that were put together
  from an old reading, kept by a process, or journaled and restored later.
  `Inductive` says of every place that evidence passes through that it is honest:
  the ledger and every ledger a process has read (`HonestLedger`), the patch on
  its way (`HonestPatch`), the body of a running transaction (`Stage`). The lock
  protects what was loaded (`LockProtects`), without which a merge would be into
  something else than the file, and a transaction has one process (`Ownership`),
  without which one process could complete what another still applies.
  `JournalIsConsistent` adds that whoever speaks of a transaction (the ledger,
  old readings, commands, patches) means the same packages, and that ids not yet
  taken are unknown: else a recovery from an old reading could drop an entry
  with another patch than its own. `HostInvariant` adds, for one process, what
  the command under way knows of the host (`Informed`): which of the differences
  its own transaction explains.
- **MirrorPin.** Types need that a command about to write a list has one
  (`Aimed`). The user's list needs that a backup is that list whether or not a
  pin is in force, and that what a rollback or an unpin read at its start is
  still what it has to restore (`Remembers`). `RollbackInvariant` says at each
  step of a rollback where list, databases and packages are (`OnItsWay`).
- **AurBuild.** `AurInv` says that the cache lease keeps every command but
  recover away from a prune (`Alone`), that a build has its run to itself
  (`Own`), and what each command knows (`Knows`): what it read from the lockfile
  was approved, its run is open until the receipt is written, what it replays
  has a receipt and the sources it copied. `ReferInv` adds how far the
  transaction of a run is (`Recorded`), that it has one releaser (`Sole`), and
  that what prune is about to remove is not referred to (`Spares`).
- **Update.** `UpdatesExclude` speaks of early updates; inductive is that running
  updates have different lock paths. `UpToDate` says that what an undisturbed
  update read is still so; evidence needs that what it is about to record is
  weighed against the ledger it read (`Weighed`).
- **Clients.** `Floors` compares the settings so far with the strictest said so
  far. Of pacman.conf the invariant says which owner's level each open section
  and each pending include stands for (`Placed`), and that what was said of an
  aspect is what the mask and value of its level say (`Said`). An edit keeps
  what it will put back (`Kept`). A call of the chain lacks nothing but what it
  has noted as missing (`Noted`); what is selected of its outputs is closed under
  their needs by definition, the least such set. Staging rests on
  `LastTouchDecides`: of the printed tokens the last that touches a bit decides
  on it, whatever came before. Versions rest on `PartsAreWords`: where the loop
  ends is where the words first differ. Both go by the least place where they
  would fail (`SomeIsLeast`).
- **Registry.** Lock and PKGBUILD are written one after the other, so that
  `PackageInv` orders them (`Climbs`) and says what the attempt under way has
  written (`Underway`); likewise for
  artifact and index (`Underpublication`); an index whose signature is still to
  come has all that the one before has (`Extends`).
  `MergesWerePassed` needs that what a gate has appended is still in the feed
  when it writes the state (`Passing`). `EvidenceInv` says what form an answer
  and what lies beside the package can have (`AnswerTo`): hashes along a path, and
  checkpoints of which the genuine ones are the log's, which they stay as it
  grows; that the check judges any such answer right is a fact about trees
  (below).
- **BuildProcess and TrustFeed.** `BuildInv` says at which steps of the
  supervisor no process of the phase can be there that would write or fork: a
  success was accounted for after the last of them. `FeedInv` says of each request
  that what it has accepted is no older than what it read from the cache, that
  the marker is no older than what was last used, and that one process at a time
  replaces it.
- **SnapshotStore.** A command's remaining file system changes are a sequence.
  `StoreInv` lists the stages each command can be at and what is true of files,
  manifest and pointers there (`Holds`), so that a kill between any two leaves
  `Sound`. The search for a fallback and the newest release need that a nonempty
  finite set of numbers has a largest, from the well-foundedness of the naturals.

`ProofsAreOfLeaves` is an induction over the size of a tree. `PathsAreDeep` and
`ClimbsAreOfLeaves` go from a subtree to its halves, and the code's arithmetic
has to do the same: `LeftSubtree` and `RightSubtree` say that the bits of a place
in a tree are those of the place in its half and one step more, on the side that
half is on. They rest on what a shift leaves of a number below a power of two,
from it on, or one before it (`LowBits`, `TopBit`, `AllBits`). The recursive
functions are shown to exist by extending them one argument at a time (`PowerIs`,
`HashesAre`, `PathsAre`, `ClimbIs`), and each induction is the search for a least
number where it would fail (`UpTo`, `Below`).

The refinement is the step lemma `FactStep` (history only grows, as
`RecordedFact` does) and one case per save that shows evidence. The compositions
are proved by projection: each step of one is a step of one part and a stutter
of the others.

### Only model-checked

- `PhaseEnds`, `JoinedOrphansDie`, `NewestIsUsed`: liveness under fairness.
- The expected violations, which are counterexamples.

## Not modelled

- Host view and resolver, search cache, audit, doctor, import, listings: they
  read pacman's databases and files and report; nothing they write is read back
  by a decision.
- Parsers of package and database descriptions, `.SRCINFO` and manifests:
  handling of text without state.
- What landlock, seccomp and a chroot forbid a recipe, image digests and the
  environment of makepkg: facts about the kernel and files, not steps.
- Terminal interface, HTTP, argument handling, deployment scripts, the mise
  plugin.
- In modelled parts: rendering, `--dry-run`, which changes nothing, the numbers
  behind policy thresholds, and encodings. Cryptography is abstracted
  everywhere: a signature is by a key or it is not, and a digest names one
  content.
