------------------------------ MODULE SyncGate ------------------------------
(***************************************************************************)
(* The gate of the repository's AUR mirror: a run reviews the head of a    *)
(* package against what was merged last, appends a static verdict to the   *)
(* signed feed and moves the state file on when the change is a clean      *)
(* version bump.  Neither file is locked: a run keeps what it loaded until *)
(* it writes it back, and may die between the two writes.                  *)
(*                                                                         *)
(* Code: crates/pacvamp-repo/src/sync_aur.rs, verdict.rs,                   *)
(* crates/pacvamp/src/trust/feeds.rs                                       *)
(***************************************************************************)
EXTENDS Policy, Sequences, SequencesExt

CONSTANTS
    Runs,           \* processes that run the gate or add verdicts
    Maintainers, Trusted,
    Recent,         \* bound: whether a reviewed head is younger than the soak
    MaxCommits,     \* bound: commits of the AUR package
    MaxVerdicts     \* bound: entries of the feed

ASSUME GateAssumption ==
    /\ Trusted \subseteq Maintainers /\ Recent \subseteq BOOLEAN
    /\ MaxCommits \in Nat \ {0} /\ MaxVerdicts \in Nat

VARIABLES
    commits,    \* what each commit of the AUR repository has
    head,       \* its branch, which may be pushed back
    merged,     \* the state file
    feed,       \* the verdict feed
    run,        \* what each process has loaded and decided
    seeded      \* history: recipes a human has merged

gate == <<commits, head, merged, feed, run, seeded>>

Commits == 1 .. MaxCommits
CommitType == [recipe: Commits, scripts: SUBSET {"install"}, skipped: BOOLEAN]
Unmerged == [commit |-> 0]
Merges == [commit: Commits, maintainer: SUBSET Maintainers]
Verdicts == [commit: Commits, reviewer: {"static", "human"}, verdict: {"pass", "flag", "block"},
             findings: SUBSET FindingId]
NoRun == [at |-> "idle"]

GateInit ==
    /\ commits = <<[recipe |-> 1, scripts |-> {}, skipped |-> FALSE]>> /\ head = 1
    /\ merged = Unmerged /\ feed = <<>>
    /\ run = [r \in Runs |-> NoRun]
    /\ seeded = {}

GateType ==
    /\ commits \in Seq(CommitType) /\ head \in 1 .. Len(commits) /\ Len(commits) <= MaxCommits
    /\ merged \in Merges \cup {Unmerged}
    /\ feed \in Seq(Verdicts) /\ Len(feed) <= MaxVerdicts
    /\ \A r \in Runs: run[r].at \in {"idle", "reviewed", "loaded", "logged"}
    /\ seeded \subseteq Commits
-----------------------------------------------------------------------------
(* The AUR and the people of the repository.                                *)

rest == <<merged, feed, run, seeded>>

(* Only the version, the checksums, an install script, or the recipe.       *)
Push(change) ==
    /\ Len(commits) < MaxCommits
    /\ commits' = Append(commits, CASE change = "bump" -> commits[head]
           [] change = "skip" -> [commits[head] EXCEPT !.skipped = TRUE]
           [] change = "script" -> [commits[head] EXCEPT !.scripts = {"install"}]
           [] change = "recipe" -> [commits[head] EXCEPT !.recipe = Len(commits) + 1])
    /\ head' = Len(commits') /\ UNCHANGED rest

PushBack(c) ==
    /\ c < head /\ head' = c
    /\ UNCHANGED <<commits, rest>>

(* A human merges the head by editing the state file. *)
Seed(maintainer) ==
    /\ merged' = [commit |-> head, maintainer |-> maintainer] /\ merged' # merged
    /\ seeded' = seeded \cup {commits[head].recipe}
    /\ UNCHANGED <<commits, head, feed, run>>
-----------------------------------------------------------------------------
(* One review.                                                              *)

(* World: what the review is told of the package: the maintainer the RPC    *)
(* names ({} for an orphan), whether the head is younger than the soak, the *)
(* actions of the advisories that name it.                                  *)
Worlds == [maintainer: {{}} \cup {{m}: m \in Maintainers}, recent: Recent,
           advisories: {{}, {"hold"}, {"block"}}]

HoldOnly(world) == world.advisories = {"hold"}

(* The commit merged last stands in for what a client approved; a state     *)
(* file that does not know the maintainer then takes the one of now.        *)
Evidence(state, c, world) ==
    [rpc |-> {[maintainer |-> world.maintainer, submitter |-> {}, young |-> FALSE,
               pending |-> FALSE, popular |-> TRUE, outOfDate |-> FALSE]},
     approved |-> IF state = Unmerged THEN {}
                  ELSE {[commit |-> state.commit, hosts |-> {"upstream"},
                         scripts |-> commits[state.commit].scripts,
                         maintainer |-> IF state.maintainer = {} THEN world.maintainer
                                        ELSE state.maintainer]},
     target |-> c, recent |-> world.recent, pinned |-> FALSE, firstInstall |-> FALSE,
     similar |-> FALSE,
     recipe |-> [hosts |-> {"upstream"}, skipped |-> commits[c].skipped, vcs |-> FALSE,
                 scripts |-> commits[c].scripts, hits |-> {}],
     diff |-> [files |-> {}, large |-> FALSE, quiet |-> FALSE],
     verdicts |-> {}, advisories |-> world.advisories]

GateReport(state, c, world) == Evaluate(Evidence(state, c, world))

(* Nothing but the PKGBUILD and the .SRCINFO differ, and in the PKGBUILD     *)
(* only lines of versions and checksums, which cannot run anything.         *)
OnlyRecipeFiles(from, to) == commits[from].scripts = commits[to].scripts

DiffIsBump(from, to) == commits[from].recipe = commits[to].recipe

SrcinfoBump(from, to) == OnlyRecipeFiles(from, to)

PureBump(from, to) == OnlyRecipeFiles(from, to) /\ DiffIsBump(from, to)

GateFindings(report) ==
    report \ {"new-package", "recent-commit", "low-reputation", "similar-name"}

Denials(report, world) ==
    {id \in GateFindings(report):
        /\ Decide(Unattended, id) = "deny"
        /\ ~(HoldOnly(world) /\ id = "upstream-advisory")
        /\ world.maintainer # {} \/ id \notin {"orphaned", "maintainer-changed"}}

Outcome(state, c, report, world) ==
    CASE state.commit = c -> "unchanged"
      [] state = Unmerged -> "needs-review"
      [] state # Unmerged /\ state.commit # c /\ Denials(report, world) # {} -> "blocked"
      [] OTHER ->
            IF /\ world.maintainer # {} /\ world.maintainer \subseteq Trusted
               /\ ~Flagged(Unattended, GateFindings(report))
               /\ PureBump(state.commit, c)
            THEN "auto-merge" ELSE "needs-review"

StaticVerdict(c, outcome, report) ==
    [commit |-> c, reviewer |-> "static", findings |-> report,
     verdict |-> CASE outcome = "auto-merge" -> "pass"
                   [] outcome # "auto-merge" /\ Denied(Unattended, report) -> "block"
                   [] OTHER -> IF Flagged(Unattended, report) THEN "flag" ELSE "pass"]

(* One run with --write and --verdicts: review, load and write the feed,    *)
(* write the state as it was loaded plus what was merged.                   *)
Review(r, world) ==
    LET report == GateReport(merged, head, world)
        outcome == Outcome(merged, head, report, world)
        verdict == StaticVerdict(head, outcome, report)
    IN  /\ run[r] = NoRun /\ outcome # "unchanged"
        /\ run' = [run EXCEPT ![r] = [at |-> "reviewed", verdict |-> verdict, feed |-> <<>>,
               auto |-> outcome = "auto-merge",
               state |-> IF outcome = "auto-merge"
                         THEN [commit |-> head, maintainer |-> world.maintainer] ELSE merged]]
    /\ UNCHANGED <<commits, head, merged, feed, seeded>>

LoadFeed(r) ==
    /\ run[r].at = "reviewed"
    /\ run' = [run EXCEPT ![r].at = "loaded", ![r].feed = feed]
    /\ UNCHANGED <<commits, head, merged, feed, seeded>>

(* A verdict that is in the feed already, wherever, is not appended again.  *)
AppendVerdict(r) ==
    /\ run[r].at = "loaded"
    /\ IF run[r].verdict \in ToSet(run[r].feed) THEN UNCHANGED feed
       ELSE /\ Len(run[r].feed) < MaxVerdicts
            /\ feed' = Append(run[r].feed, run[r].verdict)
    /\ run' = [run EXCEPT ![r] = [at |-> "logged", auto |-> @.auto, state |-> @.state]]
    /\ UNCHANGED <<commits, head, merged, seeded>>

WriteStateFirst(r) ==
    /\ run[r].at \in {"reviewed", "logged"}
    /\ merged' = run[r].state
    /\ run' = [run EXCEPT ![r] = NoRun]
    /\ UNCHANGED <<commits, head, feed, seeded>>

WriteState(r) ==
    /\ run[r].at = "logged"
    /\ merged' = run[r].state
    /\ run' = [run EXCEPT ![r] = NoRun]
    /\ UNCHANGED <<commits, head, feed, seeded>>

GateDies(r) ==
    /\ run[r] # NoRun /\ run' = [run EXCEPT ![r] = NoRun]
    /\ UNCHANGED <<commits, head, merged, feed, seeded>>

(* pacvamp-repo verdict: a human's verdict on the head. *)
AddVerdict(verdict) ==
    /\ Len(feed) < MaxVerdicts
    /\ feed' = Append(feed, [commit |-> head, reviewer |-> "human", verdict |-> verdict,
                             findings |-> {}])
    /\ UNCHANGED <<commits, head, merged, run, seeded>>

GateNext ==
    \/ \E change \in {"bump", "skip", "script", "recipe"}: Push(change)
    \/ \E c \in Commits: PushBack(c)
    \/ \E m \in Maintainers: Seed({m})
    \/ \E r \in Runs, world \in Worlds: Review(r, world)
    \/ \E r \in Runs: LoadFeed(r) \/ AppendVerdict(r) \/ WriteState(r) \/ GateDies(r)
    \/ AddVerdict("block")
-----------------------------------------------------------------------------
(* What clients make of the feed: a reviewer's last verdict on a commit.    *)
Current(c, reviewer) ==
    LET own == {i \in DOMAIN feed: feed[i].commit = c /\ feed[i].reviewer = reviewer}
    IN  IF own = {} THEN "none" ELSE feed[Max(own)].verdict

(* However many bumps were merged on their own, and whatever was pushed,    *)
(* pushed back or died in between, the executable part of the merged recipe *)
(* is one that a human merged.                                              *)
MergedRecipeIsSeeded == merged # Unmerged => commits[merged.commit].recipe \in seeded

(* The feed is written before the state: what the gate merges by itself has *)
(* a passing verdict that clients can see, wherever the gate dies.          *)
MergesWerePassed ==
    [][\A r \in Runs:
          run[r] # NoRun /\ run'[r] = NoRun /\ merged' # merged /\ run[r].auto =>
          \E i \in DOMAIN feed: /\ feed[i].commit = merged'.commit
                                /\ feed[i].verdict = "pass"]_gate

(* Once a run has its verdict in the feed, it is what clients take as the   *)
(* gate's verdict on the commit.                                            *)
CurrentVerdictIsLast ==
    [][\A r \in Runs: run[r].at = "loaded" /\ run'[r].at = "logged" =>
          \A own \in {run[r].verdict}: Current(own.commit, "static")' = own.verdict]_gate
=============================================================================
