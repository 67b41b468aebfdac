-------------------------------- MODULE Update --------------------------------
(***************************************************************************)
(* pacvamp update on one host: the update lock, the refresh, the plan with *)
(* its holds, the hooks around the accepted work, the repository           *)
(* transaction with its evidence, and the AUR packages one at a time.      *)
(* pacman resolves a transaction each time it is run, from the databases   *)
(* it then finds.  A version of the repository stands for its database,    *)
(* its signed index and its package "lib"; "tool" and "tool-doc" are built *)
(* from one AUR recipe.                                                    *)
(***************************************************************************)
EXTENDS Naturals, FiniteSets

CONSTANTS
    Root, Users,     \* who runs update: Root may write /var/lib/pacvamp
    MaxRelease,      \* the last version of the repository and of the recipe
    HoldChoices,     \* what the manifest may hold
    TrustChoices     \* [index, provenance, noDowngrade] settings

VARIABLES
    repo,       \* the mirror and the AUR
    host,       \* databases, installed versions, locks and settings
    ledger,     \* the ledger's entry of "lib"; whether the journal retains one
    run         \* one update of each updater

updateVars == <<repo, host, ledger, run>>

Updaters == {Root} \cup Users
Split == {"tool", "tool-doc"}
Installed == Split \cup {"lib"}
Releases == 1..MaxRelease
Enforcement == {"off", "verify", "required"}
TrustSettings == [index : Enforcement, provenance : Enforcement, noDowngrade : BOOLEAN]
Evidence == {0, 2, 3}   \* none, an entry of the index, and provenance too
Phases == {"idle", "lock", "refresh", "plan", "pre", "verify", "download",
           "apply", "record", "aur", "post"}
Idle == [phase |-> "idle", path |-> "none", early |-> FALSE, part |-> "all", plan |-> 0,
         ignore |-> {}, aur |-> {}, seen |-> 0, index |-> 0, level |-> 0, hooked |-> FALSE]

ASSUME UpdateAssumption ==
    /\ MaxRelease \in Nat \ {0}
    /\ HoldChoices \subseteq SUBSET Installed
    /\ TrustChoices \subseteq TrustSettings

UpdateType ==
    /\ repo \in [newest : Releases, recipe : Releases, evidence : [Releases -> Evidence]]
    /\ host \in [db : Releases, version : [Installed -> 0..MaxRelease],
                 systemLock : BOOLEAN, held : SUBSET Installed,
                 trust : TrustSettings, disturbed : BOOLEAN]
    /\ ledger \in [version : 0..MaxRelease, level : Evidence, retained : BOOLEAN]
    /\ \A u \in Updaters :
          /\ DOMAIN run[u] = DOMAIN Idle
          /\ run[u].phase \in Phases
          /\ run[u].path \in {"none", "system", "user"}
          /\ run[u].aur \subseteq Split
          /\ run[u].level \in Evidence
          /\ run[u].phase # "idle" => run[u].path # "none"

UpdateInit ==
    /\ repo \in {[newest |-> 1, recipe |-> 1, evidence |-> [n \in Releases |-> e]] :
                     e \in {0, 3}}
    /\ host \in {[db |-> 1, version |-> [n \in Installed |-> IF n = "lib" THEN 0 ELSE 1],
                  systemLock |-> l, held |-> h, trust |-> t, disturbed |-> FALSE] :
                     l \in BOOLEAN, h \in HoldChoices, t \in TrustChoices}
    /\ ledger \in {[version |-> 0, level |-> n, retained |-> FALSE] : n \in {0, 3}}
    /\ run = [u \in Updaters |-> Idle]

-----------------------------------------------------------------------------
(* The world.                                                              *)

Running(u) == run[u].phase \notin {"idle", "lock"}

RepositoryMoves ==
    /\ repo.newest < MaxRelease
    /\ \E e \in Evidence :     \* listed in its index or not, with provenance or without
          repo' = [repo EXCEPT !.newest = @ + 1, !.evidence[repo.newest + 1] = e]
    /\ UNCHANGED <<host, ledger, run>>

RecipeMoves ==
    /\ repo.recipe < MaxRelease
    /\ repo' = [repo EXCEPT !.recipe = @ + 1]
    /\ UNCHANGED <<host, ledger, run>>

(* Somebody runs pacman -Sy, whatever lock pacvamp holds.                  *)
OtherRefresh ==
    /\ host.db < repo.newest
    /\ host' = [host EXCEPT !.db = repo.newest, !.disturbed = @ \/ \E u \in Updaters : run[u].plan # 0]
    /\ UNCHANGED <<repo, ledger, run>>

-----------------------------------------------------------------------------
(* One update.                                                             *)

In(u, phase) == run[u].phase = phase
To(u, phase, with) == run' = [run EXCEPT ![u] = [with EXCEPT !.phase = phase]]
End(u) == run' = [run EXCEPT ![u] = [Idle EXCEPT !.hooked = run[u].hooked]]

LockPathByRight(u) == IF u = Root THEN "system" ELSE "user"

(* The system lock if it can be read, or made; otherwise the user's own.   *)
LockPath(u) == IF host.systemLock \/ u = Root THEN "system" ELSE "user"

Start(u) ==
    /\ In(u, "idle")
    /\ To(u, "lock", [Idle EXCEPT !.path = LockPath(u), !.early = ~host.systemLock])
    /\ UNCHANGED <<repo, host, ledger>>

(* flock on the file, made if it is not there.  Without --wait, or when    *)
(* the wait is over, a taken lock ends the command.                        *)
Acquire(u) ==
    /\ In(u, "lock")
    /\ IF \E v \in Updaters \ {u} : Running(v) /\ run[v].path = run[u].path
       THEN End(u) /\ host' = [host EXCEPT !.systemLock = @ \/ run[u].path = "system"]
       ELSE /\ To(u, "refresh", run[u])
            /\ host' = [host EXCEPT
                   !.systemLock = @ \/ run[u].path = "system",
                   !.disturbed = @ \/ \E v \in Updaters \ {u} : Running(v)]
    /\ UNCHANGED <<repo, ledger>>

(* pacman's own lock must be gone within a minute; then pacman -Sy, unless *)
(* the update is not to, or only of AUR packages.                          *)
Refresh(u) ==
    /\ In(u, "refresh")
    /\ \/ End(u) /\ host' = host
       \/ \E part \in {"all", "repo", "aur"} :
             /\ To(u, "plan", [run[u] EXCEPT !.part = part])
             /\ \/ part # "aur" /\ host' = [host EXCEPT !.db = repo.newest]
                \/ host' = host
    /\ UNCHANGED <<repo, ledger>>

(* Holds of the manifest and of update.ignore, and of what is too young or *)
(* comes from a repository whose index was rolled back.                    *)
HeldBack(young) == host.held \cup young

Resolves(ignore) ==
    "lib" \notin ignore /\ host.db > host.version["lib"]

AurCandidates(u) ==
    IF run[u].part = "repo" THEN {}
    ELSE {n \in Split \ host.held : host.version[n] \in 1..(repo.recipe - 1)}

(* Preview, validation and confirmation.  A dry run, a refusal and a       *)
(* cancelled confirmation end here, and so does an update without work.    *)
Plan(u) ==
    /\ In(u, "plan")
    /\ \E young \in SUBSET {"lib"}, orphans \in BOOLEAN :
       LET ignore == HeldBack(young)
           planned == run[u].part # "aur" /\ Resolves(ignore)
           aur == AurCandidates(u)
       IN  \/ End(u)
           \/ /\ planned \/ aur # {} \/ orphans
              /\ To(u, "pre", [run[u] EXCEPT !.plan = IF planned THEN host.db ELSE 0,
                                             !.aur = aur, !.part = "all",
                                             !.ignore = IF planned THEN ignore ELSE {}])
    /\ UNCHANGED <<repo, host, ledger>>

(* The pre hooks stop at the first that fails, and the update with them.   *)
PreHooks(u) ==
    /\ In(u, "pre")
    /\ \/ End(u)
       \/ To(u, IF run[u].plan # 0 THEN "verify" ELSE "aur", [run[u] EXCEPT !.hooked = TRUE])
    /\ UNCHANGED <<repo, host, ledger>>

(* An error on the way ends the work, not the command; so do the orphans,  *)
(* which are last.                                                         *)
WorkEnds(u) == run' = [run EXCEPT ![u] = [Idle EXCEPT !.phase = "post", !.path = run[u].path,
                                                    !.early = run[u].early, !.hooked = TRUE]]

Trusts == host.trust.index # "off" \/ host.trust.provenance # "off"
Requires == "required" \in {host.trust.index, host.trust.provenance}

(* What the ledger has must not be lost.                                   *)
Loses(found, recorded) == host.trust.noDowngrade /\ found < recorded

IndexTolerated(u) ==
    IF Requires THEN WorkEnds(u) ELSE To(u, "apply", [run[u] EXCEPT !.level = 0])

(* verify_transaction: the ledger is read, then the index of the           *)
(* repository.  An index that cannot be had is tolerated only if nothing   *)
(* requires it and nothing is lost; one that is invalid never is, nor one  *)
(* for another database.                                                   *)
IndexUnavailable(u) ==
    IF Requires \/ Loses(0, ledger.level) THEN WorkEnds(u)
    ELSE To(u, "apply", [run[u] EXCEPT !.level = 0])

VerifyIndex(u) ==
    /\ In(u, "verify")
    /\ \/ ~Trusts /\ To(u, "apply", run[u])
       \/ Trusts /\ (IndexUnavailable(u) \/ WorkEnds(u))
       \/ /\ Trusts
          /\ \E index \in 1..repo.newest :
                IF index = host.db
                THEN To(u, "download", [run[u] EXCEPT !.seen = ledger.level, !.index = index])
                ELSE WorkEnds(u)
    /\ UNCHANGED <<repo, host, ledger>>

(* A package that the index does not list is let through without evidence, *)
(* whatever is asked of provenance, unless the index is required.          *)
Found(n) ==
    IF repo.evidence[n] = 3 /\ host.trust.provenance = "off" THEN 2 ELSE repo.evidence[n]

Suffices(n) ==
    IF Found(n) = 0 THEN host.trust.index # "required"
    ELSE host.trust.provenance = "required" => Found(n) = 3

(* pacman -Sw, then the cached file and its provenance against the index.  *)
Download(u) ==
    /\ In(u, "download")
    /\ \/ WorkEnds(u)
       \/ LET n == run[u].plan
          IN  /\ run[u].index = n /\ host.db = n
              /\ Suffices(n) /\ ~Loses(Found(n), run[u].seen)
              /\ To(u, "apply", [run[u] EXCEPT !.level = Found(n)])
    /\ UNCHANGED <<repo, host, ledger>>

UpgradedRefreshing(u) ==
    IF Resolves(run[u].ignore)
    THEN [host EXCEPT !.db = repo.newest, !.version["lib"] = repo.newest] ELSE host

(* The intent is journaled, pacman -Su resolves again and installs.  When  *)
(* pacman fails, whatever it did, the journal keeps the transaction.       *)
Upgraded(u) ==
    IF Resolves(run[u].ignore) THEN [host EXCEPT !.version["lib"] = host.db] ELSE host

Apply(u) ==
    /\ In(u, "apply")
    /\ \/ WorkEnds(u) /\ UNCHANGED <<host, ledger>>
       \/ /\ WorkEnds(u)
          /\ host' \in {host, Upgraded(u)}
          /\ ledger' = [ledger EXCEPT !.retained = TRUE]
       \/ /\ host' = Upgraded(u)
          /\ ledger' = ledger
          /\ To(u, "record", run[u])
    /\ UNCHANGED repo

(* What is done with is not remembered.                                    *)
Applied(u) == [run[u] EXCEPT !.plan = 0, !.ignore = {}, !.seen = 0, !.index = 0, !.level = 0]

(* The entry of the plan and then the snapshot; either may fail.           *)
Record(u) ==
    /\ In(u, "record")
    /\ \/ WorkEnds(u) /\ ledger' = [ledger EXCEPT !.retained = TRUE]
       \/ /\ ledger' = [ledger EXCEPT !.version = run[u].plan, !.level = run[u].level]
          /\ WorkEnds(u) \/ To(u, "aur", Applied(u))
    /\ UNCHANGED <<repo, host>>

(* What update_aur_package installs of a build: the package, and its       *)
(* siblings that are installed.                                            *)
Selected(n) == {n} \cup {m \in Split : host.version[m] # 0}

(* A package is reviewed and skipped, or built and installed, or fails.    *)
UpdateAurPackage(u) ==
    /\ In(u, "aur")
    /\ IF run[u].aur = {}
       THEN host' = host /\ WorkEnds(u)
       ELSE \E n \in run[u].aur :
              LET rest == [run[u] EXCEPT !.aur = @ \ {n}]
              IN  \/ host' = host /\ To(u, "aur", rest)
                  \/ host' = host /\ WorkEnds(u)
                  \/ /\ host' = [host EXCEPT !.version = [m \in Installed |->
                                    IF m \in Selected(n) THEN repo.recipe ELSE @[m]]]
                     /\ To(u, "aur", rest)
    /\ UNCHANGED <<repo, ledger>>

PostHooks(u) ==
    /\ In(u, "post")
    /\ run' = [run EXCEPT ![u] = Idle]
    /\ UNCHANGED <<repo, host, ledger>>

(* The lock goes with the process, and so does what it had in memory; the  *)
(* journal is all that tells of a transaction under way.                   *)
Killed(u) ==
    /\ ~In(u, "idle")
    /\ run' = [run EXCEPT ![u] = Idle]
    /\ ledger' = [ledger EXCEPT !.retained = @ \/ In(u, "record")]
    /\ UNCHANGED <<repo, host>>

Work(u) ==
    \/ VerifyIndex(u) \/ Download(u) \/ Apply(u) \/ Record(u)
    \/ UpdateAurPackage(u)

UpdaterNext(u) ==
    \/ Start(u) \/ Acquire(u) \/ Refresh(u) \/ Plan(u)
    \/ PreHooks(u) \/ Work(u) \/ PostHooks(u) \/ Killed(u)

UpdateNext ==
    \/ RepositoryMoves \/ RecipeMoves \/ OtherRefresh
    \/ \E u \in Updaters : UpdaterNext(u)

-----------------------------------------------------------------------------
(* Two updates run at once only when one of them chose its lock before     *)
(* there was a system lock (update.rs UpdateLock::path, acquire).          *)
UpdatesExclude == \A u, v \in Updaters :
    u # v /\ Running(u) /\ Running(v) => run[u].early \/ run[v].early

(* Unless an update overlapped with another, or somebody refreshed the     *)
(* databases under it, or the journal retains a transaction, the ledger's  *)
(* entry is of what is installed (cli/update.rs and transaction.rs: the    *)
(* plan is what pacman applies).                                           *)
LedgerAgrees ==
    ~host.disturbed /\ ~ledger.retained /\ (\A u \in Updaters : ~In(u, "record"))
        => ledger.version = host.version["lib"]

(* With trust.no_downgrade, and a check of the index or of provenance for   *)
(* it to go by, the evidence an update records for a package is never less *)
(* than what was recorded before, whether an index cannot be had or does   *)
(* not list the package (transaction.rs verify_transaction;                *)
(* docs/spec/repository-feeds.md: "cannot move to a lower level or to      *)
(* unavailable evidence").                                                 *)
EvidenceIsKept ==
    [][Trusts /\ host.trust.noDowngrade /\ ~host.disturbed'
           => ledger'.level >= ledger.level]_updateVars

(* A command whose pre hooks succeeded has run the post hooks when it      *)
(* ends, whatever failed in between, unless it is killed (cli/update.rs).  *)
PostHooksRun == \A u \in Updaters : In(u, "idle") => ~run[u].hooked

(* What the manifest holds keeps its version through an update             *)
(* (docs/manifests.md: "A hold prevents upgrades").                        *)
HeldStays == [][\A n \in host.held : host'.version[n] = host.version[n]]_updateVars
=============================================================================
