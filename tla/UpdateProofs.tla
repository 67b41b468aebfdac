---------------------------- MODULE UpdateProofs ----------------------------
(***************************************************************************)
(* Theorems about Update, one host's updates by themselves: they exclude   *)
(* each other, the ledger says what is installed, evidence is kept, and    *)
(* hooks come in pairs.                                                    *)
(***************************************************************************)
EXTENDS Update, TLAPS

UpdateSpec == UpdateInit /\ [][UpdateNext]_updateVars

RunType ==
  [phase : Phases, path : {"none", "system", "user"}, early : BOOLEAN,
   part : {"all", "repo", "aur"}, plan : 0 .. MaxRelease, ignore : SUBSET Installed,
   aur : SUBSET Split, seen : Evidence, index : 0 .. MaxRelease, level : Evidence,
   hooked : BOOLEAN]

RepoType == [newest : Releases, recipe : Releases, evidence : [Releases -> Evidence]]

HostType ==
  [db : Releases, version : [Installed -> 0 .. MaxRelease], systemLock : BOOLEAN,
   held : SUBSET Installed, trust : TrustChoices, disturbed : BOOLEAN]

LedgerType == [version : 0 .. MaxRelease, level : Evidence, retained : BOOLEAN]

Typed ==
  /\ repo \in RepoType /\ host \in HostType /\ ledger \in LedgerType
  /\ run \in [Updaters -> RunType]

\* What the phase of an update says of the rest of it.
Hooked == {"verify", "download", "apply", "record", "aur", "post"}
Meant(x) ==
  /\ x.phase # "idle" => x.path # "none" /\ (~x.early => x.path = "system")
  /\ x.hooked => x.phase \in Hooked
  /\ x.plan # 0 => x.phase \in {"pre", "verify", "download", "apply", "record"}
  /\ x.phase \in {"verify", "download", "apply", "record"} => x.plan # 0

\* What an update planned is what pacman still resolves, until it did it.
UpToDate(x) ==
  /\ x.plan # 0 /\ x.phase # "record" => x.plan = host.db /\ Resolves(x.ignore)
  /\ x.phase = "record" => x.plan = host.version["lib"]

\* The evidence it found is not less than the ledger's.
Weighed(x) ==
  /\ x.phase = "download" => x.seen = ledger.level
  /\ x.phase \in {"apply", "record"} => x.level >= ledger.level

Agrees ==
  ~ledger.retained /\ (\A u \in Updaters : ~In(u, "record"))
     => ledger.version = host.version["lib"]

UpdateInv ==
  /\ Typed
  /\ \A u \in Updaters : Meant(run[u])
  /\ \A u, v \in Updaters : u # v /\ Running(u) /\ Running(v) => run[u].path # run[v].path
  /\ ~host.disturbed =>
       /\ \A u, v \in Updaters : u # v => ~(Running(u) /\ Running(v))
       /\ \A u \in Updaters : UpToDate(run[u])
       /\ Agrees

\* Evidence is asked for, and must not be lost.
Guarded == Trusts /\ host.trust.noDowngrade

EvidenceInv == Guarded /\ ~host.disturbed => \A u \in Updaters : Weighed(run[u])
-----------------------------------------------------------------------------
\* Nothing is planned, and nothing found, before a command has its lock.
LEMMA IdleIsMeant ==
  ASSUME NEW h \in BOOLEAN
  PROVE  /\ Idle \in RunType /\ [Idle EXCEPT !.hooked = h] \in RunType
         /\ Meant(Idle) /\ UpToDate(Idle)
<1>0. 0 \in 0 .. MaxRelease
  BY UpdateAssumption
<1>1. Idle \in RunType
  BY <1>0 DEF Idle, RunType, Phases, Evidence
<1>2. [Idle EXCEPT !.hooked = h] \in RunType
  BY <1>1 DEF RunType
<1>3. Meant(Idle) /\ UpToDate(Idle)
  BY DEF Idle, Meant, UpToDate
<1> QED BY <1>1, <1>2, <1>3

\* A step of u to x keeps the invariant if x means what it says, runs under a
\* lock nobody else has, and what everybody goes by is still so.
LEMMA Moves ==
  ASSUME UpdateInv, NEW u \in Updaters, NEW x \in RunType, run' = [run EXCEPT ![u] = x],
         repo' \in RepoType, host' \in HostType, ledger' \in LedgerType, Meant(x),
         x.phase \notin {"idle", "lock"} =>
           \A v \in Updaters \ {u} : Running(v) => run[v].path # x.path,
         ~host'.disturbed =>
           /\ ~host.disturbed
           /\ x.phase \notin {"idle", "lock"} => \A v \in Updaters \ {u} : ~Running(v)
           /\ UpToDate(x)' /\ \A v \in Updaters \ {u} : UpToDate(run[v])'
           /\ Agrees'
  PROVE  UpdateInv'
<1>0. /\ run' \in [Updaters -> RunType] /\ run'[u] = x
      /\ \A v \in Updaters \ {u} : run'[v] = run[v]
  BY DEF UpdateInv, Typed
<1>1. Typed' /\ \A v \in Updaters : Meant(run[v])'
  BY <1>0 DEF UpdateInv, Typed, Meant
<1>2. \A v, w \in Updaters : v # w /\ Running(v)' /\ Running(w)' => run'[v].path # run'[w].path
  BY <1>0 DEF UpdateInv, Running
<1>3. ASSUME ~host'.disturbed
      PROVE  /\ \A v, w \in Updaters : v # w => ~(Running(v)' /\ Running(w)')
             /\ \A v \in Updaters : UpToDate(run[v])'
             /\ Agrees'
  <2>1. \A v, w \in Updaters : v # w => ~(Running(v)' /\ Running(w)')
    BY <1>0, <1>3 DEF UpdateInv, Running
  <2>2. \A v \in Updaters : UpToDate(run[v])'
    BY <1>0, <1>3 DEF UpToDate
  <2> QED BY <2>1, <2>2, <1>3
<1> QED BY <1>1, <1>2, <1>3 DEF UpdateInv

\* An update that has no lock has no plan to be overtaken.
LEMMA Waits ==
  ASSUME UpdateInv, NEW v \in Updaters, ~Running(v)
  PROVE  /\ UpToDate(run[v]) /\ Weighed(run[v])
         /\ run[v].plan = 0 /\ run[v].phase \in {"idle", "lock"}
BY DEF UpdateInv, Meant, UpToDate, Weighed, Running

\* A step of a running update to x that leaves the ledger alone and the host as
\* x has it; nobody else is running unless the host is disturbed anyway.
LEMMA RunsOn ==
  ASSUME UpdateInv, NEW u \in Updaters, NEW x \in RunType, run' = [run EXCEPT ![u] = x],
         Running(u), x.phase \in {"idle", "lock"} \/ x.path = run[u].path, Meant(x),
         repo' = repo, host' \in HostType, host'.disturbed = host.disturbed, ledger' \in LedgerType,
         ~host.disturbed => UpToDate(x)' /\ Agrees'
  PROVE  UpdateInv'
<1>1. ASSUME ~host.disturbed
      PROVE  \A v \in Updaters \ {u} : ~Running(v) /\ UpToDate(run[v])'
  <2> SUFFICES ASSUME NEW v \in Updaters \ {u} PROVE ~Running(v) /\ UpToDate(run[v])'
    OBVIOUS
  <2>1. ~Running(v)
    BY <1>1 DEF UpdateInv
  <2>2. run'[v] = run[v] /\ run[v].plan = 0 /\ run[v].phase # "record"
    BY <2>1, Waits DEF UpdateInv, Typed
  <2> QED BY <2>1, <2>2 DEF UpToDate
<1>2. x.phase \notin {"idle", "lock"} =>
        \A v \in Updaters \ {u} : Running(v) => run[v].path # x.path
  BY DEF UpdateInv
<1> QED BY <1>1, <1>2, Moves DEF UpdateInv, Typed

\* One that leaves the host and the ledger alone.
LEMMA RunsAside ==
  ASSUME UpdateInv, NEW u \in Updaters, NEW x \in RunType, run' = [run EXCEPT ![u] = x],
         Running(u), x.phase \in {"idle", "lock"} \/ x.path = run[u].path, Meant(x),
         UNCHANGED <<repo, host, ledger>>, run[u].phase # "record", x.phase # "record",
         ~host.disturbed => UpToDate(x)
  PROVE  UpdateInv'
<1>1. UpToDate(x) => UpToDate(x)'
  BY DEF UpToDate, Resolves
<1>2. Agrees => Agrees'
  <2>1. (\A v \in Updaters : ~In(v, "record"))' => \A v \in Updaters : ~In(v, "record")
    BY DEF In, UpdateInv, Typed
  <2> QED BY <2>1 DEF Agrees
<1> QED BY <1>1, <1>2, RunsOn DEF UpdateInv, Typed

\* The records an update ends its work or itself with.
LEMMA Ends ==
  ASSUME UpdateInv, NEW u \in Updaters, Running(u)
  PROVE  LET x == [Idle EXCEPT !.phase = "post", !.path = run[u].path,
                               !.early = run[u].early, !.hooked = TRUE]
         IN  /\ x \in RunType /\ Meant(x) /\ x.path = run[u].path /\ x.phase = "post"
             /\ x.plan = 0
<1>1. run[u] \in RunType /\ Meant(run[u]) /\ run[u].phase # "idle"
  BY DEF UpdateInv, Typed, Running
<1> DEFINE x == [Idle EXCEPT !.phase = "post", !.path = run[u].path,
                             !.early = run[u].early, !.hooked = TRUE]
<1>2. x \in RunType
  BY <1>1, IdleIsMeant DEF RunType, Phases
<1>3. /\ x.phase = "post" /\ x.path = run[u].path /\ x.early = run[u].early /\ x.plan = 0
      /\ x.hooked
  BY DEF Idle
<1> HIDE DEF x
<1>4. Meant(x)
  BY <1>1, <1>3 DEF Meant, Hooked
<1> QED BY <1>2, <1>3, <1>4 DEF x
-----------------------------------------------------------------------------
(* Locking.                                                                *)

\* What everybody knows of one update.
LEMMA Given ==
  ASSUME UpdateInv, NEW u \in Updaters
  PROVE  /\ run[u] \in RunType /\ Meant(run[u])
         /\ repo \in RepoType /\ host \in HostType /\ ledger \in LedgerType
         /\ ~host.disturbed => UpToDate(run[u])
BY DEF UpdateInv, Typed

\* An update starts with nothing planned.
LEMMA StartStep == ASSUME UpdateInv, NEW u \in Updaters, Start(u) PROVE UpdateInv'
<1> PICK x : x = [[Idle EXCEPT !.path = LockPath(u), !.early = ~host.systemLock]
                    EXCEPT !.phase = "lock"]
  OBVIOUS
<1>0. run' = [run EXCEPT ![u] = x]
  BY DEF Start, To
<1>1. x \in RunType
  BY IdleIsMeant DEF RunType, Phases, LockPath
<1>2. /\ x.phase = "lock" /\ x.plan = 0 /\ ~x.hooked
      /\ x.path = LockPath(u) /\ x.early = ~host.systemLock
  BY DEF Idle
<1>3. Meant(x) /\ UpToDate(x)'
  <2>1. host.systemLock \in BOOLEAN
    BY Given DEF HostType
  <2>2. x.path # "none" /\ (~x.early => x.path = "system")
    <3>1. CASE host.systemLock
      BY <1>2, <3>1 DEF LockPath
    <3>2. CASE ~host.systemLock
      <4>1. x.early = TRUE /\ x.path \in {"system", "user"}
        BY <1>2, <3>2 DEF LockPath
      <4> QED BY <4>1
    <3> QED BY <3>1, <3>2
  <2> QED BY <1>2, <2>2 DEF Meant, UpToDate
<1>4. ~host.disturbed => \A v \in Updaters : UpToDate(run[v])'
  <2>1. \A v \in Updaters : run'[v] \in {run[v], x}
    BY <1>0 DEF UpdateInv, Typed
  <2> QED BY <2>1, <1>2, Given DEF UpToDate, Resolves, Start
<1>5. Agrees => Agrees'
  <2>1. (\A v \in Updaters : ~In(v, "record"))' => \A v \in Updaters : ~In(v, "record")
    BY <1>0, <1>1 DEF In, UpdateInv, Typed, Start
  <2> QED BY <2>1 DEF Agrees, Start
<1>6. ~host.disturbed => \A v \in Updaters \ {u} : UpToDate(run[v])'
  BY <1>4
<1> QED BY <1>0, <1>1, <1>2, <1>3, <1>5, <1>6, Moves DEF Start, UpdateInv, Typed

\* An update is given its lock when nobody holds it.
LEMMA AcquireStep == ASSUME UpdateInv, NEW u \in Updaters, Acquire(u) PROVE UpdateInv'
<1>0. /\ run[u] \in RunType /\ run[u].phase = "lock" /\ Meant(run[u])
      /\ run[u].plan = 0 /\ ~run[u].hooked /\ host \in HostType
  BY Given DEF Acquire, In, Meant, Hooked
<1>1. /\ host' \in HostType /\ host'.db = host.db /\ host'.version = host.version
      /\ host.disturbed => host'.disturbed
      /\ UNCHANGED <<repo, ledger>>
  BY <1>0 DEF Acquire, HostType
<1>2. PICK x \in RunType :
        /\ run' = [run EXCEPT ![u] = x] /\ x.phase \in {"idle", "refresh"} /\ Meant(x) /\ x.plan = 0
        /\ x.phase = "refresh" =>
             /\ x.path = run[u].path
             /\ \A v \in Updaters \ {u} : Running(v) => run[v].path # run[u].path
             /\ ~host'.disturbed => \A v \in Updaters \ {u} : ~Running(v)
  <2>1. CASE \E v \in Updaters \ {u} : Running(v) /\ run[v].path = run[u].path
    <3> DEFINE x == [Idle EXCEPT !.hooked = run[u].hooked]
    <3>1. x \in RunType
      BY <1>0, IdleIsMeant DEF RunType
    <3>2. x.phase = "idle" /\ x.plan = 0 /\ ~x.hooked
      BY <1>0 DEF Idle
    <3>3. run' = [run EXCEPT ![u] = x]
      BY <2>1 DEF Acquire, End
    <3> HIDE DEF x
    <3>4. Meant(x)
      BY <3>2 DEF Meant
    <3> QED BY <3>1, <3>2, <3>3, <3>4
  <2>2. CASE ~\E v \in Updaters \ {u} : Running(v) /\ run[v].path = run[u].path
    <3> DEFINE x == [run[u] EXCEPT !.phase = "refresh"]
    <3>1. x \in RunType
      BY <1>0 DEF RunType, Phases
    <3>2. /\ x.phase = "refresh" /\ x.plan = 0 /\ ~x.hooked /\ x.path = run[u].path
          /\ x.early = run[u].early
      BY <1>0 DEF RunType
    <3>3. run' = [run EXCEPT ![u] = x]
      BY <2>2 DEF Acquire, To
    <3>4. host'.disturbed = (host.disturbed \/ \E v \in Updaters \ {u} : Running(v))
      BY <1>0, <2>2 DEF Acquire, HostType
    <3> HIDE DEF x
    <3>5. Meant(x)
      BY <1>0, <3>2 DEF Meant
    <3> QED BY <2>2, <3>1, <3>2, <3>3, <3>4, <3>5
  <2> QED BY <2>1, <2>2
<1>3. UpToDate(x)'
  BY <1>2 DEF UpToDate
<1>4. ~host.disturbed => \A v \in Updaters \ {u} : UpToDate(run[v])'
  BY <1>1, <1>2, Given DEF UpToDate, Resolves, UpdateInv, Typed
<1>5. Agrees => Agrees'
  <2>1. (\A v \in Updaters : ~In(v, "record"))' => \A v \in Updaters : ~In(v, "record")
    BY <1>0, <1>2 DEF In, UpdateInv, Typed
  <2> QED BY <1>1, <2>1 DEF Agrees
<1>6. repo' \in RepoType /\ ledger' \in LedgerType
  BY <1>1, Given
<1>7. ~host'.disturbed =>
        /\ ~host.disturbed
        /\ x.phase \notin {"idle", "lock"} => \A v \in Updaters \ {u} : ~Running(v)
        /\ UpToDate(x)' /\ \A v \in Updaters \ {u} : UpToDate(run[v])'
        /\ Agrees'
  BY <1>1, <1>2, <1>3, <1>4, <1>5 DEF UpdateInv
<1>8. x.phase \notin {"idle", "lock"} =>
        \A v \in Updaters \ {u} : Running(v) => run[v].path # x.path
  BY <1>2
<1> QED BY <1>1, <1>2, <1>6, <1>7, <1>8, Moves
-----------------------------------------------------------------------------
(* From the refresh to the hooks.                                          *)

\* An update that ends before its hooks does not remember any.
LEMMA EndsEarly ==
  ASSUME UpdateInv, NEW u \in Updaters, Running(u), run[u].phase \notin Hooked,
         End(u), UNCHANGED <<repo, host, ledger>>
  PROVE  UpdateInv'
<1> DEFINE x == [Idle EXCEPT !.hooked = run[u].hooked]
<1>0. run[u] \in RunType /\ ~run[u].hooked
  BY Given DEF Meant
<1>1. x \in RunType
  BY <1>0, IdleIsMeant DEF RunType
<1>2. x.phase = "idle" /\ x.plan = 0 /\ ~x.hooked
  BY <1>0 DEF Idle
<1>3. run' = [run EXCEPT ![u] = x]
  BY DEF End
<1> HIDE DEF x
<1>4. Meant(x) /\ UpToDate(x)
  BY <1>2 DEF Meant, UpToDate
<1>5. run[u].phase # "record"
  BY DEF Hooked
<1> QED BY <1>1, <1>2, <1>3, <1>4, <1>5, RunsAside

\* The databases are refreshed under the lock.
LEMMA RefreshStep == ASSUME UpdateInv, NEW u \in Updaters, Refresh(u) PROVE UpdateInv'
<1>0. /\ run[u] \in RunType /\ run[u].phase = "refresh" /\ Meant(run[u])
      /\ run[u].plan = 0 /\ ~run[u].hooked /\ host \in HostType /\ repo \in RepoType /\ Running(u)
  BY Given DEF Refresh, In, Meant, Hooked, Running
<1>1. CASE End(u) /\ host' = host
  BY <1>0, <1>1, EndsEarly DEF Refresh, Hooked
<1>2. ASSUME NEW part \in {"all", "repo", "aur"}, To(u, "plan", [run[u] EXCEPT !.part = part]),
             host' \in {host, [host EXCEPT !.db = repo.newest]}
      PROVE  UpdateInv'
  <2> PICK x : x = [[run[u] EXCEPT !.part = part] EXCEPT !.phase = "plan"]
    OBVIOUS
  <2>1. x \in RunType
    BY <1>0 DEF RunType, Phases
  <2>2. /\ x.phase = "plan" /\ x.plan = 0 /\ ~x.hooked /\ x.path = run[u].path
        /\ x.early = run[u].early
    BY <1>0 DEF RunType
  <2>3. run' = [run EXCEPT ![u] = x]
    BY <1>2 DEF To
  <2>4. host' \in HostType /\ host'.disturbed = host.disturbed /\ host'.version = host.version
    BY <1>0, <1>2 DEF HostType, RepoType
  <2>5. Meant(x) /\ UpToDate(x)'
    BY <1>0, <2>2 DEF Meant, UpToDate
  <2>6. Agrees => Agrees'
    <3>1. (\A v \in Updaters : ~In(v, "record"))' => \A v \in Updaters : ~In(v, "record")
      BY <1>0, <2>3 DEF In, UpdateInv, Typed
    <3> QED BY <2>4, <3>1 DEF Agrees, Refresh
  <2>7. repo' = repo /\ ledger' \in LedgerType
    BY Given DEF Refresh
  <2>8. ~host.disturbed => UpToDate(x)' /\ Agrees'
    BY <2>5, <2>6 DEF UpdateInv
  <2> QED BY <1>0, <2>1, <2>2, <2>3, <2>4, <2>5, <2>7, <2>8, RunsOn
<1> QED BY <1>1, <1>2 DEF Refresh

\* What is planned is what pacman resolves now.
LEMMA PlanStep == ASSUME UpdateInv, NEW u \in Updaters, Plan(u) PROVE UpdateInv'
<1>0. /\ run[u] \in RunType /\ run[u].phase = "plan" /\ Meant(run[u])
      /\ run[u].plan = 0 /\ ~run[u].hooked /\ host \in HostType /\ Running(u)
  BY Given DEF Plan, In, Meant, Hooked, Running
<1>1. CASE End(u)
  BY <1>0, <1>1, EndsEarly DEF Plan, Hooked
<1>2. ASSUME NEW young \in SUBSET {"lib"}, NEW planned \in BOOLEAN,
             planned => Resolves(HeldBack(young)),
             To(u, "pre", [run[u] EXCEPT !.plan = IF planned THEN host.db ELSE 0,
                                         !.aur = AurCandidates(u), !.part = "all",
                                         !.ignore = IF planned THEN HeldBack(young) ELSE {}])
      PROVE  UpdateInv'
  <2> DEFINE x == [[run[u] EXCEPT !.plan = IF planned THEN host.db ELSE 0,
                                  !.aur = AurCandidates(u), !.part = "all",
                                  !.ignore = IF planned THEN HeldBack(young) ELSE {}]
                    EXCEPT !.phase = "pre"]
  <2>1. x \in RunType
    <3>1. (IF planned THEN host.db ELSE 0) \in 0 .. MaxRelease
      BY <1>0, UpdateAssumption DEF HostType, Releases
    <3>2. AurCandidates(u) \subseteq Split
      BY DEF AurCandidates
    <3>3. (IF planned THEN HeldBack(young) ELSE {}) \subseteq Installed
      BY <1>0 DEF HeldBack, HostType, Installed
    <3> QED BY <1>0, <3>1, <3>2, <3>3 DEF RunType, Phases
  <2>2. /\ x.phase = "pre" /\ x.plan = (IF planned THEN host.db ELSE 0) /\ ~x.hooked
        /\ x.path = run[u].path /\ x.early = run[u].early
        /\ x.ignore = (IF planned THEN HeldBack(young) ELSE {})
    BY <1>0 DEF RunType
  <2>3. run' = [run EXCEPT ![u] = x]
    BY <1>2 DEF To
  <2> HIDE DEF x
  <2>4. Meant(x)
    BY <1>0, <2>2 DEF Meant
  <2>5. UpToDate(x)
    BY <1>2, <2>2 DEF UpToDate
  <2> QED BY <1>0, <2>1, <2>2, <2>3, <2>4, <2>5, RunsAside DEF Plan
<1>3. PICK young \in SUBSET {"lib"}, orphans \in BOOLEAN :
        \/ End(u)
        \/ To(u, "pre", [run[u] EXCEPT
                  !.plan = IF run[u].part # "aur" /\ Resolves(HeldBack(young)) THEN host.db ELSE 0,
                  !.aur = AurCandidates(u), !.part = "all",
                  !.ignore = IF run[u].part # "aur" /\ Resolves(HeldBack(young))
                             THEN HeldBack(young) ELSE {}])
  BY DEF Plan
<1> QED BY <1>1, <1>2, <1>3

\* Hooks are opened before anything is done.
LEMMA PreHooksStep == ASSUME UpdateInv, NEW u \in Updaters, PreHooks(u) PROVE UpdateInv'
<1>0. /\ run[u] \in RunType /\ run[u].phase = "pre" /\ Meant(run[u]) /\ Running(u)
      /\ ~host.disturbed => UpToDate(run[u])
  BY Given DEF PreHooks, In, Running
<1>1. CASE End(u)
  BY <1>0, <1>1, EndsEarly DEF PreHooks, Hooked
<1>2. ASSUME NEW phase \in {"verify", "aur"}, phase = IF run[u].plan # 0 THEN "verify" ELSE "aur",
             To(u, phase, [run[u] EXCEPT !.hooked = TRUE])
      PROVE  UpdateInv'
  <2> DEFINE x == [[run[u] EXCEPT !.hooked = TRUE] EXCEPT !.phase = phase]
  <2>1. x \in RunType
    BY <1>0 DEF RunType, Phases
  <2>2. /\ x.phase = phase /\ x.plan = run[u].plan
        /\ x.path = run[u].path /\ x.early = run[u].early /\ x.ignore = run[u].ignore
    BY <1>0 DEF RunType
  <2>3. run' = [run EXCEPT ![u] = x]
    BY <1>2 DEF To
  <2> HIDE DEF x
  <2>4. Meant(x)
    BY <1>0, <1>2, <2>2 DEF Meant, Hooked
  <2>5. ~host.disturbed => UpToDate(x)
    BY <1>0, <1>2, <2>2 DEF UpToDate
  <2> QED BY <1>0, <1>2, <2>1, <2>2, <2>3, <2>4, <2>5, RunsAside DEF PreHooks
<1> QED BY <1>1, <1>2 DEF PreHooks
-----------------------------------------------------------------------------
(* The work.                                                               *)

\* An error ends the work: nothing is left to be overtaken.
LEMMA WorkEndsStep ==
  ASSUME UpdateInv, NEW u \in Updaters, Running(u), run[u].phase # "record",
         WorkEnds(u), UNCHANGED <<repo, host, ledger>>
  PROVE  UpdateInv'
<1> PICK x : x = [Idle EXCEPT !.phase = "post", !.path = run[u].path,
                              !.early = run[u].early, !.hooked = TRUE]
  OBVIOUS
<1>1. /\ x \in RunType /\ Meant(x) /\ x.path = run[u].path /\ x.phase = "post"
      /\ x.plan = 0
  BY Ends
<1>2. UpToDate(x)
  BY <1>1 DEF UpToDate
<1>3. run' = [run EXCEPT ![u] = x]
  BY DEF WorkEnds
<1> QED BY <1>1, <1>2, <1>3, RunsAside

\* To the next phase of the work, with what was verified on the way.
LEMMA VerifiedStep ==
  ASSUME UpdateInv, NEW u \in Updaters, run[u].phase \in {"verify", "download"},
         NEW x \in RunType, run' = [run EXCEPT ![u] = x], x.phase \in {"download", "apply"},
         x.plan = run[u].plan, x.path = run[u].path, x.early = run[u].early,
         x.ignore = run[u].ignore, UNCHANGED <<repo, host, ledger>>
  PROVE  UpdateInv'
<1>1. /\ run[u] \in RunType /\ Meant(run[u]) /\ Running(u)
      /\ ~host.disturbed => UpToDate(run[u])
  BY Given DEF Running
<1>2. Meant(x) /\ (~host.disturbed => UpToDate(x))
  BY <1>1 DEF Meant, UpToDate, Hooked
<1> QED BY <1>1, <1>2, RunsAside

\* The evidence of the index is weighed against the ledger's.
LEMMA VerifyIndexStep == ASSUME UpdateInv, NEW u \in Updaters, VerifyIndex(u) PROVE UpdateInv'
<1>0. /\ run[u].phase = "verify" /\ Running(u) /\ UNCHANGED <<repo, host, ledger>>
  BY DEF VerifyIndex, In, Running
<1>1. CASE WorkEnds(u)
  BY <1>0, <1>1, WorkEndsStep
<1>2. CASE To(u, "apply", run[u])
  <2> PICK x : x = [run[u] EXCEPT !.phase = "apply"]
    OBVIOUS
  <2>1. /\ x \in RunType /\ x.phase = "apply" /\ x.plan = run[u].plan /\ x.path = run[u].path
        /\ x.early = run[u].early /\ x.ignore = run[u].ignore
    BY Given DEF RunType, Phases
  <2>2. run' = [run EXCEPT ![u] = x]
    BY <1>2 DEF To
  <2> QED BY <1>0, <2>1, <2>2, VerifiedStep
<1>3. CASE To(u, "apply", [run[u] EXCEPT !.level = 0])
  <2> PICK x : x = [[run[u] EXCEPT !.level = 0] EXCEPT !.phase = "apply"]
    OBVIOUS
  <2>1. /\ x \in RunType /\ x.phase = "apply" /\ x.plan = run[u].plan /\ x.path = run[u].path
        /\ x.early = run[u].early /\ x.ignore = run[u].ignore
    BY Given DEF RunType, Phases, Evidence
  <2>2. run' = [run EXCEPT ![u] = x]
    BY <1>3 DEF To
  <2> QED BY <1>0, <2>1, <2>2, VerifiedStep
<1>4. ASSUME NEW index \in 1 .. repo.newest,
             To(u, "download", [run[u] EXCEPT !.seen = ledger.level, !.index = index])
      PROVE  UpdateInv'
  <2>1. index \in 0 .. MaxRelease /\ ledger.level \in Evidence
    BY Given, UpdateAssumption DEF RepoType, LedgerType, Releases
  <2> PICK x : x = [[run[u] EXCEPT !.seen = ledger.level, !.index = index]
                     EXCEPT !.phase = "download"]
    OBVIOUS
  <2>2. /\ x \in RunType /\ x.phase = "download" /\ x.plan = run[u].plan /\ x.path = run[u].path
        /\ x.early = run[u].early /\ x.ignore = run[u].ignore
    BY <2>1, Given DEF RunType, Phases
  <2>3. run' = [run EXCEPT ![u] = x]
    BY <1>4 DEF To
  <2> QED BY <1>0, <2>2, <2>3, VerifiedStep
<1> QED BY <1>1, <1>2, <1>3, <1>4 DEF VerifyIndex, IndexUnavailable

\* The evidence of the packages is weighed; what was resolved stays so.
LEMMA DownloadStep == ASSUME UpdateInv, NEW u \in Updaters, Download(u) PROVE UpdateInv'
<1>0. /\ run[u].phase = "download" /\ Running(u) /\ UNCHANGED <<repo, host, ledger>>
  BY DEF Download, In, Running
<1>1. CASE WorkEnds(u)
  BY <1>0, <1>1, WorkEndsStep
<1>2. CASE To(u, "apply", [run[u] EXCEPT !.level = Found(run[u].plan)])
  <2>1. Found(run[u].plan) \in Evidence
    <3>1. run[u].plan \in Releases /\ repo.evidence \in [Releases -> Evidence]
      BY <1>0, Given DEF RepoType, Meant, RunType, Releases
    <3>2. repo.evidence[run[u].plan] \in Evidence
      BY <3>1
    <3> QED BY <3>2 DEF Found, Evidence
  <2> PICK x : x = [[run[u] EXCEPT !.level = Found(run[u].plan)] EXCEPT !.phase = "apply"]
    OBVIOUS
  <2>2. /\ x \in RunType /\ x.phase = "apply" /\ x.plan = run[u].plan /\ x.path = run[u].path
        /\ x.early = run[u].early /\ x.ignore = run[u].ignore
    BY <2>1, Given DEF RunType, Phases
  <2>3. run' = [run EXCEPT ![u] = x]
    BY <1>2 DEF To
  <2> QED BY <1>0, <2>2, <2>3, VerifiedStep
<1> QED BY <1>1, <1>2 DEF Download

\* pacman does what was planned, unless the plan has changed.
LEMMA ApplyStep == ASSUME UpdateInv, NEW u \in Updaters, Apply(u) PROVE UpdateInv'
<1>0. /\ run[u] \in RunType /\ run[u].phase = "apply" /\ Meant(run[u]) /\ Running(u)
      /\ ~host.disturbed => UpToDate(run[u])
      /\ host \in HostType /\ ledger \in LedgerType /\ repo' = repo
  BY Given DEF Apply, In, Running
<1>1. /\ Upgraded(u) \in HostType /\ Upgraded(u).db = host.db
      /\ Upgraded(u).disturbed = host.disturbed
      /\ Resolves(run[u].ignore) => Upgraded(u).version["lib"] = host.db
  BY <1>0, UpdateAssumption DEF Upgraded, HostType, Releases, Installed, Split
<1>2. CASE WorkEnds(u) /\ UNCHANGED <<host, ledger>>
  BY <1>0, <1>2, WorkEndsStep
<1>3. ASSUME WorkEnds(u), host' \in {host, Upgraded(u)}, ledger' = [ledger EXCEPT !.retained = TRUE]
      PROVE  UpdateInv'
  <2> PICK x : x = [Idle EXCEPT !.phase = "post", !.path = run[u].path,
                                !.early = run[u].early, !.hooked = TRUE]
    OBVIOUS
  <2>1. /\ x \in RunType /\ Meant(x) /\ x.path = run[u].path /\ x.phase = "post"
        /\ x.plan = 0
    BY <1>0, Ends
  <2>2. UpToDate(x)'
    BY <2>1 DEF UpToDate
  <2>3. run' = [run EXCEPT ![u] = x]
    BY <1>3 DEF WorkEnds
  <2>4. ledger' \in LedgerType /\ Agrees'
    BY <1>0, <1>3 DEF LedgerType, Agrees
  <2> QED BY <1>0, <1>1, <1>3, <2>1, <2>2, <2>3, <2>4, RunsOn
<1>4. ASSUME host' = Upgraded(u), ledger' = ledger, To(u, "record", run[u])
      PROVE  UpdateInv'
  <2> PICK x : x = [run[u] EXCEPT !.phase = "record"]
    OBVIOUS
  <2>1. x \in RunType
    BY <1>0 DEF RunType, Phases
  <2>2. /\ x.phase = "record" /\ x.plan = run[u].plan /\ x.path = run[u].path
        /\ x.early = run[u].early
    BY <1>0 DEF RunType
  <2>3. run' = [run EXCEPT ![u] = x]
    BY <1>4 DEF To
  <2>4. Meant(x)
    BY <1>0, <2>2 DEF Meant, Hooked
  <2>5. ~host.disturbed => UpToDate(x)'
    BY <1>0, <1>1, <1>4, <2>2 DEF UpToDate, Meant
  <2>6. Agrees'
    BY <2>2, <2>3 DEF Agrees, In, UpdateInv, Typed
  <2> QED BY <1>0, <1>1, <1>4, <2>1, <2>2, <2>3, <2>4, <2>5, <2>6, RunsOn
<1> QED BY <1>2, <1>3, <1>4 DEF Apply

\* The ledger is written for what was done.
LEMMA RecordStep == ASSUME UpdateInv, NEW u \in Updaters, Record(u) PROVE UpdateInv'
<1>0. /\ run[u] \in RunType /\ run[u].phase = "record" /\ Meant(run[u]) /\ Running(u)
      /\ ~host.disturbed => run[u].plan = host.version["lib"]
      /\ host \in HostType /\ ledger \in LedgerType /\ UNCHANGED <<repo, host>>
  BY Given DEF Record, In, Running, UpToDate
<1>1. /\ ledger' \in LedgerType
      /\ ledger'.retained \/ ledger'.version = run[u].plan
  BY <1>0 DEF Record, LedgerType, RunType
<1>2. ~host.disturbed => Agrees'
  BY <1>0, <1>1 DEF Agrees
<1>3. CASE WorkEnds(u)
  <2> PICK x : x = [Idle EXCEPT !.phase = "post", !.path = run[u].path,
                                !.early = run[u].early, !.hooked = TRUE]
    OBVIOUS
  <2>1. /\ x \in RunType /\ Meant(x) /\ x.path = run[u].path /\ x.phase = "post"
        /\ x.plan = 0
    BY <1>0, Ends
  <2>2. UpToDate(x)'
    BY <2>1 DEF UpToDate
  <2>3. run' = [run EXCEPT ![u] = x]
    BY <1>3 DEF WorkEnds
  <2> QED BY <1>0, <1>1, <1>2, <2>1, <2>2, <2>3, RunsOn
<1>4. CASE To(u, "aur", Applied(u))
  <2> PICK x : x = [Applied(u) EXCEPT !.phase = "aur"]
    OBVIOUS
  <2>1. x \in RunType
    <3>1. 0 \in 0 .. MaxRelease
      BY UpdateAssumption
    <3>2. Applied(u) \in RunType
      BY <1>0, <3>1 DEF RunType, Applied, Evidence
    <3> QED BY <3>2 DEF RunType, Phases
  <2>2. /\ x.phase = "aur" /\ x.plan = 0 /\ x.path = run[u].path
        /\ x.early = run[u].early
    BY <1>0 DEF RunType, Applied
  <2>3. run' = [run EXCEPT ![u] = x]
    BY <1>4 DEF To
  <2>4. Meant(x) /\ UpToDate(x)'
    BY <1>0, <2>2 DEF Meant, Hooked, UpToDate
  <2> QED BY <1>0, <1>1, <1>2, <2>1, <2>2, <2>3, <2>4, RunsOn
<1> QED BY <1>3, <1>4 DEF Record

\* Packages from the AUR leave the plan alone.
LEMMA UpdateAurStep == ASSUME UpdateInv, NEW u \in Updaters, UpdateAurPackage(u) PROVE UpdateInv'
<1>0. /\ run[u] \in RunType /\ run[u].phase = "aur" /\ Meant(run[u]) /\ Running(u)
      /\ run[u].plan = 0 /\ host \in HostType /\ repo \in RepoType
      /\ UNCHANGED <<repo, ledger>>
  BY Given DEF UpdateAurPackage, In, Running, Meant
<1>1. CASE WorkEnds(u) /\ host' = host
  BY <1>0, <1>1, WorkEndsStep
<1>2. ASSUME NEW n \in run[u].aur, To(u, "aur", [run[u] EXCEPT !.aur = @ \ {n}]),
             host' \in {host, [host EXCEPT !.version = [m \in Installed |->
                                   IF m \in Selected(n) THEN repo.recipe ELSE @[m]]]}
      PROVE  UpdateInv'
  <2> PICK x : x = [[run[u] EXCEPT !.aur = @ \ {n}] EXCEPT !.phase = "aur"]
    OBVIOUS
  <2>1. x \in RunType
    BY <1>0 DEF RunType, Phases
  <2>2. /\ x.phase = "aur" /\ x.plan = 0 /\ x.path = run[u].path
        /\ x.early = run[u].early
    BY <1>0 DEF RunType
  <2>3. run' = [run EXCEPT ![u] = x]
    BY <1>2 DEF To
  <2>4. Meant(x) /\ UpToDate(x)'
    BY <1>0, <2>2 DEF Meant, Hooked, UpToDate
  <2>5. host' \in HostType /\ host'.disturbed = host.disturbed
        /\ host'.version["lib"] = host.version["lib"]
    <3>1. repo.recipe \in 0 .. MaxRelease
      BY <1>0, UpdateAssumption DEF RepoType, Releases
    <3>2. "lib" \notin Selected(n)
      BY <1>0 DEF Selected, RunType, Split
    <3> QED BY <1>0, <1>2, <3>1, <3>2 DEF HostType, Installed
  <2>6. Agrees => Agrees'
    <3>1. (\A v \in Updaters : ~In(v, "record"))' => \A v \in Updaters : ~In(v, "record")
      BY <1>0, <2>3 DEF In, UpdateInv, Typed
    <3> QED BY <1>0, <2>5, <3>1 DEF Agrees
  <2>7. repo' = repo /\ ledger' \in LedgerType
    BY <1>0, Given
  <2>8. ~host.disturbed => UpToDate(x)' /\ Agrees'
    BY <2>4, <2>6 DEF UpdateInv
  <2> QED BY <1>0, <2>1, <2>2, <2>3, <2>4, <2>5, <2>7, <2>8, RunsOn
<1> QED BY <1>1, <1>2 DEF UpdateAurPackage

\* An update that ends or dies leaves nothing planned.
LEMMA EndStep ==
  ASSUME UpdateInv, NEW u \in Updaters, PostHooks(u) \/ Killed(u)
  PROVE  UpdateInv'
<1>0. /\ run[u] \in RunType /\ Meant(run[u]) /\ run[u].phase # "idle"
      /\ host \in HostType /\ ledger \in LedgerType /\ UNCHANGED <<repo, host>>
      /\ run' = [run EXCEPT ![u] = Idle]
  BY Given DEF PostHooks, Killed, In
<1>1. /\ ledger' \in LedgerType /\ ledger'.version = ledger.version
      /\ ledger'.retained \/ (~ledger.retained /\ run[u].phase # "record")
  BY <1>0 DEF PostHooks, Killed, In, LedgerType
<1>2. /\ Idle \in RunType /\ Meant(Idle) /\ Idle.phase = "idle" /\ Idle.plan = 0
  BY IdleIsMeant DEF Idle
<1>3. Agrees => Agrees'
  <2>1. run[u].phase # "record" /\ (\A v \in Updaters : ~In(v, "record"))'
           => \A v \in Updaters : ~In(v, "record")
    BY <1>0 DEF In, UpdateInv, Typed
  <2> QED BY <1>0, <1>1, <2>1 DEF Agrees
<1>4. ~host.disturbed => UpToDate(Idle)' /\ \A v \in Updaters \ {u} : UpToDate(run[v])'
  <2>1. Idle' = Idle
    BY DEF Idle
  <2>2. \A v \in Updaters \ {u} : run'[v] = run[v]
    BY <1>0 DEF UpdateInv, Typed
  <2> QED BY <1>0, <1>2, <2>1, <2>2, Given DEF UpToDate, Resolves
<1>5. ~host'.disturbed =>
        /\ ~host.disturbed
        /\ Idle.phase \notin {"idle", "lock"} => \A v \in Updaters \ {u} : ~Running(v)
        /\ UpToDate(Idle)' /\ \A v \in Updaters \ {u} : UpToDate(run[v])'
        /\ Agrees'
  BY <1>0, <1>2, <1>3, <1>4 DEF UpdateInv
<1> QED BY <1>0, <1>1, <1>2, <1>5, Moves, Given
-----------------------------------------------------------------------------
(* The whole system.                                                       *)

\* The repository and somebody's pacman -Sy move under an update.
LEMMA WorldStep ==
  ASSUME UpdateInv, RepositoryMoves \/ RecipeMoves \/ OtherRefresh
  PROVE  UpdateInv'
<1>0. /\ repo \in RepoType /\ host \in HostType /\ UNCHANGED <<ledger, run>>
      /\ host'.version = host.version
  BY DEF RepositoryMoves, RecipeMoves, OtherRefresh, UpdateInv, Typed, HostType
<1>1. repo' \in RepoType
  <2>1. CASE RepositoryMoves
    <3>1. PICK e \in Evidence :
            repo' = [repo EXCEPT !.newest = @ + 1, !.evidence[repo.newest + 1] = e]
      BY <2>1 DEF RepositoryMoves
    <3>2. repo.newest + 1 \in Releases
      <4>1. repo.newest \in 1 .. MaxRelease /\ repo.newest < MaxRelease
        BY <1>0, <2>1 DEF RepositoryMoves, RepoType, Releases
      <4> QED BY <4>1, UpdateAssumption DEF Releases
    <3> QED BY <1>0, <3>1, <3>2 DEF RepoType
  <2>2. CASE RecipeMoves
    BY <1>0, <2>2, UpdateAssumption DEF RecipeMoves, RepoType, Releases
  <2>3. CASE OtherRefresh
    BY <1>0, <2>3 DEF OtherRefresh
  <2> QED BY <2>1, <2>2, <2>3
<1>2. host' \in HostType
  BY <1>0 DEF RepositoryMoves, RecipeMoves, OtherRefresh, HostType, RepoType
<1>3. ~host'.disturbed =>
        ~host.disturbed /\ \/ host' = host
                           \/ \A u \in Updaters : run[u].plan = 0
  BY <1>0 DEF RepositoryMoves, RecipeMoves, OtherRefresh, HostType
<1>4. ASSUME ~host'.disturbed, NEW u \in Updaters PROVE UpToDate(run[u])'
  BY <1>0, <1>3, <1>4, Given DEF UpToDate, Resolves, Meant
<1>5. Agrees => Agrees'
  BY <1>0 DEF Agrees, In
<1> QED BY <1>0, <1>1, <1>2, <1>3, <1>4, <1>5 DEF UpdateInv, Typed, Meant, Running

\* UpdateInv is inductive.
LEMMA UpdateStep == UpdateInv /\ [UpdateNext]_updateVars => UpdateInv'
<1> SUFFICES ASSUME UpdateInv, [UpdateNext]_updateVars PROVE UpdateInv'
  OBVIOUS
<1>1. CASE UNCHANGED updateVars
  BY <1>1 DEF updateVars, UpdateInv, Typed, Meant, UpToDate, Resolves, Agrees, Running, In
<1>2. CASE RepositoryMoves \/ RecipeMoves \/ OtherRefresh
  BY <1>2, WorldStep
<1>3. ASSUME NEW u \in Updaters, UpdaterNext(u) PROVE UpdateInv'
  BY <1>3, StartStep, AcquireStep, RefreshStep, PlanStep, PreHooksStep, VerifyIndexStep,
     DownloadStep, ApplyStep, RecordStep, UpdateAurStep, EndStep DEF UpdaterNext, Work
<1> QED BY <1>1, <1>2, <1>3 DEF UpdateNext

\* UpdateInv holds at first.
LEMMA UpdateStart == UpdateInit => UpdateInv
<1> SUFFICES ASSUME UpdateInit PROVE UpdateInv
  OBVIOUS
<1>0. 1 \in Releases /\ 0 \in 0 .. MaxRelease /\ 1 \in 0 .. MaxRelease
  BY UpdateAssumption DEF Releases
<1>1. repo \in RepoType
  <2>1. PICK e \in {0, 3} : repo = [newest |-> 1, recipe |-> 1, evidence |-> [n \in Releases |-> e]]
    BY DEF UpdateInit
  <2> QED BY <1>0, <2>1 DEF RepoType, Evidence
<1>2. ledger \in LedgerType /\ ledger.version = 0
  <2>1. PICK n \in {0, 3} : ledger = [version |-> 0, level |-> n, retained |-> FALSE]
    BY DEF UpdateInit
  <2> QED BY <1>0, <2>1 DEF LedgerType, Evidence
<1>5. host \in HostType /\ host.version["lib"] = 0
  <2> DEFINE version == [n \in Installed |-> IF n = "lib" THEN 0 ELSE 1]
  <2>1. version \in [Installed -> 0 .. MaxRelease] /\ version["lib"] = 0
    BY <1>0 DEF Installed
  <2> HIDE DEF version
  <2>2. PICK l \in BOOLEAN, h \in HoldChoices, t \in TrustChoices :
          host = [db |-> 1, version |-> version, systemLock |-> l, held |-> h, trust |-> t,
                  disturbed |-> FALSE]
    BY DEF UpdateInit, version
  <2> QED BY <1>0, <2>1, <2>2, UpdateAssumption DEF HostType
<1>3. \A u \in Updaters : run[u] = Idle /\ run[u].phase = "idle"
  BY DEF UpdateInit, Idle
<1>4. run \in [Updaters -> RunType] /\ \A u \in Updaters : Meant(run[u]) /\ UpToDate(run[u])
  BY IdleIsMeant DEF UpdateInit
<1> QED BY <1>1, <1>2, <1>3, <1>4, <1>5 DEF UpdateInv, Typed, Running, Agrees

\* UpdateInv holds throughout.
LEMMA UpdateHolds == UpdateSpec => []UpdateInv
BY UpdateStart, UpdateStep, PTL DEF UpdateSpec
-----------------------------------------------------------------------------
(* Evidence, where it is asked for and must not be lost.                   *)

\* Nothing that runs changes what the policy asks for.
LEMMA TrustStays ==
  ASSUME UpdateInv, [UpdateNext]_updateVars
  PROVE  host'.trust = host.trust
<1>1. host \in HostType
  BY DEF UpdateInv, Typed
<1>2. CASE UNCHANGED updateVars
  BY <1>2 DEF updateVars
<1>3. CASE RepositoryMoves \/ RecipeMoves \/ OtherRefresh
  BY <1>1, <1>3 DEF RepositoryMoves, RecipeMoves, OtherRefresh, HostType
<1>4. ASSUME NEW u \in Updaters, UpdaterNext(u) PROVE host'.trust = host.trust
  <2>1. Upgraded(u).trust = host.trust
    BY <1>1 DEF Upgraded, HostType
  <2>2. CASE Start(u) \/ Acquire(u) \/ Refresh(u) \/ Plan(u) \/ PreHooks(u) \/ PostHooks(u) \/ Killed(u)
    BY <1>1, <2>2 DEF Start, Acquire, Refresh, Plan, PreHooks, PostHooks, Killed, HostType
  <2>3. CASE VerifyIndex(u) \/ Download(u) \/ Apply(u) \/ Record(u)
    BY <2>1, <2>3 DEF VerifyIndex, Download, Apply, Record
  <2>4. CASE UpdateAurPackage(u)
    BY <1>1, <2>4 DEF UpdateAurPackage, HostType
  <2> QED BY <1>4, <2>2, <2>3, <2>4 DEF UpdaterNext, Work
<1> QED BY <1>2, <1>3, <1>4 DEF UpdateNext

\* A step of u that leaves the ledger's evidence alone.
LEMMA Weighs ==
  ASSUME UpdateInv, EvidenceInv, Guarded, NEW u \in Updaters, \A v \in Updaters \ {u} : run'[v] = run[v],
         ledger'.level = ledger.level, ~host'.disturbed => ~host.disturbed /\ Weighed(run[u])'
  PROVE  EvidenceInv' /\ (~host'.disturbed => ledger'.level >= ledger.level)
<1>1. ledger.level \in Nat
  BY DEF UpdateInv, Typed, LedgerType, Evidence
<1> QED BY <1>1 DEF EvidenceInv, Weighed

\* All but the work on the repository's package leads elsewhere.
LEMMA Elsewhere ==
  ASSUME UpdateInv, NEW u \in Updaters,
         \/ Start(u) \/ Acquire(u) \/ Refresh(u) \/ Plan(u) \/ PreHooks(u) \/ PostHooks(u)
         \/ Killed(u) \/ UpdateAurPackage(u) \/ WorkEnds(u)
  PROVE  run'[u].phase \notin {"download", "apply", "record"}
<1>0. run \in [Updaters -> RunType] /\ run[u] \in RunType
  BY DEF UpdateInv, Typed
<1>1. CASE PostHooks(u) \/ Killed(u)
  BY <1>0, <1>1 DEF PostHooks, Killed, Idle
<1>2. CASE End(u)
  BY <1>0, <1>2 DEF End, Idle
<1>3. CASE WorkEnds(u)
  BY <1>0, <1>3 DEF WorkEnds, Idle
<1>4. CASE Start(u)
  BY <1>0, <1>4 DEF Start, To, Idle
<1>5. CASE Acquire(u) /\ ~End(u)
  BY <1>0, <1>5 DEF Acquire, To, RunType
<1>6. CASE Refresh(u) /\ ~End(u)
  <2>1. PICK part : To(u, "plan", [run[u] EXCEPT !.part = part])
    BY <1>6 DEF Refresh
  <2> QED BY <1>0, <2>1 DEF To, RunType
<1>7. CASE Plan(u) /\ ~End(u)
  <2>1. PICK young, orphans :
          LET ignore == HeldBack(young)
              planned == run[u].part # "aur" /\ Resolves(ignore)
          IN  To(u, "pre", [run[u] EXCEPT !.plan = IF planned THEN host.db ELSE 0,
                                          !.aur = AurCandidates(u), !.part = "all",
                                          !.ignore = IF planned THEN ignore ELSE {}])
    BY <1>7 DEF Plan
  <2> QED BY <1>0, <2>1 DEF To, RunType
<1>8. CASE PreHooks(u) /\ ~End(u)
  <2>1. \E phase \in {"verify", "aur"} : To(u, phase, [run[u] EXCEPT !.hooked = TRUE])
    BY <1>8 DEF PreHooks
  <2> QED BY <1>0, <2>1 DEF To, RunType
<1>9. CASE UpdateAurPackage(u) /\ ~WorkEnds(u)
  <2>1. PICK n : To(u, "aur", [run[u] EXCEPT !.aur = @ \ {n}])
    BY <1>9 DEF UpdateAurPackage
  <2> QED BY <1>0, <2>1 DEF To, RunType
<1> QED BY <1>1, <1>2, <1>3, <1>4, <1>5, <1>6, <1>7, <1>8, <1>9

\* On an undisturbed host the others are not running.
LEMMA OthersWait ==
  ASSUME UpdateInv, NEW u \in Updaters, UpdaterNext(u)
  PROVE  \A v \in Updaters \ {u} : run'[v] = run[v]
<1>1. \E x : run' = [run EXCEPT ![u] = x]
  BY DEF UpdaterNext, Start, Acquire, Refresh, Plan, PreHooks, PostHooks, Killed, Work, VerifyIndex,
     Download, Apply, Record, UpdateAurPackage, To, End, WorkEnds, IndexUnavailable
<1> QED BY <1>1 DEF UpdateInv, Typed

\* EvidenceInv is inductive beside UpdateInv, and steps keep the evidence, where
\* it must not be lost.
LEMMA GuardedStep ==
  ASSUME Guarded
  PROVE  UpdateInv /\ EvidenceInv /\ [UpdateNext]_updateVars
           => EvidenceInv' /\ (~host'.disturbed => ledger'.level >= ledger.level)
<1> DEFINE Kept == EvidenceInv' /\ (~host'.disturbed => ledger'.level >= ledger.level)
<1> SUFFICES ASSUME UpdateInv, EvidenceInv, [UpdateNext]_updateVars PROVE Kept
  OBVIOUS
<1>0. ledger.level \in Nat
  BY DEF UpdateInv, Typed, LedgerType, Evidence
<1>1. CASE UNCHANGED updateVars
  BY <1>0, <1>1 DEF updateVars, EvidenceInv, Weighed
<1>2. CASE RepositoryMoves \/ RecipeMoves \/ OtherRefresh
  <2>1. UNCHANGED <<ledger, run>> /\ (~host'.disturbed => ~host.disturbed)
    BY <1>2 DEF RepositoryMoves, RecipeMoves, OtherRefresh, UpdateInv, Typed, HostType
  <2> QED BY <1>0, <2>1 DEF EvidenceInv, Weighed
<1>3. ASSUME NEW u \in Updaters, UpdaterNext(u) PROVE Kept
  <2>0. /\ run[u] \in RunType /\ host \in HostType /\ ledger \in LedgerType
        /\ ~host.disturbed => Weighed(run[u])
        /\ run \in [Updaters -> RunType]
        /\ \A v \in Updaters \ {u} : run'[v] = run[v]
    BY <1>3, Given, OthersWait DEF EvidenceInv, UpdateInv, Typed
  <2>1. CASE Start(u) \/ Acquire(u) \/ Refresh(u) \/ Plan(u) \/ PreHooks(u) \/ PostHooks(u)
             \/ Killed(u) \/ UpdateAurPackage(u)
    <3>1. ledger'.level = ledger.level
      BY <2>0, <2>1 DEF Start, Acquire, Refresh, Plan, PreHooks, PostHooks, Killed,
         UpdateAurPackage, LedgerType
    <3>2. ~host'.disturbed => ~host.disturbed
      BY <2>0, <2>1 DEF Start, Acquire, Refresh, Plan, PreHooks, PostHooks, Killed,
         UpdateAurPackage, HostType
    <3>3. Weighed(run[u])'
      BY <2>1, Elsewhere DEF Weighed
    <3> QED BY <2>0, <3>1, <3>2, <3>3, Weighs
  <2>2. CASE VerifyIndex(u)
    <3>1. Trusts /\ host.trust.noDowngrade
      BY DEF Guarded
    <3>2. UNCHANGED <<host, ledger>>
      BY <2>2 DEF VerifyIndex
    <3>3. CASE WorkEnds(u)
      BY <2>0, <3>2, <3>3, Elsewhere, Weighs DEF Weighed
    <3>4. CASE To(u, "apply", [run[u] EXCEPT !.level = 0]) /\ ledger.level = 0
      <4>1. Weighed(run[u])'
        BY <2>0, <3>2, <3>4 DEF Weighed, To, RunType
      <4> QED BY <2>0, <3>2, <4>1, Weighs
    <3>5. ASSUME NEW index,
                 To(u, "download", [run[u] EXCEPT !.seen = ledger.level, !.index = index])
          PROVE  Kept
      <4>1. Weighed(run[u])'
        BY <2>0, <3>2, <3>5 DEF Weighed, To, RunType
      <4> QED BY <2>0, <3>2, <4>1, Weighs
    <3>6. ~Loses(0, ledger.level) => ledger.level = 0
      BY <1>0, <3>1 DEF Loses
    <3> QED BY <2>2, <3>1, <3>3, <3>4, <3>5, <3>6 DEF VerifyIndex, IndexUnavailable
  <2>3. CASE Download(u)
    <3>1. UNCHANGED <<host, ledger>> /\ run[u].phase = "download"
      BY <2>3 DEF Download, In
    <3>2. CASE WorkEnds(u)
      BY <2>0, <3>1, <3>2, Elsewhere, Weighs DEF Weighed
    <3>3. CASE /\ ~Loses(Found(run[u].plan), run[u].seen)
               /\ To(u, "apply", [run[u] EXCEPT !.level = Found(run[u].plan)])
      <4>1. /\ run'[u].phase = "apply" /\ run'[u].level = Found(run[u].plan)
            /\ run[u].seen \in Nat
        BY <2>0, <3>3 DEF To, RunType, Evidence
      <4>2. Found(run[u].plan) \in Nat
        <5>1. run[u].plan \in Releases /\ repo \in RepoType
          BY <2>0, <3>1, Given DEF Meant, RunType, Releases
        <5> QED BY <5>1 DEF Found, RepoType, Evidence
      <4>3. Found(run[u].plan) >= run[u].seen
        BY <3>3, <4>1, <4>2 DEF Loses, Guarded
      <4>4. ~host.disturbed => Weighed(run[u])'
        BY <2>0, <3>1, <4>1, <4>3 DEF Weighed, EvidenceInv
      <4> QED BY <2>0, <3>1, <4>4, Weighs
    <3> QED BY <2>3, <3>2, <3>3 DEF Download
  <2>4. CASE Apply(u)
    <3>1. /\ ledger'.level = ledger.level /\ run[u].phase = "apply"
          /\ host'.disturbed = host.disturbed
      BY <2>0, <2>4 DEF Apply, In, LedgerType, Upgraded, HostType
    <3>2. CASE WorkEnds(u)
      BY <2>0, <3>1, <3>2, Elsewhere, Weighs DEF Weighed
    <3>3. CASE To(u, "record", run[u])
      <4>1. ~host.disturbed => Weighed(run[u])'
        BY <2>0, <3>1, <3>3 DEF Weighed, To, RunType
      <4> QED BY <2>0, <3>1, <4>1, Weighs
    <3> QED BY <2>4, <3>2, <3>3 DEF Apply
  <2>5. CASE Record(u)
    <3>1. /\ host' = host /\ run[u].phase = "record" /\ Running(u)
          /\ ledger'.level \in {ledger.level, run[u].level}
      BY <2>0, <2>5 DEF Record, In, LedgerType, Running
    <3>2. run'[u].phase \notin {"download", "apply", "record"}
      <4>1. CASE WorkEnds(u)
        BY <4>1, Elsewhere
      <4>2. CASE To(u, "aur", Applied(u))
        BY <2>0, <4>2 DEF To, Applied, RunType
      <4> QED BY <2>5, <4>1, <4>2 DEF Record
    <3>3. ASSUME ~host.disturbed
          PROVE  \A v \in Updaters : Weighed(run[v])'
      <4>1. \A v \in Updaters \ {u} : run[v].phase \in {"idle", "lock"}
        BY <3>1, <3>3, Waits DEF UpdateInv
      <4> QED BY <2>0, <3>2, <4>1 DEF Weighed
    <3>4. ~host.disturbed => ledger'.level >= ledger.level
      BY <1>0, <2>0, <3>1 DEF Weighed
    <3> QED BY <3>1, <3>3, <3>4 DEF EvidenceInv
  <2> QED BY <1>3, <2>1, <2>2, <2>3, <2>4, <2>5 DEF UpdaterNext, Work
<1> QED BY <1>1, <1>2, <1>3 DEF UpdateNext

\* Where it may be lost nothing is claimed.
LEMMA EvidenceStep ==
  ASSUME UpdateInv, EvidenceInv, [UpdateNext]_updateVars
  PROVE  EvidenceInv' /\ (Guarded /\ ~host'.disturbed => ledger'.level >= ledger.level)
<1>1. Guarded' <=> Guarded
  BY TrustStays DEF Guarded, Trusts
<1>2. CASE Guarded
  BY <1>2, GuardedStep
<1>3. CASE ~Guarded
  BY <1>1, <1>3 DEF EvidenceInv
<1> QED BY <1>2, <1>3
-----------------------------------------------------------------------------
(* Theorems.                                                               *)

\* Two updates run at once only when one of them chose its lock before there
\* was a system lock.
THEOREM UpdatesAreExclusive == UpdateSpec => []UpdatesExclude
<1>1. UpdateInv => UpdatesExclude
  BY DEF UpdateInv, UpdatesExclude, Meant, Running
<1> QED BY <1>1, UpdateHolds, PTL

\* A command whose pre hooks succeeded has run its post hooks when it ends.
THEOREM HooksAreClosed == UpdateSpec => []PostHooksRun
<1>1. UpdateInv => PostHooksRun
  BY DEF UpdateInv, PostHooksRun, Meant, Hooked, In
<1> QED BY <1>1, UpdateHolds, PTL

\* The ledger's entry is of what is installed, unless an update overlapped with
\* another, or somebody refreshed the databases under it, or the journal has a
\* transaction.
THEOREM LedgerIsRight == UpdateSpec => []LedgerAgrees
<1>1. UpdateInv => LedgerAgrees
  BY DEF UpdateInv, Agrees, LedgerAgrees
<1> QED BY <1>1, UpdateHolds, PTL

\* Where a package's evidence must not be lost and index or provenance is
\* checked, an update never records less evidence than there was, whatever the
\* settings, the index and the cache come to.
THEOREM EvidenceOnlyGrows == UpdateSpec => EvidenceIsKept
<1>1. UpdateInit => EvidenceInv
  BY DEF UpdateInit, EvidenceInv, Weighed, Idle
<1>2. UpdateInv /\ EvidenceInv /\ [UpdateNext]_updateVars => EvidenceInv'
  BY EvidenceStep
<1>3. UpdateInv /\ EvidenceInv /\ [UpdateNext]_updateVars
        => [Trusts /\ host.trust.noDowngrade /\ ~host.disturbed'
              => ledger'.level >= ledger.level]_updateVars
  BY EvidenceStep DEF Guarded
<1> QED BY <1>1, <1>2, <1>3, UpdateHolds, PTL DEF UpdateSpec, EvidenceIsKept
=============================================================================
