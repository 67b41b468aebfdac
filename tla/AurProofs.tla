----------------------------- MODULE AurProofs ------------------------------
(***************************************************************************)
(* Theorems about AurBuild: its types, that only approved commits are      *)
(* built, that a replay has the sources of its receipt, and that the runs  *)
(* the ledger refers to are there.                                         *)
(***************************************************************************)
EXTENDS AurBuild, TLAPS

Running == {"replay", "fetch", "copy", "built"}
Recording == {"record", "install"}
Working == {"load", "review", "decide", "approved"} \cup Running \cup Recording

\* The fields of a command that its next step goes by are filled in.
Ready(x) ==
  /\ x.at \in Working => x.base \in Bases /\ x.cmd \notin {"prune", "recover"}
  /\ x.at \in {"survey", "remove"} => x.cmd = "prune"
  /\ x.at = "release" => x.cmd \in {"install", "recover"}
  /\ x.at \in {"decide", "approved"} => x.target \in Commits
  /\ x.at = "approved" => x.cmd \in {"build", "install", "rebuild"}
  /\ x.at \in Recording => x.cmd = "install"
  /\ x.at \in Running \cup Recording \cup {"release"} => x.run \in Runs
  /\ x.at = "built" => x.inputs \in Contents
  /\ x.at = "load" => x.cmd = "install"
  /\ x.at \in {"load", "fetch"} => x.of = None
  /\ x.at \in {"replay", "copy"} => x.of \in Runs
  /\ x.at \in {"review", "decide", "approved"} =>
       /\ x.cmd = "rebuild" => x.of \in Runs
       /\ x.cmd # "rebuild" => x.of = None

\* The cache lease: nobody is beside a prune, but recover, which takes none.
Alone(p, x) ==
  \A q \in Procs \ {p} :
    /\ x.at # "idle" /\ x.cmd = "prune" /\ proc[q].at # "idle" => proc[q].cmd = "recover"
    /\ x.at # "idle" /\ Pruning(q) => x.cmd = "recover"

\* A build has its run to itself.
Holding(x) == x.at \in Running \cup Recording
Own(p, x) ==
  \A q \in Procs \ {p} : Holding(x) /\ Holding(proc[q]) => x.run # proc[q].run

\* What a command knows of the runs and the approvals is so: its run is open
\* until its receipt is written, what it read from the lockfile was approved,
\* and what it replays has a receipt, and its sources.
Knows(x) ==
  /\ x.at \in Running => run[x.run].state = "open"
  /\ x.at \in Recording => run[x.run].state = "done"
  /\ \A b \in Bases : x.saw[b] # None => <<b, x.saw[b]>> \in approved
  /\ x.at = "approved" => <<x.base, x.target>> \in approved
  /\ x.at \in {"review", "decide", "approved", "replay", "copy"} /\ x.of # None
       => run[x.of].state = "done"
  /\ x.at \in {"replay", "fetch", "copy"} => run[x.run].of = x.of
  /\ x.at = "built" =>
       \A s \in Runs : run[x.run].of = s /\ run[s].state = "done" => x.inputs = run[s].told

Fits(p, x) == Ready(x) /\ Alone(p, x) /\ Own(p, x) /\ Knows(x)

\* Whatever is in the lockfile was approved, and what was built; a replay was
\* started from a receipt and has its sources.
Sound ==
  /\ \A b \in Bases : lock[b] # None => <<b, lock[b]>> \in approved
  /\ \A r \in Runs : run[r].state \in {"open", "done"} => run[r].base \in Bases
  /\ OnlyApprovedIsBuilt
  /\ \A r, s \in Runs :
       run[r].state \in {"open", "done"} /\ run[r].of = s => run[s].state \in {"done", "gone"}
  /\ ReplayIsFaithful

AurInv == TypeOK /\ Sound /\ \A p \in Procs : Fits(p, proc[p])
-----------------------------------------------------------------------------
\* The value for nothing is none of the values.
LEMMA NoneIsNothing == None \notin Bases /\ None \notin Runs /\ None \notin Commits /\ None \notin Contents
BY AurBuildAssumption DEF Commits

\* A process without a command is fit.
LEMMA IdleIsFit ==
  ASSUME NEW p \in Procs
  PROVE  /\ Idle \in ProcType
         /\ Fits(p, Idle)
BY NoneIsNothing DEF Idle, ProcType, AllCommands, Lockfiles, Fits, Ready, Alone, Own, Knows, Holding,
   Working, Running, Recording

\* A step of p to x leaves everybody fit, if x is and nobody's knowledge is spoilt.
LEMMA Moves ==
  ASSUME TypeOK, \A q \in Procs : Fits(q, proc[q]),
         NEW p \in Procs, NEW x \in ProcType, Goto(p, x),
         Ready(x), Alone(p, x), Own(p, x), Knows(x)',
         \A q \in Procs \ {p} : Knows(proc[q])'
  PROVE  /\ proc' \in [Procs -> ProcType]
         /\ \A q \in Procs : Fits(q, proc[q])'
<1>0. /\ proc' \in [Procs -> ProcType] /\ proc'[p] = x
      /\ \A q \in Procs \ {p} : proc'[q] = proc[q]
  BY DEF TypeOK, Goto
<1>1. ASSUME NEW q \in Procs PROVE Ready(proc[q])' /\ Knows(proc[q])'
  BY <1>0 DEF Fits, Ready, Knows
<1>2. ASSUME NEW q \in Procs PROVE Alone(q, proc[q])'
  BY <1>0 DEF Fits, Alone, Pruning
<1>3. ASSUME NEW q \in Procs PROVE Own(q, proc[q])'
  BY <1>0 DEF Fits, Own, Holding
<1> QED BY <1>0, <1>1, <1>2, <1>3 DEF Fits

\* A step of p to x that changes nothing but what p does.
LEMMA Quietly ==
  ASSUME AurInv, NEW p \in Procs, NEW x \in ProcType, Goto(p, x), Fits(p, x),
         UNCHANGED <<head, blocked, lock, approved, run>>,
         entry' \in [Bases -> Runs \cup {None}],
         pending' \in [Runs -> {"no", "intended", "completed"}]
  PROVE  AurInv'
<1>1. Knows(x)' /\ \A q \in Procs \ {p} : Knows(proc[q])'
  BY DEF AurInv, Fits, Knows, Goto, TypeOK
<1>2. proc' \in [Procs -> ProcType] /\ \A q \in Procs : Fits(q, proc[q])'
  BY <1>1, Moves DEF AurInv, Fits
<1>3. Sound'
  BY DEF AurInv, Sound, OnlyApprovedIsBuilt, ReplayIsFaithful
<1> QED BY <1>2, <1>3 DEF AurInv, TypeOK
-----------------------------------------------------------------------------
(* Commands from their start to the approval.                              *)

\* What everybody knows to begin with.
LEMMA Given ==
  ASSUME AurInv, NEW p \in Procs
  PROVE  /\ proc[p] \in ProcType /\ Ready(proc[p]) /\ Knows(proc[p])
         /\ Alone(p, proc[p]) /\ Own(p, proc[p])
         /\ lock \in Lockfiles /\ head \in [Bases -> Commits]
BY DEF AurInv, TypeOK, Fits

\* Whatever stops is idle, and knows nothing that could be wrong.
LEMMA StopStep == ASSUME AurInv, NEW p \in Procs, Stop(p) PROVE AurInv'
BY Quietly, IdleIsFit DEF Stop, Stopped, AurInv, TypeOK

\* A command that gets the lease is alone, or not with a prune.
LEMMA LeaseIsFree ==
  ASSUME AurInv, NEW p \in Procs, NEW x, x.at # "idle",
         IF x.cmd = "prune" THEN Leased(FALSE) ELSE Leased(TRUE)
  PROVE  Alone(p, x)
<1>1. ASSUME NEW q \in Procs, x.cmd = "prune", proc[q].at # "idle"
      PROVE  proc[q].cmd = "recover"
  BY <1>1 DEF Leased, Sharing, Pruning
<1> QED BY <1>1 DEF Alone, Leased

\* A build, an install or a review starts with what the lease allows.
LEMMA StartStep ==
  ASSUME AurInv, NEW p \in Procs, NEW c \in Commands, NEW b \in Bases, NEW yes \in BOOLEAN,
         Start(p, c, b, yes)
  PROVE  AurInv'
<1> DEFINE x == [Idle EXCEPT !.at = "review", !.cmd = c, !.base = b, !.yes = yes, !.saw = lock]
<1>0. c \in AllCommands \ {"rebuild", "recover", "prune"}
  BY AurBuildAssumption DEF Start
<1>1. x \in ProcType
  BY <1>0, IdleIsFit, Given DEF ProcType
<1>2. Ready(x)
  BY <1>0 DEF Ready, Idle, Working, Running, Recording
<1>3. Alone(p, x)
  <2>1. x.at # "idle" /\ x.cmd # "prune"
    BY <1>0 DEF Idle
  <2> HIDE DEF x
  <2> QED BY <2>1, LeaseIsFree DEF Start
<1>4. Own(p, x)
  BY DEF Own, Holding, Idle, Running, Recording
<1>5. Knows(x)
  BY DEF Knows, Idle, Running, Recording, AurInv, Sound
<1> HIDE DEF x
<1> QED BY <1>1, <1>2, <1>3, <1>4, <1>5, Quietly DEF Fits, Start, x, AurInv, TypeOK

\* What load reads from the lockfile is approved, as the lockfile is.
LEMMA LoadLockStep == ASSUME AurInv, NEW p \in Procs, LoadLock(p) PROVE AurInv'
<1> DEFINE x == [proc[p] EXCEPT !.at = "review", !.saw = lock]
<1>1. x \in ProcType
  BY Given DEF ProcType
<1>2. Ready(x)
  BY Given DEF Ready, LoadLock, At, ProcType, Working, Running, Recording
<1>3. Alone(p, x)
  BY Given DEF LoadLock, At, Alone, ProcType
<1>4. Own(p, x)
  BY Given DEF Own, Holding, ProcType, Running, Recording
<1>5. Knows(x)
  BY Given DEF Knows, LoadLock, At, ProcType, Running, Recording, AurInv, Sound, Ready
<1> HIDE DEF x
<1> QED BY <1>1, <1>2, <1>3, <1>4, <1>5, Quietly DEF Fits, LoadLock, x, AurInv, TypeOK

\* A review looks at the head, and shows what it was compared with.
LEMMA ReviewStep == ASSUME AurInv, NEW p \in Procs, Review(p) PROVE AurInv'
<1> DEFINE x == [proc[p] EXCEPT !.at = "decide", !.target = Target(p), !.warned = Warned(p),
                                !.pinned = None]
<1>0. proc[p].base \in Bases /\ Target(p) \in Commits
  BY Given DEF Target, ProcType, Ready, Review, At, Working
<1>1. x \in ProcType
  <2>1. Warned(p) \in BOOLEAN
    BY DEF Warned
  <2> QED BY <1>0, <2>1, Given DEF ProcType
<1>2. Ready(x)
  BY <1>0, Given DEF Ready, Review, At, ProcType, Working, Running, Recording
<1>3. Alone(p, x)
  BY Given DEF Review, At, Alone, ProcType
<1>4. Own(p, x)
  BY Given DEF Own, Holding, ProcType, Running, Recording
<1>5. Knows(x)
  BY Given DEF Knows, Review, At, ProcType, Running, Recording
<1> HIDE DEF x
<1> QED BY <1>1, <1>2, <1>3, <1>4, <1>5, Quietly DEF Fits, Review, x, AurInv, TypeOK

\* What a command is after the approval fits, once the commit is approved.
LEMMA OnwardFits ==
  ASSUME AurInv, NEW p \in Procs, At(p, "decide")
  PROVE  /\ Onward(p) \in ProcType
         /\ Ready(Onward(p)) /\ Alone(p, Onward(p)) /\ Own(p, Onward(p))
         /\ <<proc[p].base, proc[p].target>> \in approved => Knows(Onward(p))
<1>0. /\ proc[p].base \in Bases /\ proc[p].target \in Commits
      /\ proc[p].cmd \in AllCommands \ {"prune", "recover"}
  BY Given DEF Ready, At, Working, ProcType
<1>1. CASE Approving(p)
  <2>1. Onward(p) = Idle
    BY <1>1 DEF Onward, Approving
  <2> QED BY <2>1, IdleIsFit DEF Fits
<1>2. CASE proc[p].cmd = "update"
  <2> DEFINE x == [Idle EXCEPT !.at = "load", !.cmd = "install", !.base = proc[p].base,
                               !.yes = proc[p].yes, !.pinned = proc[p].target]
  <2>0. Onward(p) = x
    BY <1>2 DEF Onward, Approving
  <2>1. x \in ProcType
    BY <1>0, IdleIsFit, Given DEF ProcType, AllCommands
  <2>2. Ready(x)
    BY <1>0 DEF Ready, Idle, Working, Running, Recording
  <2>3. Alone(p, x)
    BY <1>0, Given DEF Alone, At, Idle
  <2>4. Own(p, x)
    BY DEF Own, Holding, Idle, Running, Recording
  <2>5. Knows(x)
    BY DEF Knows, Idle, Running, Recording
  <2> QED BY <2>0, <2>1, <2>2, <2>3, <2>4, <2>5
<1>3. CASE proc[p].cmd \in {"build", "install", "rebuild"}
  <2> DEFINE x == [proc[p] EXCEPT !.at = "approved", !.yes = FALSE, !.saw = Idle.saw]
  <2>0. Onward(p) = x
    BY <1>3 DEF Onward, Approving
  <2>1. x \in ProcType
    BY IdleIsFit, Given DEF ProcType
  <2>2. Ready(x)
    BY <1>0, <1>3, Given DEF Ready, ProcType, Working, Running, Recording, At
  <2>3. Alone(p, x)
    BY <1>0, Given DEF Alone, At, ProcType
  <2>4. Own(p, x)
    BY Given DEF Own, Holding, ProcType, Running, Recording
  <2>5. <<proc[p].base, proc[p].target>> \in approved => Knows(x)
    BY Given DEF Knows, ProcType, Running, Recording, At, Idle
  <2> QED BY <2>0, <2>1, <2>2, <2>3, <2>4, <2>5
<1>4. Approving(p) \/ proc[p].cmd = "update" \/ proc[p].cmd \in {"build", "install", "rebuild"}
  BY <1>0 DEF AllCommands, Approving
<1> QED BY <1>1, <1>2, <1>3, <1>4 DEF Fits

\* What the lockfile a command read approves was approved.
LEMMA UseApprovalStep == ASSUME AurInv, NEW p \in Procs, UseApproval(p) PROVE AurInv'
<1>1. <<proc[p].base, proc[p].target>> \in approved
  BY Given, NoneIsNothing DEF UseApproval, ApprovedHere, Knows, Ready, At, Working
<1> QED BY <1>1, OnwardFits, Quietly DEF UseApproval, Fits, AurInv, TypeOK

\* A decision is approved from then on; nothing else in the lockfile changes.
LEMMA SaveApprovalStep == ASSUME AurInv, NEW p \in Procs, SaveApproval(p) PROVE AurInv'
<1> PICK x : x = Onward(p)
  OBVIOUS
<1>0. /\ proc[p].base \in Bases /\ proc[p].target \in Commits
      /\ proc[p].saw \in Lockfiles
  BY Given DEF SaveApproval, Ready, At, Working, ProcType
<1>1. /\ lock' \in Lockfiles /\ approved' \subseteq Bases \X Commits
      /\ approved \subseteq approved' /\ <<proc[p].base, proc[p].target>> \in approved'
  BY <1>0 DEF SaveApproval, Lockfiles, AurInv, TypeOK
<1>2. \A b \in Bases : lock'[b] # None => <<b, lock'[b]>> \in approved'
  BY <1>0, <1>1, Given DEF SaveApproval, Lockfiles, Knows
<1>3. x \in ProcType /\ Ready(x) /\ Alone(p, x) /\ Own(p, x)
  BY OnwardFits DEF SaveApproval
<1>4. Knows(x)'
  <2>1. Knows(proc[p]) /\ proc[p] \in ProcType /\ proc[p].at = "decide"
    BY Given DEF SaveApproval, At
  <2>2. \/ x = [proc[p] EXCEPT !.at = "approved", !.yes = FALSE, !.saw = Idle.saw]
        \/ x.at \in {"idle", "load"} /\ x.saw = [b \in Bases |-> None]
    BY DEF Onward, Idle
  <2>3. CASE x.at \in {"idle", "load"} /\ x.saw = [b \in Bases |-> None]
    BY <2>3 DEF Knows, Running, Recording
  <2>4. CASE x = [proc[p] EXCEPT !.at = "approved", !.yes = FALSE, !.saw = Idle.saw]
    BY <2>4, <2>1, <1>1 DEF Knows, Running, Recording, ProcType, SaveApproval, Idle
  <2> QED BY <2>2, <2>3, <2>4
<1>5. \A q \in Procs \ {p} : Knows(proc[q])'
  <2> SUFFICES ASSUME NEW q \in Procs \ {p} PROVE Knows(proc[q])'
    OBVIOUS
  <2>1. proc'[q] = proc[q] /\ Knows(proc[q])
    BY Given DEF SaveApproval, Goto, AurInv, TypeOK
  <2> QED BY <2>1, <1>1 DEF Knows, SaveApproval
<1>6. proc' \in [Procs -> ProcType] /\ \A q \in Procs : Fits(q, proc[q])'
  BY <1>3, <1>4, <1>5, Moves DEF AurInv, SaveApproval
<1>7. Sound'
  BY <1>1, <1>2 DEF AurInv, Sound, OnlyApprovedIsBuilt, ReplayIsFaithful, SaveApproval
<1> QED BY <1>1, <1>6, <1>7 DEF AurInv, TypeOK, SaveApproval
-----------------------------------------------------------------------------
(* Builds.                                                                 *)

\* The sources of a run are nothing that the invariant goes by.
LEMMA SourcesAreLoose ==
  ASSUME AurInv, NEW r \in Runs, NEW content \in Contents,
         Change(r, [run[r] EXCEPT !.sources = content]),
         UNCHANGED <<lock, approved>>
  PROVE  /\ run' \in [Runs -> RunType] /\ Sound'
         /\ \A s \in Runs : /\ run'[s].state = run[s].state /\ run'[s].commit = run[s].commit
                            /\ run'[s].told = run[s].told
         /\ \A x : Ready(x) /\ Knows(x) => Knows(x)'
<1>0. /\ run' \in [Runs -> RunType]
      /\ \A s \in Runs : /\ run'[s].state = run[s].state /\ run'[s].base = run[s].base
                         /\ run'[s].commit = run[s].commit /\ run'[s].of = run[s].of
                         /\ run'[s].told = run[s].told
  BY DEF AurInv, TypeOK, Change, RunType
<1>1. Sound'
  BY <1>0 DEF AurInv, Sound, OnlyApprovedIsBuilt, ReplayIsFaithful
<1>2. ASSUME NEW x, Ready(x), Knows(x) PROVE Knows(x)'
  <2>1. x.at \in Running \cup Recording => x.run \in Runs
    BY <1>2 DEF Ready
  <2>2. x.at \in {"review", "decide", "approved", "replay", "copy"} /\ x.of # None => x.of \in Runs
    BY <1>2 DEF Ready, Working
  <2> QED BY <2>1, <2>2, <1>0, <1>2 DEF Knows, Running, Recording
<1> QED BY <1>0, <1>1, <1>2

\* The run a rebuild replays has its receipt.
LEMMA CheckRetainedStep == ASSUME AurInv, NEW p \in Procs, CheckRetained(p) PROVE AurInv'
<1> DEFINE x == [proc[p] EXCEPT !.at = "copy"]
<1>1. x \in ProcType
  BY Given DEF ProcType
<1>2. Ready(x)
  BY Given DEF Ready, CheckRetained, At, ProcType, Working, Running, Recording
<1>3. Alone(p, x) /\ Own(p, x)
  BY Given DEF CheckRetained, At, Alone, Own, Holding, ProcType, Running, Recording
<1>4. Knows(x)
  BY Given DEF Knows, CheckRetained, At, ProcType, Running, Recording
<1> HIDE DEF x
<1> QED BY <1>1, <1>2, <1>3, <1>4, Quietly DEF Fits, CheckRetained, x, AurInv, TypeOK

\* A new run is the opener's alone, for what was approved.
LEMMA OpenRunStep ==
  ASSUME AurInv, NEW p \in Procs, NEW r \in Runs, OpenRun(p, r)
  PROVE  AurInv'
<1> PICK x : x = [proc[p] EXCEPT !.at = IF proc[p].cmd = "rebuild" THEN "replay" ELSE "fetch",
                                 !.run = r, !.warned = FALSE, !.target = None]
  OBVIOUS
<1>0. /\ proc[p] \in ProcType /\ proc[p].at = "approved" /\ Ready(proc[p]) /\ Knows(proc[p])
      /\ run \in [Runs -> RunType] /\ run[r].state = "free"
  BY Given DEF OpenRun, At, AurInv, TypeOK
<1>1. /\ proc[p].base \in Bases /\ proc[p].target \in Commits
      /\ proc[p].of \in Runs \cup {None}
      /\ proc[p].of # None => run[proc[p].of].state = "done"
      /\ <<proc[p].base, proc[p].target>> \in approved
  BY <1>0 DEF Ready, Working, ProcType, Knows
<1>2. run' = [run EXCEPT ![r] = [run[r] EXCEPT !.state = "open", !.base = proc[p].base,
                                               !.commit = proc[p].target, !.of = proc[p].of]]
  BY DEF OpenRun, Change
<1>3. /\ run' \in [Runs -> RunType]
      /\ run'[r].state = "open" /\ run'[r].base = proc[p].base
      /\ run'[r].commit = proc[p].target /\ run'[r].of = proc[p].of
      /\ \A s \in Runs \ {r} : run'[s] = run[s]
  BY <1>0, <1>1, <1>2 DEF RunType
<1>4. x \in ProcType /\ x.run = r /\ x.of = proc[p].of /\ x.saw = proc[p].saw
      /\ x.base = proc[p].base /\ x.cmd = proc[p].cmd
      /\ x.at = IF proc[p].cmd = "rebuild" THEN "replay" ELSE "fetch"
  BY <1>0 DEF ProcType
<1>5. Ready(x)
  BY <1>0, <1>1, <1>4 DEF Ready, Working, Running, Recording
<1>6. Alone(p, x)
  BY <1>0, <1>4, Given DEF Alone
<1>7. Own(p, x)
  <2> SUFFICES ASSUME NEW q \in Procs \ {p}, Holding(proc[q]) PROVE r # proc[q].run
    BY <1>4 DEF Own
  <2>1. Knows(proc[q])
    BY Given
  <2> QED BY <2>1, <1>0 DEF Knows, Holding
<1>8. Knows(x)'
  BY <1>0, <1>1, <1>3, <1>4 DEF Knows, OpenRun, Running, Recording
<1>9. ASSUME NEW q \in Procs \ {p} PROVE Knows(proc[q])'
  <2>1. Knows(proc[q]) /\ Ready(proc[q]) /\ proc'[q] = proc[q]
    BY Given DEF OpenRun, Goto, AurInv, TypeOK
  <2>2. proc[q].at \in Running \cup Recording => proc[q].run \in Runs \ {r}
    BY <2>1, <1>0 DEF Ready, Knows
  <2>3. proc[q].at \in {"review", "decide", "approved", "replay", "copy"} /\ proc[q].of # None
          => proc[q].of \in Runs \ {r}
    BY <2>1, <1>0 DEF Ready, Knows, Working
  <2> QED BY <2>1, <2>2, <2>3, <1>3 DEF Knows, OpenRun, Running, Recording
<1>10. proc' \in [Procs -> ProcType] /\ \A q \in Procs : Fits(q, proc[q])'
  BY <1>4, <1>5, <1>6, <1>7, <1>8, <1>9, Moves DEF AurInv, OpenRun
<1>11. Sound'
  BY <1>0, <1>1, <1>3, NoneIsNothing DEF AurInv, Sound, OnlyApprovedIsBuilt, ReplayIsFaithful, OpenRun
<1>12. \A s \in Runs : /\ run'[s].state \in {"open", "done"} => run'[s].commit \in Commits
                       /\ run'[s].state = "done" => run'[s].told \in Contents
  BY <1>1, <1>3 DEF AurInv, TypeOK
<1> QED BY <1>3, <1>10, <1>11, <1>12 DEF AurInv, TypeOK, OpenRun

\* Fetched or copied sources are the run's, and its inputs.
LEMMA FetchedStep ==
  ASSUME AurInv, NEW p \in Procs, NEW content \in Contents, Fetched(p, content),
         proc[p].at \in {"fetch", "copy"},
         \A s \in Runs : run[proc[p].run].of = s /\ run[s].state = "done" => content = run[s].told
  PROVE  AurInv'
<1> PICK x : x = [proc[p] EXCEPT !.at = "built", !.inputs = content, !.of = None]
  OBVIOUS
<1>0. proc[p] \in ProcType /\ Ready(proc[p]) /\ Knows(proc[p]) /\ proc[p].run \in Runs
  BY Given DEF Ready, Running
<1>1. /\ run' \in [Runs -> RunType] /\ Sound'
      /\ \A s \in Runs : /\ run'[s].state = run[s].state /\ run'[s].commit = run[s].commit
                         /\ run'[s].told = run[s].told
      /\ \A y : Ready(y) /\ Knows(y) => Knows(y)'
  BY <1>0, Given, SourcesAreLoose DEF Fetched, MyRun
<1>2. x \in ProcType /\ x.at = "built" /\ x.inputs = content /\ x.of = None /\ x.run = proc[p].run
      /\ x.base = proc[p].base /\ x.cmd = proc[p].cmd /\ x.saw = proc[p].saw
  BY <1>0 DEF ProcType
<1>3. Ready(x)
  BY <1>0, <1>2 DEF Ready, Working, Running, Recording
<1>4. Alone(p, x) /\ Own(p, x)
  BY <1>2, Given DEF Alone, Own, Holding, Running, Recording
<1>5. Knows(x)'
  <2>1. run'[x.run].of = run[x.run].of
    BY <1>0, <1>2 DEF Fetched, Change, MyRun, AurInv, TypeOK, RunType
  <2> QED BY <2>1, <1>0, <1>1, <1>2 DEF Knows, Running, Recording, Fetched
<1>6. ASSUME NEW q \in Procs \ {p} PROVE Knows(proc[q])'
  <2> PICK y : y = proc[q]
    OBVIOUS
  <2>1. Knows(y)'
    BY <1>1, Given
  <2>2. proc'[q] = y
    BY DEF Fetched, Goto, AurInv, TypeOK
  <2> QED BY <2>1, <2>2 DEF Knows
<1>7. proc' \in [Procs -> ProcType] /\ \A q \in Procs : Fits(q, proc[q])'
  BY <1>2, <1>3, <1>4, <1>5, <1>6, Moves DEF AurInv, Fetched
<1> QED BY <1>1, <1>7 DEF AurInv, TypeOK, Fetched

\* A fetch takes what the sources are now, for a run that replays nothing.
LEMMA FetchStep == ASSUME AurInv, NEW p \in Procs, Fetch(p) PROVE AurInv'
<1>1. PICK content \in Contents : Fetched(p, content)
  BY DEF Fetch
<1>2. /\ proc[p].at = "fetch" /\ proc[p].run \in Runs /\ run[proc[p].run].of = None
  BY Given DEF Fetch, At, Ready, Knows, Running
<1> QED BY <1>1, <1>2, FetchedStep, NoneIsNothing

\* A copy takes the sources of the receipt, or fails.
LEMMA CopyRetainedStep == ASSUME AurInv, NEW p \in Procs, CopyRetained(p) PROVE AurInv'
<1>1. /\ proc[p].at = "copy" /\ proc[p].run \in Runs /\ proc[p].of \in Runs
      /\ run[proc[p].run].of = proc[p].of /\ run[proc[p].of].state = "done"
  BY Given, NoneIsNothing DEF CopyRetained, At, Ready, Knows, Running
<1>2. run[proc[p].of].told \in Contents
  BY <1>1 DEF AurInv, TypeOK
<1> QED BY <1>1, <1>2, FetchedStep DEF CopyRetained

\* Sources that change under a run spoil no receipt: copies are compared
\* again.
LEMMA ChangeSourcesStep == ASSUME AurInv, NEW r \in Runs, ChangeSources(r) PROVE AurInv'
<1>1. PICK content \in Contents : Change(r, [run[r] EXCEPT !.sources = content])
  BY DEF ChangeSources
<1>2. /\ run' \in [Runs -> RunType] /\ Sound'
      /\ \A s \in Runs : /\ run'[s].state = run[s].state /\ run'[s].commit = run[s].commit
                         /\ run'[s].told = run[s].told
      /\ \A y : Ready(y) /\ Knows(y) => Knows(y)'
  BY <1>1, SourcesAreLoose DEF ChangeSources
<1>3. ASSUME NEW p \in Procs PROVE Fits(p, proc[p])'
  <2> PICK y : y = proc[p]
    OBVIOUS
  <2>1. Knows(y)'
    BY <1>2, Given
  <2>2. Knows(proc[p])'
    BY <2>1 DEF Knows, ChangeSources
  <2> QED BY <2>2, Given DEF Fits, Ready, Alone, Own, Holding, Pruning, ChangeSources
<1> QED BY <1>2, <1>3 DEF AurInv, TypeOK, ChangeSources

\* The receipt tells what was built, and closes the run.
LEMMA WriteReceiptStep == ASSUME AurInv, NEW p \in Procs, WriteReceipt(p) PROVE AurInv'
<1> PICK x : x = IF proc[p].cmd = "install" THEN [proc[p] EXCEPT !.at = "record", !.inputs = None]
                 ELSE Idle
  OBVIOUS
<1> PICK r : r = proc[p].run
  OBVIOUS
<1>0. /\ proc[p] \in ProcType /\ proc[p].at = "built" /\ Ready(proc[p]) /\ Knows(proc[p])
      /\ run \in [Runs -> RunType]
  BY Given DEF WriteReceipt, At, AurInv, TypeOK
<1>1. r \in Runs /\ proc[p].inputs \in Contents /\ run[r].state = "open"
  BY <1>0 DEF Ready, Running, Knows
<1>2. /\ run' \in [Runs -> RunType]
      /\ run'[r].state = "done" /\ run'[r].told = proc[p].inputs
      /\ run'[r].base = run[r].base /\ run'[r].commit = run[r].commit /\ run'[r].of = run[r].of
      /\ \A s \in Runs \ {r} : run'[s] = run[s]
  BY <1>0, <1>1 DEF RunType, WriteReceipt, Change, MyRun
<1>3. x \in ProcType
  BY <1>0, IdleIsFit DEF ProcType
<1>4. ASSUME proc[p].cmd = "install"
      PROVE  Ready(x) /\ Alone(p, x) /\ Own(p, x) /\ Knows(x)'
  <2>1. /\ x.at = "record" /\ x.run = r /\ x.saw = proc[p].saw
        /\ x.base = proc[p].base /\ x.cmd = proc[p].cmd
    BY <1>0, <1>4 DEF ProcType
  <2>2. Ready(x)
    BY <1>0, <1>4, <2>1 DEF Ready, Working, Running, Recording
  <2>3. Alone(p, x) /\ Own(p, x)
    BY <1>0, <2>1, Given DEF Alone, Own, Holding, Running, Recording
  <2>4. Knows(x)'
    BY <1>0, <1>2, <2>1 DEF Knows, WriteReceipt, Running, Recording
  <2> QED BY <2>2, <2>3, <2>4
<1>5. ASSUME proc[p].cmd # "install"
      PROVE  Ready(x) /\ Alone(p, x) /\ Own(p, x) /\ Knows(x)'
  <2>1. x.at = "idle" /\ x.saw = [b \in Bases |-> None]
    BY <1>5 DEF Idle
  <2>2. Knows(x)'
    BY <2>1 DEF Knows, Running, Recording
  <2> QED BY <1>5, <2>2, IdleIsFit DEF Fits
<1>6. Ready(x) /\ Alone(p, x) /\ Own(p, x) /\ Knows(x)'
  BY <1>4, <1>5
<1>7. ASSUME NEW q \in Procs \ {p} PROVE Knows(proc[q])'
  <2>1. /\ Knows(proc[q]) /\ Ready(proc[q]) /\ proc'[q] = proc[q]
        /\ Holding(proc[q]) => proc[q].run # r
    <3>1. Holding(proc[p])
      BY <1>0 DEF Holding, Running
    <3> QED BY <3>1, Given DEF WriteReceipt, Goto, Stopped, AurInv, TypeOK, Own
  <2>2. proc[q].at \in Running \cup Recording => proc[q].run \in Runs \ {r}
    BY <2>1 DEF Ready, Holding
  <2>3. proc[q].at \in {"review", "decide", "approved", "replay", "copy"} /\ proc[q].of # None
          => proc[q].of \in Runs \ {r}
    BY <2>1, <1>1 DEF Ready, Knows, Working
  <2>4. proc[q].at \in Running => run[proc[q].run].of # r
    BY <2>1, <2>2, <1>1 DEF AurInv, Sound, Knows
  <2> QED BY <2>1, <2>2, <2>3, <2>4, <1>2 DEF Knows, WriteReceipt, Running, Recording
<1>8. proc' \in [Procs -> ProcType] /\ \A q \in Procs : Fits(q, proc[q])'
  BY <1>3, <1>6, <1>7, Moves DEF AurInv, WriteReceipt, Stopped
<1>9. Sound'
  <2>1. \A s \in Runs : run[s].state \in {"open", "done"} => run[s].of # r
    BY <1>1 DEF AurInv, Sound
  <2>2. \A s \in Runs : run[r].of = s /\ run[s].state = "done" => proc[p].inputs = run[s].told
    BY <1>0 DEF Knows
  <2> QED BY <2>1, <2>2, <1>1, <1>2
      DEF AurInv, Sound, OnlyApprovedIsBuilt, ReplayIsFaithful, WriteReceipt
<1>10. \A s \in Runs : /\ run'[s].state \in {"open", "done"} => run'[s].commit \in Commits
                       /\ run'[s].state = "done" => run'[s].told \in Contents
  BY <1>1, <1>2 DEF AurInv, TypeOK
<1> QED BY <1>2, <1>8, <1>9, <1>10 DEF AurInv, TypeOK, WriteReceipt
-----------------------------------------------------------------------------
(* Installing, recovery and prune.                                         *)

\* A rebuild starts from a receipt that is there.
LEMMA StartRebuildStep ==
  ASSUME AurInv, NEW p \in Procs, NEW r \in Runs, StartRebuild(p, r)
  PROVE  AurInv'
<1> DEFINE x == [Idle EXCEPT !.at = "review", !.cmd = "rebuild", !.saw = lock,
                             !.base = run[r].base, !.pinned = run[r].commit, !.of = r]
<1>0. run[r].state = "done" /\ run[r].base \in Bases /\ run[r].commit \in Commits
  BY DEF StartRebuild, Receipted, AurInv, TypeOK, Sound
<1>1. x \in ProcType
  BY <1>0, IdleIsFit, Given DEF ProcType, AllCommands
<1>2. Ready(x)
  BY <1>0 DEF Ready, Idle, Working, Running, Recording
<1>3. Alone(p, x)
  <2>1. x.at # "idle" /\ x.cmd # "prune"
    BY DEF Idle
  <2> HIDE DEF x
  <2> QED BY <2>1, LeaseIsFree DEF StartRebuild
<1>4. Own(p, x)
  BY DEF Own, Holding, Idle, Running, Recording
<1>5. Knows(x)
  BY <1>0 DEF Knows, Idle, Running, Recording, AurInv, Sound
<1> HIDE DEF x
<1> QED BY <1>1, <1>2, <1>3, <1>4, <1>5, Quietly DEF Fits, StartRebuild, x, AurInv, TypeOK

\* The journal entry of a build changes nobody's run.
LEMMA RecordIntentStep == ASSUME AurInv, NEW p \in Procs, RecordIntent(p) PROVE AurInv'
<1> DEFINE x == [proc[p] EXCEPT !.at = "install"]
<1>1. x \in ProcType
  BY Given DEF ProcType
<1>2. Ready(x)
  BY Given DEF Ready, RecordIntent, At, ProcType, Working, Running, Recording
<1>3. Alone(p, x) /\ Own(p, x)
  BY Given DEF RecordIntent, At, Alone, Own, Holding, ProcType, Running, Recording
<1>4. Knows(x)
  BY Given DEF Knows, RecordIntent, At, ProcType, Running, Recording
<1>5. pending' \in [Runs -> {"no", "intended", "completed"}]
  BY DEF RecordIntent, AurInv, TypeOK
<1> HIDE DEF x
<1> QED BY <1>1, <1>2, <1>3, <1>4, <1>5, Quietly DEF Fits, RecordIntent, x, AurInv, TypeOK

\* Completing the entry changes nobody's run.
LEMMA RecordCompletionStep == ASSUME AurInv, NEW p \in Procs, RecordCompletion(p) PROVE AurInv'
<1> DEFINE x == [proc[p] EXCEPT !.at = "release"]
<1>1. x \in ProcType
  BY Given DEF ProcType
<1>2. Ready(x)
  BY Given DEF Ready, RecordCompletion, At, ProcType, Working, Running, Recording
<1>3. Alone(p, x) /\ Own(p, x)
  BY Given DEF RecordCompletion, At, Alone, Own, Holding, ProcType, Running, Recording
<1>4. Knows(x)
  BY Given DEF Knows, RecordCompletion, At, ProcType, Running, Recording
<1>5. pending' \in [Runs -> {"no", "intended", "completed"}]
  BY DEF RecordCompletion, AurInv, TypeOK
<1> HIDE DEF x
<1> QED BY <1>1, <1>2, <1>3, <1>4, <1>5, Quietly DEF Fits, RecordCompletion, x, AurInv, TypeOK

\* Releasing an entry changes nobody's run.
LEMMA ReleaseStep == ASSUME AurInv, NEW p \in Procs, Release(p) PROVE AurInv'
<1>1. proc[p].run \in Runs
  BY Given DEF Release, At, Ready
<1>2. /\ pending' \in [Runs -> {"no", "intended", "completed"}]
      /\ entry' \in [Bases -> Runs \cup {None}]
  BY <1>1 DEF Release, AurInv, TypeOK
<1> QED BY <1>2, IdleIsFit, Quietly DEF Release, Stopped

\* Recover takes up what the journal still lists.
LEMMA StartRecoverStep ==
  ASSUME AurInv, NEW p \in Procs, NEW r \in Runs, StartRecover(p, r)
  PROVE  AurInv'
<1> DEFINE x == [Idle EXCEPT !.at = "release", !.cmd = "recover", !.base = run[r].base, !.run = r]
<1>1. x \in ProcType
  BY IdleIsFit DEF ProcType, AllCommands, RunType, AurInv, TypeOK
<1>2. Ready(x)
  BY DEF Ready, Idle, Working, Running, Recording
<1>3. Alone(p, x) /\ Own(p, x)
  BY DEF Alone, Own, Holding, Idle, Running, Recording
<1>4. Knows(x)
  BY DEF Knows, Idle, Running, Recording
<1> HIDE DEF x
<1> QED BY <1>1, <1>2, <1>3, <1>4, Quietly DEF Fits, StartRecover, x, AurInv, TypeOK

\* A prune starts when no command holds the lease.
LEMMA StartPruneStep == ASSUME AurInv, NEW p \in Procs, StartPrune(p) PROVE AurInv'
<1> DEFINE x == [Idle EXCEPT !.at = "survey", !.cmd = "prune"]
<1>1. x \in ProcType
  BY IdleIsFit DEF ProcType, AllCommands
<1>2. Ready(x)
  BY DEF Ready, Idle, Working, Running, Recording
<1>3. Alone(p, x)
  <2>1. x.at # "idle" /\ x.cmd = "prune"
    BY DEF Idle
  <2> HIDE DEF x
  <2> QED BY <2>1, LeaseIsFree DEF StartPrune
<1>4. Own(p, x) /\ Knows(x)
  BY DEF Own, Holding, Knows, Idle, Running, Recording
<1> HIDE DEF x
<1> QED BY <1>1, <1>2, <1>3, <1>4, Quietly DEF Fits, StartPrune, x, AurInv, TypeOK

\* A survey dooms finished runs, and only looks.
LEMMA SurveyStep == ASSUME AurInv, NEW p \in Procs, Survey(p) PROVE AurInv'
<1> PICK doomed \in SUBSET Runs : Goto(p, [proc[p] EXCEPT !.at = "remove", !.doomed = doomed])
  BY DEF Survey
<1> DEFINE x == [proc[p] EXCEPT !.at = "remove", !.doomed = doomed]
<1>1. x \in ProcType
  BY Given DEF ProcType
<1>2. Ready(x)
  BY Given DEF Ready, Survey, At, ProcType, Working, Running, Recording
<1>3. Alone(p, x) /\ Own(p, x)
  BY Given DEF Survey, At, Alone, Own, Holding, ProcType, Running, Recording
<1>4. Knows(x)
  BY Given DEF Knows, Survey, At, ProcType, Running, Recording
<1> HIDE DEF x
<1> QED BY <1>1, <1>2, <1>3, <1>4, Quietly DEF Fits, Survey, x, AurInv, TypeOK

\* A prune removes runs nobody is building in: the lease keeps builds away.
LEMMA RemoveRunStep ==
  ASSUME AurInv, NEW p \in Procs, NEW r \in Runs, RemoveRun(p, r)
  PROVE  AurInv'
<1> PICK x : x = [proc[p] EXCEPT !.doomed = @ \ {r}]
  OBVIOUS
<1>0. /\ proc[p] \in ProcType /\ proc[p].at = "remove" /\ Ready(proc[p]) /\ Knows(proc[p])
      /\ run \in [Runs -> RunType]
  BY Given DEF RemoveRun, At, AurInv, TypeOK
<1>1. /\ run' \in [Runs -> RunType] /\ run'[r] = [FreeRun EXCEPT !.state = "gone"]
      /\ \A s \in Runs \ {r} : run'[s] = run[s]
  BY <1>0 DEF RunType, RemoveRun, Change, FreeRun
<1>2. run'[r].state = "gone" /\ run'[r].commit = None
  BY <1>1 DEF FreeRun
<1>3. /\ x \in ProcType /\ x.at = "remove" /\ x.cmd = proc[p].cmd /\ x.saw = proc[p].saw
  BY <1>0 DEF ProcType
<1>4. Ready(x) /\ Alone(p, x) /\ Own(p, x)
  BY <1>0, <1>3, Given DEF Ready, Alone, Own, Holding, Working, Running, Recording
<1>5. Knows(x)'
  BY <1>0, <1>3 DEF Knows, RemoveRun, Running, Recording
<1>6. ASSUME NEW q \in Procs \ {p} PROVE Knows(proc[q])'
  <2>1. Knows(proc[q]) /\ Ready(proc[q]) /\ proc'[q] = proc[q]
    BY Given DEF RemoveRun, Goto, AurInv, TypeOK
  <2>2. proc[q].at \notin Working
    <3>1. proc[q].at # "idle" => proc[q].cmd = "recover"
      BY <1>0, Given DEF Alone, Ready
    <3> QED BY <2>1, <3>1 DEF Ready, Working, Running, Recording
  <2> QED BY <2>1, <2>2 DEF Knows, RemoveRun, Working, Running, Recording
<1>7. proc' \in [Procs -> ProcType] /\ \A q \in Procs : Fits(q, proc[q])'
  BY <1>3, <1>4, <1>5, <1>6, Moves DEF AurInv, RemoveRun
<1>8. Sound'
  <2>1. \A s \in Runs : run'[s].state # "gone" => run'[s] = run[s]
    BY <1>1, <1>2
  <2>2. \A s \in Runs : run'[s].commit # None => run'[s] = run[s]
    BY <1>1, <1>2
  <2>3. \A s, t \in Runs : run'[s].state \in {"open", "done"} /\ run'[s].of = t
                             => run'[t].state \in {"done", "gone"}
    BY <2>1, <1>2 DEF AurInv, Sound
  <2> QED BY <2>1, <2>2, <2>3 DEF AurInv, Sound, OnlyApprovedIsBuilt, ReplayIsFaithful, RemoveRun
<1>9. \A s \in Runs : /\ run'[s].state \in {"open", "done"} => run'[s].commit \in Commits
                      /\ run'[s].state = "done" => run'[s].told \in Contents
  BY <1>1, <1>2 DEF AurInv, TypeOK
<1> QED BY <1>1, <1>7, <1>8, <1>9 DEF AurInv, TypeOK, RemoveRun
-----------------------------------------------------------------------------
(* The whole system.                                                       *)

\* The world touches neither commands nor, but for their sources, runs.
LEMMA WorldStep == ASSUME AurInv, World PROVE AurInv'
<1>1. ASSUME NEW b \in Bases, Push(b) \/ Block(b) \/ Remove(b) PROVE AurInv'
  <2>1. head' \in [Bases -> Commits] /\ blocked' \subseteq Bases \X Commits
        /\ entry' \in [Bases -> Runs \cup {None}]
        /\ UNCHANGED <<lock, approved, run, pending, proc>>
    BY <1>1, AurBuildAssumption DEF Push, Block, Remove, AurInv, TypeOK, Commits
  <2>2. \A p \in Procs : Fits(p, proc[p])'
    BY <2>1 DEF AurInv, Fits, Ready, Alone, Own, Holding, Pruning, Knows
  <2>3. Sound'
    BY <2>1 DEF AurInv, Sound, OnlyApprovedIsBuilt, ReplayIsFaithful
  <2> QED BY <2>1, <2>2, <2>3 DEF AurInv, TypeOK
<1>2. ASSUME NEW r \in Runs, Discard(r) PROVE AurInv'
  <2>1. \A p \in Procs : Fits(p, proc[p])'
    BY <1>2 DEF AurInv, Fits, Ready, Alone, Own, Holding, Pruning, Knows, Discard
  <2>2. Sound'
    BY <1>2 DEF AurInv, Sound, OnlyApprovedIsBuilt, ReplayIsFaithful, Discard
  <2> QED BY <1>2, <2>1, <2>2 DEF AurInv, TypeOK, Discard
<1> QED BY <1>1, <1>2, ChangeSourcesStep DEF World

\* AurInv is inductive.
LEMMA InvariantStep == AurInv /\ [Next]_vars => AurInv'
<1> SUFFICES ASSUME AurInv, [Next]_vars PROVE AurInv'
  OBVIOUS
<1>1. CASE UNCHANGED vars
  <2>1. \A p \in Procs : Fits(p, proc[p])'
    BY <1>1 DEF vars, AurInv, Fits, Ready, Alone, Own, Holding, Pruning, Knows
  <2>2. Sound'
    BY <1>1 DEF vars, AurInv, Sound, OnlyApprovedIsBuilt, ReplayIsFaithful
  <2> QED BY <1>1, <2>1, <2>2 DEF vars, AurInv, TypeOK
<1>2. CASE World
  BY <1>2, WorldStep
<1>3. ASSUME NEW p \in Procs, Step(p) PROVE AurInv'
  BY <1>3, StartStep, LoadLockStep, ReviewStep, SaveApprovalStep, UseApprovalStep, CheckRetainedStep,
     FetchStep, CopyRetainedStep, WriteReceiptStep, RecordIntentStep, RecordCompletionStep,
     ReleaseStep, StartPruneStep, SurveyStep, StopStep, OpenRunStep, StartRebuildStep,
     StartRecoverStep, RemoveRunStep DEF Step
<1> QED BY <1>1, <1>2, <1>3 DEF Next

\* AurInv holds at first.
LEMMA InvariantInit == Init => AurInv
<1> SUFFICES ASSUME Init PROVE AurInv
  OBVIOUS
<1>1. \A p \in Procs : Fits(p, proc[p])
  BY IdleIsFit DEF Init
<1>2. Sound
  BY DEF Init, FreeRun, Sound, OnlyApprovedIsBuilt, ReplayIsFaithful
<1>3. TypeOK
  BY IdleIsFit, AurBuildAssumption DEF Init, TypeOK, Lockfiles, FreeRun, RunType, Commits
<1> QED BY <1>1, <1>2, <1>3 DEF AurInv

\* AurInv holds throughout.
LEMMA InvariantHolds == Spec => []AurInv
BY InvariantInit, InvariantStep, PTL DEF Spec
-----------------------------------------------------------------------------
(* What the ledger refers to.  Here nobody recovers or discards a           *)
(* transaction that another process is releasing.                          *)

\* A transaction is journaled of a run from its intent to its release.
Recorded(x) ==
  /\ x.at = "record" => pending[x.run] = "no"
  /\ x.at = "install" => pending[x.run] # "completed"
  /\ x.at = "release" => pending[x.run] = "completed"

\* Only one process releases it.
Sole(p, x) ==
  \A q \in Procs \ {p} : x.at = "release" /\ At(q, "release") => proc[q].run # x.run

\* prune dooms nothing that the ledger refers to.
Spares(x) == x.at = "remove" => x.doomed \cap Referred = {}

ReferInv ==
  /\ ReferredRunsExist
  /\ \A p \in Procs : Recorded(proc[p]) /\ Sole(p, proc[p]) /\ Spares(proc[p])

\* A step of p that the ledger has no part in, and that costs no receipt.
LEMMA Refers ==
  ASSUME AurInv, ReferInv, NEW p \in Procs, \A q \in Procs \ {p} : proc'[q] = proc[q],
         Recorded(proc[p])', Sole(p, proc[p])', Spares(proc[p])', UNCHANGED <<entry, pending>>,
         \A r \in Referred : run'[r].state = "done"
  PROVE  ReferInv'
<1>0. Referred' = Referred
  BY DEF Referred
<1>1. \A q \in Procs : Recorded(proc[q])' /\ Spares(proc[q])'
  BY <1>0 DEF ReferInv, Recorded, Spares
<1>2. ASSUME NEW q \in Procs PROVE Sole(q, proc[q])'
  BY DEF ReferInv, Sole, At
<1> QED BY <1>0, <1>1, <1>2 DEF ReferInv, ReferredRunsExist

\* So is every step before a receipt is written, and every end of a command.
LEMMA RefersAside ==
  ASSUME AurInv, ReferInv, NEW p \in Procs, \A q \in Procs \ {p} : proc'[q] = proc[q],
         proc'[p].at \notin {"record", "install", "release", "remove"}, UNCHANGED <<entry, pending>>,
         \A r \in Runs : run[r].state = "done" => run'[r].state = "done"
  PROVE  ReferInv'
<1>1. Recorded(proc[p])' /\ Sole(p, proc[p])' /\ Spares(proc[p])'
  BY DEF Recorded, Sole, Spares
<1>2. \A r \in Referred : run'[r].state = "done"
  BY DEF ReferInv, ReferredRunsExist, Referred
<1> QED BY <1>1, <1>2, Refers

\* What is known of the fields of a process.
LEMMA ProcIsTyped == AurInv => proc \in [Procs -> ProcType]
BY DEF AurInv, TypeOK

\* Nothing is referred to before a run is finished.
LEMMA ReviewingRefers ==
  ASSUME AurInv, ReferInv, NEW p \in Procs,
         \/ \E c \in Commands, b \in Bases, yes \in BOOLEAN : Start(p, c, b, yes)
         \/ LoadLock(p) \/ Review(p) \/ SaveApproval(p) \/ UseApproval(p) \/ Stop(p)
         \/ CheckRetained(p) \/ StartPrune(p) \/ \E r \in Runs : StartRebuild(p, r)
  PROVE  ReferInv'
<1>0. proc[p] \in ProcType
  BY Given
<1>1. Onward(p).at \in {"idle", "load", "approved"}
  BY <1>0 DEF Onward, ProcType, Idle
<1>2. /\ \A q \in Procs \ {p} : proc'[q] = proc[q]
      /\ proc'[p].at \notin {"record", "install", "release", "remove"}
  <2>1. CASE LoadLock(p) \/ Review(p) \/ CheckRetained(p)
    <3>1. CASE LoadLock(p)
      BY <3>1, <1>0, ProcIsTyped DEF Goto, LoadLock, ProcType
    <3>2. CASE Review(p)
      BY <3>2, <1>0, ProcIsTyped DEF Goto, Review, ProcType
    <3>3. CASE CheckRetained(p)
      BY <3>3, <1>0, ProcIsTyped DEF Goto, CheckRetained, ProcType
    <3> QED BY <2>1, <3>1, <3>2, <3>3
  <2>2. CASE SaveApproval(p) \/ UseApproval(p)
    BY <2>2, <1>1, ProcIsTyped DEF Goto, SaveApproval, UseApproval
  <2>3. CASE Stop(p) \/ StartPrune(p) \/ (\E r \in Runs : StartRebuild(p, r))
             \/ \E c \in Commands, b \in Bases, yes \in BOOLEAN : Start(p, c, b, yes)
    <3>0. CASE Stop(p)
      BY <3>0, ProcIsTyped DEF Goto, Stop, Stopped, Idle
    <3>1. CASE StartPrune(p)
      BY <3>1, ProcIsTyped DEF Goto, StartPrune, Idle
    <3>2. ASSUME NEW r \in Runs, StartRebuild(p, r)
          PROVE  /\ \A q \in Procs \ {p} : proc'[q] = proc[q]
                 /\ proc'[p].at = "review"
      BY <3>2, ProcIsTyped DEF Goto, StartRebuild, Idle
    <3>3. ASSUME NEW c \in Commands, NEW b \in Bases, NEW yes \in BOOLEAN, Start(p, c, b, yes)
          PROVE  /\ \A q \in Procs \ {p} : proc'[q] = proc[q]
                 /\ proc'[p].at = "review"
      BY <3>3, ProcIsTyped DEF Goto, Start, Idle
    <3> QED BY <2>3, <3>0, <3>1, <3>2, <3>3
  <2> QED BY <2>1, <2>2, <2>3
<1>3. UNCHANGED <<run, entry, pending>>
  BY DEF Start, LoadLock, Review, SaveApproval, UseApproval, Stop, CheckRetained, StartPrune,
     StartRebuild
<1> QED BY <1>2, <1>3, RefersAside

\* Opening and filling a run takes no finished run away.
LEMMA BuildingRefers ==
  ASSUME AurInv, ReferInv, NEW p \in Procs,
         Fetch(p) \/ CopyRetained(p) \/ \E r \in Runs : OpenRun(p, r)
  PROVE  ReferInv'
<1>0. proc[p] \in ProcType /\ run \in [Runs -> RunType]
  BY Given DEF AurInv, TypeOK
<1>1. ASSUME NEW r \in Runs, OpenRun(p, r) PROVE ReferInv'
  <2>1. /\ \A q \in Procs \ {p} : proc'[q] = proc[q]
        /\ proc'[p].at \in {"replay", "fetch"}
    BY <1>0, <1>1, ProcIsTyped DEF Goto, OpenRun, ProcType
  <2>2. \A s \in Runs : run[s].state = "done" => run'[s].state = "done"
    BY <1>0, <1>1 DEF OpenRun, Change
  <2>3. UNCHANGED <<entry, pending>>
    BY <1>1 DEF OpenRun
  <2> QED BY <2>1, <2>2, <2>3, RefersAside
<1>2. ASSUME NEW content, Fetched(p, content) PROVE ReferInv'
  <2>1. /\ \A q \in Procs \ {p} : proc'[q] = proc[q]
        /\ proc'[p].at = "built"
    BY <1>0, <1>2, ProcIsTyped DEF Goto, Fetched, ProcType
  <2>2. \A s \in Runs : run[s].state = "done" => run'[s].state = "done"
    BY <1>0, <1>2 DEF Fetched, Change, MyRun, RunType
  <2>3. UNCHANGED <<entry, pending>>
    BY <1>2 DEF Fetched
  <2> QED BY <2>1, <2>2, <2>3, RefersAside
<1> QED BY <1>1, <1>2 DEF Fetch, CopyRetained

\* A receipt adds a finished run, and takes none away.
LEMMA WriteReceiptRefers ==
  ASSUME AurInv, ReferInv, NEW p \in Procs, WriteReceipt(p)
  PROVE  ReferInv'
<1>0. /\ proc[p] \in ProcType /\ run \in [Runs -> RunType]
      /\ proc[p].run \in Runs /\ run[proc[p].run].state = "open"
  BY Given DEF AurInv, TypeOK, WriteReceipt, At, Ready, Knows, Running
<1>1. \A s \in Runs : run[s].state = "done" => run'[s].state = "done"
  BY <1>0 DEF WriteReceipt, Change, MyRun, RunType
<1>2. UNCHANGED <<entry, pending>>
  BY DEF WriteReceipt
<1>3. CASE proc[p].cmd = "install"
  <2>1. /\ \A q \in Procs \ {p} : proc'[q] = proc[q]
        /\ proc'[p].at = "record" /\ proc'[p].run = proc[p].run
    <3>1. Goto(p, [proc[p] EXCEPT !.at = "record", !.inputs = None])
      BY <1>3 DEF WriteReceipt
    <3> QED BY <1>0, <3>1, ProcIsTyped DEF Goto, ProcType
  <2>2. pending[proc[p].run] = "no"
    BY <1>0 DEF ReferInv, ReferredRunsExist, Referred
  <2>3. Recorded(proc[p])' /\ Sole(p, proc[p])' /\ Spares(proc[p])'
    BY <1>2, <2>1, <2>2 DEF Recorded, Sole, Spares
  <2>4. \A r \in Referred : run'[r].state = "done"
    BY <1>1 DEF ReferInv, ReferredRunsExist, Referred
  <2> QED BY <1>2, <2>1, <2>3, <2>4, Refers
<1>4. CASE proc[p].cmd # "install"
  <2>1. /\ \A q \in Procs \ {p} : proc'[q] = proc[q]
        /\ proc'[p].at = "idle"
    BY <1>4, ProcIsTyped DEF Goto, WriteReceipt, Stopped, Idle
  <2> QED BY <1>1, <1>2, <2>1, RefersAside
<1> QED BY <1>3, <1>4

\* Nobody prunes while p has a lease.
LEMMA NobodyRemoves ==
  ASSUME AurInv, NEW p \in Procs, proc[p].at \in Working, NEW q \in Procs \ {p}
  PROVE  ~At(q, "remove")
<1>1. Ready(proc[p]) /\ Alone(p, proc[p]) /\ Ready(proc[q])
  BY Given
<1>2. proc[p].cmd # "recover" /\ proc[p].at # "idle"
  BY <1>1 DEF Ready, Working, Running, Recording
<1> QED BY <1>1, <1>2 DEF Ready, Alone, At, Pruning

\* The journal comes to refer to a finished run of the one that installs it.
LEMMA JournalRefers ==
  ASSUME AurInv, ReferInv, NEW p \in Procs, RecordIntent(p) \/ RecordCompletion(p)
  PROVE  ReferInv'
<1> PICK r : r = proc[p].run
  OBVIOUS
<1>0. /\ proc[p] \in ProcType /\ Ready(proc[p]) /\ Knows(proc[p]) /\ Own(p, proc[p])
      /\ proc[p].at \in Recording /\ pending \in [Runs -> {"no", "intended", "completed"}]
  BY Given DEF RecordIntent, RecordCompletion, At, Recording, AurInv, TypeOK
<1>1. r \in Runs /\ run[r].state = "done" /\ pending[r] # "completed"
  BY <1>0 DEF Ready, Knows, ReferInv, Recorded, Recording
<1>2. /\ \/ proc[p].at = "record" /\ proc'[p].at = "install" /\ pending'[r] = "intended"
         \/ proc[p].at = "install" /\ proc'[p].at = "release" /\ pending'[r] = "completed"
      /\ proc'[p].run = r
      /\ \A q \in Procs \ {p} : proc'[q] = proc[q]
      /\ \A s \in Runs \ {r} : pending'[s] = pending[s]
      /\ UNCHANGED <<run, entry>>
  BY <1>0, <1>1 DEF RecordIntent, RecordCompletion, At, Goto, ProcType, AurInv, TypeOK
<1>3. Referred' = Referred \cup {r}
  BY <1>1, <1>2 DEF Referred
<1>4. ReferredRunsExist'
  BY <1>1, <1>2, <1>3 DEF ReferInv, ReferredRunsExist
<1>5. ASSUME NEW q \in Procs \ {p} PROVE Recorded(proc[q])' /\ Sole(q, proc[q])' /\ Spares(proc[q])'
  <2>1. Recorded(proc[q]) /\ Sole(q, proc[q]) /\ Ready(proc[q]) /\ ~At(q, "remove")
    BY <1>0, Given, NobodyRemoves DEF ReferInv, Working
  <2>2. proc[q].at \in {"record", "install", "release"} => proc[q].run \in Runs \ {r}
    <3>1. CASE proc[q].at \in Recording
      <4>1. Holding(proc[p]) /\ Holding(proc[q])
        BY <1>0, <3>1 DEF Holding
      <4> QED BY <4>1, <2>1, <1>0 DEF Own, Ready, Holding
    <3>2. CASE proc[q].at = "release"
      BY <3>2, <2>1, <1>1 DEF Recorded, Ready
    <3> QED BY <3>1, <3>2 DEF Recording
  <2>3. Recorded(proc[q])' /\ Spares(proc[q])'
    BY <1>2, <2>1, <2>2 DEF Recorded, Spares, At
  <2>4. Sole(q, proc[q])'
    BY <1>2, <2>1, <2>2 DEF Sole, At
  <2> QED BY <2>3, <2>4
<1>6. Recorded(proc[p])' /\ Spares(proc[p])'
  BY <1>2 DEF Recorded, Spares
<1>7. Sole(p, proc[p])'
  BY <1>1, <1>2 DEF Sole, At, ReferInv, Recorded
<1> QED BY <1>4, <1>5, <1>6, <1>7 DEF ReferInv

\* The ledger comes to refer to what the journal referred to.
LEMMA ReleaseRefers ==
  ASSUME AurInv, ReferInv, NEW p \in Procs, Release(p)
  PROVE  ReferInv'
<1> PICK r : r = proc[p].run
  OBVIOUS
<1>0. /\ Ready(proc[p]) /\ proc[p].at = "release"
      /\ Recorded(proc[p]) /\ Sole(p, proc[p])
      /\ pending \in [Runs -> {"no", "intended", "completed"}]
  BY Given DEF Release, At, AurInv, TypeOK, ReferInv
<1>1. r \in Runs /\ pending[r] = "completed" /\ r \in Referred
  BY <1>0 DEF Ready, Recorded, Referred
<1>2. /\ proc'[p] = Idle /\ \A q \in Procs \ {p} : proc'[q] = proc[q]
      /\ pending'[r] = "no" /\ \A s \in Runs \ {r} : pending'[s] = pending[s]
      /\ run' = run
      /\ \A b \in Bases : entry'[b] \in {entry[b], r}
  BY <1>1 DEF Release, Stopped, Goto, AurInv, TypeOK
<1>3. Referred' \subseteq Referred
  BY <1>1, <1>2 DEF Referred
<1>4. ReferredRunsExist'
  BY <1>2, <1>3 DEF ReferInv, ReferredRunsExist
<1>5. ASSUME NEW q \in Procs \ {p} PROVE Recorded(proc[q])' /\ Sole(q, proc[q])' /\ Spares(proc[q])'
  <2>1. Recorded(proc[q]) /\ Sole(q, proc[q]) /\ Spares(proc[q]) /\ Ready(proc[q])
    BY Given DEF ReferInv
  <2>2. proc[q].at = "release" => proc[q].run # r
    BY <1>0 DEF Sole, At
  <2>3. Recorded(proc[q])'
    BY <1>1, <1>2, <2>1, <2>2 DEF Recorded, Ready, Recording
  <2>4. Sole(q, proc[q])' /\ Spares(proc[q])'
    BY <1>2, <1>3, <2>1 DEF Sole, Spares, At, Idle
  <2> QED BY <2>3, <2>4
<1>6. Recorded(proc[p])' /\ Sole(p, proc[p])' /\ Spares(proc[p])'
  BY <1>2 DEF Recorded, Sole, Spares, Idle
<1> QED BY <1>4, <1>5, <1>6 DEF ReferInv

\* Recover is alone with the entry it takes up.
LEMMA StartRecoverRefers ==
  ASSUME RecoverAlone, AurInv, ReferInv, NEW p \in Procs, NEW r \in Runs, StartRecover(p, r)
  PROVE  ReferInv'
<1>1. /\ \A q \in Procs \ {p} : proc'[q] = proc[q]
      /\ proc'[p].at = "release" /\ proc'[p].run = r
  BY ProcIsTyped DEF Goto, StartRecover, Idle
<1>2. Recorded(proc[p])' /\ Spares(proc[p])'
  BY <1>1 DEF Recorded, Spares, StartRecover
<1>3. Sole(p, proc[p])'
  BY <1>1 DEF Sole, StartRecover, BeingReleased, At
<1>4. \A s \in Referred : run'[s].state = "done"
  BY DEF ReferInv, ReferredRunsExist, StartRecover
<1> QED BY <1>1, <1>2, <1>3, <1>4, Refers DEF StartRecover

\* A survey spares what is referred to, and nothing comes to be referred to
\* while the lease is a prune's.
LEMMA PruneRefers ==
  ASSUME AurInv, ReferInv, NEW p \in Procs, Survey(p) \/ \E r \in Runs : RemoveRun(p, r)
  PROVE  ReferInv'
<1>0. proc[p] \in ProcType
  BY Given
<1>1. CASE Survey(p)
  <2>1. PICK doomed \in SUBSET (Runs \ Referred) :
          Goto(p, [proc[p] EXCEPT !.at = "remove", !.doomed = doomed])
    BY <1>1 DEF Survey
  <2>2. /\ \A q \in Procs \ {p} : proc'[q] = proc[q]
        /\ proc'[p].at = "remove" /\ proc'[p].doomed = doomed
    BY <1>0, <2>1, ProcIsTyped DEF Goto, ProcType
  <2>3. Recorded(proc[p])' /\ Sole(p, proc[p])' /\ Spares(proc[p])'
    <3>1. Referred' = Referred
      BY <1>1 DEF Survey, Referred
    <3> QED BY <2>2, <3>1 DEF Recorded, Sole, Spares
  <2>4. UNCHANGED <<entry, pending>> /\ \A r \in Referred : run'[r].state = "done"
    BY <1>1 DEF Survey, ReferInv, ReferredRunsExist
  <2> QED BY <2>2, <2>3, <2>4, Refers
<1>2. ASSUME NEW r \in Runs, RemoveRun(p, r) PROVE ReferInv'
  <2>1. r \notin Referred
    BY <1>2 DEF RemoveRun, At, ReferInv, Spares
  <2>2. /\ \A q \in Procs \ {p} : proc'[q] = proc[q]
        /\ proc'[p].at = "remove" /\ proc'[p].doomed = proc[p].doomed \ {r}
    BY <1>0, <1>2, ProcIsTyped DEF Goto, RemoveRun, At, ProcType
  <2>3. Recorded(proc[p])' /\ Sole(p, proc[p])' /\ Spares(proc[p])'
    BY <1>2, <2>2 DEF Recorded, Sole, Spares, ReferInv, RemoveRun, At, Referred
  <2>4. UNCHANGED <<entry, pending>> /\ \A s \in Referred : run'[s].state = "done"
    BY <1>2, <2>1 DEF RemoveRun, Change, ReferInv, ReferredRunsExist, Referred, AurInv, TypeOK
  <2> QED BY <2>2, <2>3, <2>4, Refers
<1> QED BY <1>1, <1>2

\* What happens outside comes to refer to nothing.
LEMMA WorldRefers ==
  ASSUME RecoverAlone, AurInv, ReferInv, World
  PROVE  ReferInv'
<1>0. UNCHANGED proc
  BY DEF World, Push, Block, Remove, ChangeSources, Discard
<1>1. /\ Referred' \subseteq Referred
      /\ \A r \in Referred : run'[r].state = "done"
      /\ \A r \in Runs : pending'[r] \in {pending[r], "no"}
      /\ \A r \in Runs : BeingReleased(r) => pending'[r] = pending[r]
  <2>1. ASSUME NEW b \in Bases, Push(b) \/ Block(b)
        PROVE  UNCHANGED <<run, entry, pending>>
    BY <2>1 DEF Push, Block
  <2>2. ASSUME NEW b \in Bases, Remove(b)
        PROVE  UNCHANGED <<run, pending>> /\ \A c \in Bases : entry'[c] \in {entry[c], None}
    BY <2>2 DEF Remove, AurInv, TypeOK
  <2>3. ASSUME NEW r \in Runs, ChangeSources(r)
        PROVE  UNCHANGED <<entry, pending>> /\ \A s \in Runs : run'[s].state = run[s].state
    BY <2>3 DEF ChangeSources, Change, AurInv, TypeOK, RunType
  <2>4. ASSUME NEW r \in Runs, Discard(r)
        PROVE  /\ UNCHANGED <<run, entry>> /\ ~BeingReleased(r) /\ pending'[r] = "no"
               /\ \A s \in Runs \ {r} : pending'[s] = pending[s]
    BY <2>4 DEF Discard, AurInv, TypeOK
  <2> QED BY <2>1, <2>2, <2>3, <2>4, NoneIsNothing DEF World, Referred, ReferInv, ReferredRunsExist
<1>2. ASSUME NEW p \in Procs PROVE Recorded(proc[p])' /\ Sole(p, proc[p])' /\ Spares(proc[p])'
  <2>1. proc[p].at \in {"record", "install", "release"} => proc[p].run \in Runs
    BY Given DEF Ready, Recording
  <2>2. proc[p].at = "release" => BeingReleased(proc[p].run)
    BY DEF BeingReleased, At
  <2>3. Recorded(proc[p])'
    BY <1>0, <1>1, <2>1, <2>2 DEF ReferInv, Recorded
  <2>4. Sole(p, proc[p])' /\ Spares(proc[p])'
    BY <1>0, <1>1 DEF ReferInv, Sole, Spares, At
  <2> QED BY <2>3, <2>4
<1> QED BY <1>1, <1>2 DEF ReferInv, ReferredRunsExist

\* ReferInv is inductive beside AurInv.
LEMMA ReferStep ==
  ASSUME RecoverAlone
  PROVE  AurInv /\ ReferInv /\ [Next]_vars => ReferInv'
<1> SUFFICES ASSUME AurInv, ReferInv, [Next]_vars PROVE ReferInv'
  OBVIOUS
<1>1. CASE UNCHANGED vars
  BY <1>1 DEF vars, ReferInv, ReferredRunsExist, Referred, Recorded, Sole, Spares, At
<1>2. CASE World
  BY <1>2, WorldRefers
<1>3. ASSUME NEW p \in Procs, Step(p) PROVE ReferInv'
  BY <1>3, ReviewingRefers, BuildingRefers, WriteReceiptRefers, JournalRefers, ReleaseRefers,
     StartRecoverRefers, PruneRefers DEF Step
<1> QED BY <1>1, <1>2, <1>3 DEF Next
-----------------------------------------------------------------------------
(* Theorems.                                                               *)

\* Every variable keeps its type; a build has a commit, a receipt its sources.
THEOREM Typing == Spec => []TypeOK
BY InvariantHolds, PTL DEF AurInv

\* Only commits that somebody approved are built, however the head of the
\* recipe moves and whoever writes the lockfile in between.
THEOREM ApprovedOnly == Spec => []OnlyApprovedIsBuilt
<1>1. AurInv => OnlyApprovedIsBuilt
  BY DEF AurInv, Sound
<1> QED BY <1>1, InvariantHolds, PTL

\* A rebuild that got its receipt was built from the sources of the receipt it
\* replays, though they may change under it.
THEOREM FaithfulReplay == Spec => []ReplayIsFaithful
<1>1. AurInv => ReplayIsFaithful
  BY DEF AurInv, Sound
<1> QED BY <1>1, InvariantHolds, PTL

\* While nobody recovers or discards what another releases, every run that the
\* ledger refers to is there with its receipt: prune never takes it.
THEOREM ReferredRunsStay ==
  ASSUME RecoverAlone
  PROVE  Spec => []ReferredRunsExist
<1>1. Init => ReferInv
  BY NoneIsNothing DEF Init, ReferInv, ReferredRunsExist, Referred, Recorded, Sole, Spares, Idle, At
<1>2. AurInv /\ ReferInv /\ [Next]_vars => ReferInv'
  BY ReferStep
<1>3. ReferInv => ReferredRunsExist
  BY DEF ReferInv
<1> QED BY <1>1, <1>2, <1>3, InvariantHolds, PTL DEF Spec
=============================================================================
