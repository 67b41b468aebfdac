------------------------------ MODULE Journal -------------------------------
(***************************************************************************)
(* The pacvamp commands that change packages and the ledger they share:    *)
(* journaled transactions, the second record many commands make, repairs   *)
(* of the ledger, and `pacvamp recover`.  Any number of processes run      *)
(* commands at once; a process may die at any step.                        *)
(*                                                                         *)
(* One command of process p goes through these phases, kept in pc[p]:      *)
(*                                                                         *)
(*   idle -> looked            reads the local database and the ledger     *)
(*   looked -> load            decided what to record                      *)
(*   load -> save -> after[p]  one App::record: lock, load, merge, rename  *)
(*   apply                     pacman runs                                 *)
(*   restore                   recover --write walks the entries it chose  *)
(*                                                                         *)
(* A record is read-modify-write under flock, and so two steps.  Readers   *)
(* take no lock: a rename replaces the file at once, so what they read is  *)
(* a whole ledger, possibly an old one when they use it.                   *)
(*                                                                         *)
(* The variable `fact` is a history variable: what really happened, which  *)
(* the properties compare with what the ledger says.                       *)
(***************************************************************************)
EXTENDS Ledger

CONSTANTS
  Procs,     \* pacvamp processes
  Nobody,    \* holder of a free lock
  Elevates,  \* whether a record runs in a `__ledger` child that may outlive p
  Reasons    \* bound: whether commands vary the install reason of packages

ASSUME NobodyIsNoProc == Nobody \notin Procs
ASSUME FlagsAreBooleans == Elevates \in BOOLEAN /\ Reasons \in BOOLEAN

VARIABLES
  host,      \* the local database: installed packages
  ledger,    \* the ledger file
  lock,      \* holder of the flock on state.json.lock
  pc,        \* phase of each process
  seen,      \* the ledger and host a process read
  op,        \* transaction a process runs, zero when none
  body,      \* what that transaction records
  again,     \* whether the command records its patch a second time
  patch,     \* the patch a process is recording
  loaded,    \* the ledger it loaded under the lock
  after,     \* phase after a successful record
  todo,      \* journal entries recover --write still has to restore
  nextId,    \* next journal id
  fact       \* history: journaled, succeeded, certified, discarded, waived

procVars == <<seen, op, body, again, patch, loaded, after, todo>>
vars == <<host, ledger, lock, pc, seen, op, body, again, patch, loaded, after,
          todo, nextId, fact>>

Installed == [ver : Versions, op : Ids \cup {0}]
ASSUME AbsentIsNotInstalled == Absent \notin Installed

HostType == [Pkgs -> Installed \cup {Absent}]
Phases == {"idle", "looked", "load", "save", "apply", "restore"}
\* Where a command goes on after a record: "certify" is pacman's success,
\* "release" the merge that drops the journal entry.
Continuations == {"idle", "apply", "certify", "release", "restore"}

EmptyPatch == [body |-> EmptyBody, id |-> 0, entry |-> NoEntry]
Nothing == [ledger |-> EmptyLedger, host |-> [x \in Pkgs |-> Absent]]

TypeOK ==
  /\ host \in HostType
  /\ ledger \in LedgerType
  /\ lock \in Procs \cup {Nobody}
  /\ pc \in [Procs -> Phases]
  /\ seen \in [Procs -> [ledger : LedgerType, host : HostType]]
  /\ op \in [Procs -> Ids \cup {0}]
  /\ body \in [Procs -> Body]
  /\ again \in [Procs -> BOOLEAN]
  /\ patch \in [Procs -> Patch]
  /\ loaded \in [Procs -> LedgerType]
  /\ after \in [Procs -> Continuations]
  /\ todo \in [Procs -> SUBSET Ids]
  /\ nextId \in 1 .. MaxTransactions + 1
  /\ fact \in [journaled : SUBSET Ids, succeeded : SUBSET Ids,
               certified : SUBSET Ids, discarded : SUBSET Ids,
               waived : SUBSET Pkgs]

Init ==
  \* Packages may be there from before pacvamp, for which it has no entry.
  /\ host \in [Pkgs -> [ver : Versions, op : {0}] \cup {Absent}]
  /\ ledger = EmptyLedger
  /\ lock = Nobody
  /\ pc = [p \in Procs |-> "idle"]
  /\ seen = [p \in Procs |-> Nothing]
  /\ op = [p \in Procs |-> 0]
  /\ body = [p \in Procs |-> EmptyBody]
  /\ again = [p \in Procs |-> FALSE]
  /\ patch = [p \in Procs |-> EmptyPatch]
  /\ loaded = [p \in Procs |-> EmptyLedger]
  /\ after = [p \in Procs |-> "idle"]
  /\ todo = [p \in Procs |-> {}]
  /\ nextId = 1
  /\ fact = [journaled |-> {}, succeeded |-> {}, certified |-> {},
             discarded |-> {}, waived |-> {}]

-----------------------------------------------------------------------------
(* One record: App::record, merge_into and the flock around it.            *)

\* p hands a patch to App::record and goes on at `next` if that succeeds.
Record(p, q, next) ==
  /\ patch' = [patch EXCEPT ![p] = q]
  /\ after' = [after EXCEPT ![p] = next]
  /\ pc' = [pc EXCEPT ![p] = "load"]

\* What a process holds is gone with it; flock is released by the kernel.
Forget(p) ==
  /\ pc' = [pc EXCEPT ![p] = "idle"]
  /\ seen' = [seen EXCEPT ![p] = Nothing]
  /\ op' = [op EXCEPT ![p] = 0]
  /\ body' = [body EXCEPT ![p] = EmptyBody]
  /\ again' = [again EXCEPT ![p] = FALSE]
  /\ patch' = [patch EXCEPT ![p] = EmptyPatch]
  /\ loaded' = [loaded EXCEPT ![p] = EmptyLedger]
  /\ after' = [after EXCEPT ![p] = "idle"]
  /\ todo' = [todo EXCEPT ![p] = {}]
  /\ lock' = IF lock = p THEN Nobody ELSE lock

\* The ledger is read without the lock.
LoadUnlocked(p) ==
  /\ pc[p] = "load"
  /\ loaded' = [loaded EXCEPT ![p] = ledger]
  /\ pc' = [pc EXCEPT ![p] = "save"]
  /\ UNCHANGED <<host, ledger, lock, seen, op, body, again, patch, after, todo,
                 nextId, fact>>

LoadLedger(p) ==
  /\ pc[p] = "load"
  /\ lock = Nobody
  /\ lock' = p
  /\ loaded' = [loaded EXCEPT ![p] = ledger]
  /\ pc' = [pc EXCEPT ![p] = "save"]
  /\ UNCHANGED <<host, ledger, seen, op, body, again, patch, after, todo,
                 nextId, fact>>

\* The bookkeeping of the history variable when patch q reaches the file.
Witnessed(f, q) ==
  LET isIntent == q.id # 0 /\ q.entry # NoEntry /\ ~q.entry.completed
      isCompletion == q.id # 0 /\ q.entry # NoEntry /\ q.entry.completed
      isDiscard == q.id # 0 /\ q.entry = NoEntry /\ q.body = EmptyBody
      isRelease == q.id # 0 /\ q.entry = NoEntry /\ q.body # EmptyBody
      covered == IF isDiscard /\ ledger.pending[q.id] # NoEntry
                 THEN Touched(ledger.pending[q.id].body)
                 ELSE {}
  IN  [journaled |-> IF isIntent THEN f.journaled \cup {q.id} ELSE f.journaled,
       succeeded |-> f.succeeded,
       certified |-> IF isCompletion THEN f.certified \cup {q.id} ELSE f.certified,
       discarded |-> IF isDiscard THEN f.discarded \cup {q.id} ELSE f.discarded,
       waived    |-> IF isRelease THEN f.waived \ Touched(q.body)
                     ELSE f.waived \cup covered]

\* The rename: the file holds the merge of what was loaded under the lock.
Saved(p) ==
  /\ pc[p] = "save"
  /\ ledger' = Merge(loaded[p], patch[p])
  /\ fact' = Witnessed(fact, patch[p])
  /\ UNCHANGED <<host, nextId>>

Unlock(p) ==
  /\ lock' = Nobody
  /\ loaded' = [loaded EXCEPT ![p] = EmptyLedger]

\* The intent is durable, pacman may run.
SaveIntent(p) ==
  /\ after[p] = "apply"
  /\ Saved(p)
  /\ Unlock(p)
  /\ pc' = [pc EXCEPT ![p] = "apply"]
  /\ UNCHANGED <<seen, op, body, again, patch, after, todo>>

\* Pacman's success is durable.  One more record merges the patch and drops
\* the journal entry together.
SaveCompletion(p) ==
  /\ after[p] = "certify"
  /\ Saved(p)
  /\ Unlock(p)
  /\ Record(p, [body |-> body[p], id |-> op[p], entry |-> NoEntry], "release")
  /\ UNCHANGED <<seen, op, body, again, todo>>

\* The journal is released.  Most commands record the same changes once more,
\* outside the journal and without --asdeps' demotions; update and rollback then
\* add the snapshot the machine converged to.
SaveRelease(p) ==
  /\ after[p] = "release" /\ again[p]
  /\ Saved(p)
  /\ Unlock(p)
  /\ \E s \in Snapshots \cup {NoSnapshot} :
       Record(p, [body |-> [body[p] EXCEPT !.snapshot = s, !.demote = {}],
                  id |-> 0, entry |-> NoEntry], "idle")
  /\ op' = [op EXCEPT ![p] = 0]
  /\ body' = [body EXCEPT ![p] = EmptyBody]
  /\ again' = [again EXCEPT ![p] = FALSE]
  /\ UNCHANGED <<seen, todo>>

\* recover --write goes on to the next entry it chose.
SaveRestored(p) ==
  /\ after[p] = "restore"
  /\ Saved(p)
  /\ Unlock(p)
  /\ pc' = [pc EXCEPT ![p] = "restore"]
  /\ UNCHANGED <<seen, op, body, again, patch, after, todo>>

SaveLast(p) ==
  /\ after[p] = "idle" \/ (after[p] = "release" /\ ~again[p])
  /\ Saved(p)
  /\ Forget(p)

\* The directory sync fails after the rename: the command stops with an
\* error although the file already holds the patch.
SaveReportsError(p) ==
  /\ Saved(p)
  /\ Forget(p)

\* A command stops without touching the file or the host: a dry run, a
\* refusal, no confirmation, the lock not had within 30 seconds, a failed
\* read or write before the rename, all entries restored, or its death.
Stop(p) ==
  /\ pc[p] \in {"looked", "load", "save", "restore"}
  /\ Forget(p)
  /\ UNCHANGED <<host, ledger, nextId, fact>>

\* A root-owned ledger is written by an elevated child.  When only the
\* parent dies the child still merges the patch it was given.
ParentDies(p) ==
  /\ Elevates
  /\ pc[p] \in {"load", "save"}
  /\ after[p] # "idle"
  /\ after' = [after EXCEPT ![p] = "idle"]
  /\ UNCHANGED <<host, ledger, lock, pc, seen, op, body, again, patch, loaded,
                 todo, nextId, fact>>

-----------------------------------------------------------------------------
(* What a command reads and decides.                                       *)

Look(p) ==
  /\ pc[p] = "idle"
  /\ pc' = [pc EXCEPT ![p] = "looked"]
  /\ seen' = [seen EXCEPT ![p] = [ledger |-> ledger, host |-> host]]
  /\ UNCHANGED <<host, ledger, lock, op, body, again, patch, loaded, after, todo,
                 nextId, fact>>

\* The patch of plan: install `ver` for its domain, with `asked` the packages
\* the user named or had installed explicitly and `demoted` those of an
\* --asdeps request, and remove `gone`.
PlanBody(id, ver, asked, demoted, gone, seqs) ==
  [EmptyBody EXCEPT
     !.upsert = [x \in Pkgs |-> IF x \in DOMAIN ver
                                THEN [ver |-> ver[x], op |-> id, explicit |-> x \in asked]
                                ELSE Absent],
     !.remove = gone,
     !.demote = demoted,
     !.seqs = seqs]

\* A sequence older than the ledger's is refused, zero says none was accepted.
Accepted(p) ==
  {s \in [Repos -> 0 .. MaxSeq] :
     \A r \in Repos : s[r] = 0 \/ s[r] >= seen[p].ledger.seqs[r]}

Asked(up) == IF Reasons THEN SUBSET up ELSE {up}

Intent(id, b, done) ==
  [body |-> EmptyBody, id |-> id, entry |-> [completed |-> done, body |-> b]]

\* A plan of the resolver; what --print answered may be old by now.
Decide(p) ==
  \E up \in SUBSET Pkgs, gone \in SUBSET Pkgs, twice \in BOOLEAN :
    /\ up \cup gone # {} /\ up \cap gone = {}
    /\ \A x \in gone : seen[p].host[x] # Absent
    /\ again' = [again EXCEPT ![p] = twice]
    /\ \E ver \in [up -> Versions], asked \in Asked(up), seqs \in Accepted(p) :
       \E demoted \in SUBSET (up \ asked) :
         body' = [body EXCEPT ![p] = PlanBody(nextId, ver, asked, demoted, gone, seqs)]

\* pacman runs before the intent is on disk.
BeginUnjournaled(p) ==
  /\ pc[p] = "looked"
  /\ nextId \in Ids
  /\ Decide(p)
  /\ op' = [op EXCEPT ![p] = nextId]
  /\ nextId' = nextId + 1
  /\ seen' = [seen EXCEPT ![p] = Nothing]
  /\ pc' = [pc EXCEPT ![p] = "apply"]
  /\ UNCHANGED <<host, ledger, lock, patch, after, loaded, todo, fact>>

\* `journaled`: the intent goes to disk first.
Begin(p) ==
  /\ pc[p] = "looked"
  /\ nextId \in Ids
  /\ Decide(p)
  /\ op' = [op EXCEPT ![p] = nextId]
  /\ nextId' = nextId + 1
  /\ seen' = [seen EXCEPT ![p] = Nothing]
  /\ Record(p, Intent(nextId, body'[p], FALSE), "apply")
  /\ UNCHANGED <<host, ledger, lock, loaded, todo, fact>>

\* Entries rebuilt without evidence for `built`, of which `asked` are explicit,
\* entries of `kept` made explicit, and entries of `stale` dropped, all three
\* computed from the ledger l and the host h that a process read.
RepairBody(l, h, built, asked, kept, stale) ==
  [EmptyBody EXCEPT
     !.upsert = [x \in Pkgs |->
        IF x \in built THEN [ver |-> h[x].ver, op |-> 0, explicit |-> x \in asked]
        ELSE IF x \in kept THEN [l.packages[x] EXCEPT !.explicit = TRUE]
        ELSE Absent],
     !.remove = stale]

\* Ledger repairs of install, remove, apply, add and drop when pacman has
\* nothing to do: for installed packages that have no entry, entries that are
\* not explicit, and entries of packages that are gone.
Repair(p) ==
  /\ pc[p] = "looked"
  /\ seen' = [seen EXCEPT ![p] = Nothing]
  /\ LET l == seen[p].ledger
         h == seen[p].host
         known == {x \in Pkgs : l.packages[x] # Absent}
         there == {x \in Pkgs : h[x] # Absent}
     IN  \E built \in SUBSET (there \ known), asked \in Asked(there \ known),
            kept \in SUBSET {x \in known \cap there : ~l.packages[x].explicit},
            stale \in SUBSET (known \ there) :
           /\ built \cup kept \cup stale # {}
           /\ Record(p, [body |-> RepairBody(l, h, built, asked, kept, stale),
                         id |-> 0, entry |-> NoEntry], "idle")
  /\ UNCHANGED <<host, ledger, lock, op, body, again, loaded, todo, nextId, fact>>

\* A verified index's sequence is recorded when it differs from the one seen.
RecordIndex(p) ==
  /\ pc[p] = "looked"
  /\ seen' = [seen EXCEPT ![p] = Nothing]
  /\ \E s \in Accepted(p) :
       /\ s # seen[p].ledger.seqs
       /\ Record(p, [body |-> [EmptyBody EXCEPT !.seqs = s],
                     id |-> 0, entry |-> NoEntry], "idle")
  /\ UNCHANGED <<host, ledger, lock, op, body, again, loaded, todo, nextId, fact>>

-----------------------------------------------------------------------------
(* pacman, and what its result does to the journal.                        *)

\* The local database once pacman has done the part `done` of a body.
Applied(h, b, id, done) ==
  [x \in Pkgs |-> IF x \notin done THEN h[x]
                  ELSE IF b.upsert[x] # Absent THEN [ver |-> b.upsert[x].ver, op |-> id]
                  ELSE IF x \in b.remove THEN Absent
                  ELSE h[x]]

\* The exit status of pacman is ignored.
PacmanStatusIgnored(p) ==
  /\ pc[p] = "apply"
  /\ \E done \in SUBSET Touched(body[p]) :
       host' = Applied(host, body[p], op[p], done)
  /\ Record(p, Intent(op[p], body[p], TRUE), "certify")
  /\ UNCHANGED <<ledger, lock, seen, op, body, again, loaded, todo, nextId, fact>>

\* pacman does all of the plan and exits zero: record that it completed.
PacmanSucceeds(p) ==
  /\ pc[p] = "apply"
  /\ \A x \in body[p].remove : host[x] # Absent
  /\ host' = Applied(host, body[p], op[p], Pkgs)
  /\ fact' = [fact EXCEPT !.succeeded = @ \cup {op[p]}]
  /\ Record(p, Intent(op[p], body[p], TRUE), "certify")
  /\ UNCHANGED <<ledger, lock, seen, op, body, again, loaded, todo, nextId>>

\* Any other exit, or the end of pacvamp while pacman runs: some of the plan
\* is done, and the journal keeps the intent.
PacmanFails(p) ==
  /\ pc[p] = "apply"
  /\ \E done \in SUBSET Touched(body[p]) :
       host' = Applied(host, body[p], op[p], done)
  /\ Forget(p)
  /\ UNCHANGED <<ledger, nextId, fact>>

-----------------------------------------------------------------------------
(* pacvamp recover.                                                        *)

\* Every package of a journal entry is as the entry says, by version.
Matches(h, b) ==
  \A x \in Pkgs :
    /\ b.upsert[x] # Absent => h[x] # Absent /\ h[x].ver = b.upsert[x].ver
    /\ x \in b.remove => h[x] = Absent

\* The outcome that the entry records is not looked at.
RestorableWhateverTheOutcome(l, h) ==
  {i \in Ids : l.pending[i] # NoEntry /\ Matches(h, l.pending[i].body)}

\* What recover takes for restorable: pacman completed and the host agrees.
Restorable(l, h) ==
  {i \in Ids : /\ l.pending[i] # NoEntry
               /\ l.pending[i].completed
               /\ Matches(h, l.pending[i].body)}

\* recover --write, for every entry or for the one given by --id.
Recover(p) ==
  /\ pc[p] = "looked"
  /\ LET all == Restorable(seen[p].ledger, seen[p].host)
     IN  \E chosen \in {all} \cup {{i} : i \in all} :
           /\ chosen # {}
           /\ todo' = [todo EXCEPT ![p] = chosen]
  /\ pc' = [pc EXCEPT ![p] = "restore"]
  /\ UNCHANGED <<host, ledger, lock, seen, op, body, again, patch, loaded, after,
                 nextId, fact>>

\* Entries are restored in the order of their ids, as they were read.
RestoreNext(p) ==
  /\ pc[p] = "restore"
  /\ \E i \in todo[p] :
       /\ \A j \in todo[p] : i <= j
       /\ Record(p, [body |-> seen[p].ledger.pending[i].body,
                     id |-> i, entry |-> NoEntry], "restore")
       /\ todo' = [todo EXCEPT ![p] = @ \ {i}]
  /\ UNCHANGED <<host, ledger, lock, seen, op, body, again, loaded, nextId, fact>>

\* recover --discard drops one entry and changes nothing else.
Discard(p) ==
  /\ pc[p] = "looked"
  /\ seen' = [seen EXCEPT ![p] = Nothing]
  /\ \E i \in Ids :
       /\ seen[p].ledger.pending[i] # NoEntry
       /\ Record(p, [body |-> EmptyBody, id |-> i, entry |-> NoEntry], "idle")
  /\ UNCHANGED <<host, ledger, lock, op, body, again, loaded, todo, nextId, fact>>

-----------------------------------------------------------------------------

Step(p) ==
  \/ Look(p) \/ Begin(p) \/ Repair(p) \/ RecordIndex(p) \/ Stop(p)
  \/ LoadLedger(p) \/ SaveIntent(p) \/ SaveCompletion(p) \/ SaveRelease(p)
  \/ SaveRestored(p) \/ SaveLast(p) \/ SaveReportsError(p) \/ ParentDies(p)
  \/ PacmanSucceeds(p) \/ PacmanFails(p)
  \/ Recover(p) \/ RestoreNext(p) \/ Discard(p)

Next == \E p \in Procs : Step(p)

Spec == Init /\ [][Next]_vars

-----------------------------------------------------------------------------
(* Properties.                                                             *)

\* Write-ahead: while pacman may change the host for a transaction, that
\* transaction's intent is in the ledger file and says exactly what it will
\* do, unless the user discarded it meanwhile.  journaled() records first.
WriteAhead ==
  \A p \in Procs :
    pc[p] = "apply" =>
      \/ op[p] \in fact.discarded
      \/ ledger.pending[op[p]] = [completed |-> FALSE, body |-> body[p]]

\* Evidence is never manufactured: what an entry of the ledger claims comes
\* from a transaction whose successful exit of pacman was made durable first,
\* whatever crashed, was restored or was recorded late.
EvidenceIsCertified ==
  EvidenceOf(ledger.packages) \subseteq fact.certified \cap fact.succeeded

\* A journal entry leaves the ledger only with its patch, merged by the same
\* rename, or because a user discarded it.
Released(b, l) ==
  /\ \A x \in Pkgs : b.upsert[x] # Absent =>
       /\ l.packages[x] # Absent
       /\ l.packages[x].op = b.upsert[x].op
       /\ l.packages[x].ver = b.upsert[x].ver
  /\ \A x \in b.remove : l.packages[x] = Absent
  /\ \A r \in Repos : l.seqs[r] >= b.seqs[r]

JournalLeavesWithItsPatch ==
  [][ \A i \in Ids :
        (ledger.pending[i] # NoEntry /\ ledger'.pending[i] = NoEntry) =>
          \/ i \in fact'.discarded
          \/ Released(ledger.pending[i].body, ledger') ]_vars

\* Rollback protection: the sequence the machine has seen never goes back,
\* whoever records an older index late.
SequencesNeverGoBack ==
  [][ \A r \in Repos : ledger'.seqs[r] >= ledger.seqs[r] ]_vars

\* A package the user asked for stays explicit until an --asdeps request
\* names it or its entry is removed.
ExplicitIsKept ==
  [][ \A x \in Pkgs :
        ( /\ ledger.packages[x] # Absent /\ ledger.packages[x].explicit
          /\ ledger'.packages[x] # Absent /\ ~ledger'.packages[x].explicit )
        => \E p \in Procs : x \in patch[p].body.demote \cup patch[p].body.remove ]_vars

\* What the ledger says of a package is what is installed, by version.
Agrees(x) ==
  IF ledger.packages[x] = Absent
  THEN host[x] = Absent \/ host[x].op = 0
  ELSE host[x] # Absent /\ host[x].ver = ledger.packages[x].ver

Covered(x) ==
  \E i \in Ids : ledger.pending[i] # NoEntry /\ x \in Touched(ledger.pending[i].body)

\* No change is lost: where ledger and host differ, a journal entry still
\* accounts for the package, or the user discarded the entry that did.  With
\* one command at a time this survives every crash and failed record.
DifferencesAreJournaled ==
  \A x \in Pkgs : Agrees(x) \/ Covered(x) \/ x \in fact.waived

\* The ledger promises no more than RecordedFact does: see that module.
Fact == INSTANCE RecordedFact WITH
          intended <- fact.journaled,
          done     <- fact.succeeded,
          durable  <- fact.certified,
          evidence <- EvidenceOf(ledger.packages)

ImplementsRecordedFact == Fact!Spec

\* What the ledger shows evidence for is installed, where no journal entry is
\* open for it: "the ledger records what actually completed".
EntriesAreInstalled ==
  \A x \in Pkgs :
    ( /\ ledger.packages[x] # Absent /\ ledger.packages[x].op # 0
      /\ ~Covered(x) /\ x \notin fact.waived )
    => host[x] # Absent

\* The evidence of an entry is that of the very package installed, where no
\* journal entry is open for it and the versions agree.
EvidenceIsOfInstalledPackage ==
  \A x \in Pkgs :
    ( /\ ledger.packages[x] # Absent /\ ledger.packages[x].op # 0
      /\ host[x] # Absent /\ host[x].ver = ledger.packages[x].ver
      /\ ~Covered(x) /\ x \notin fact.waived )
    => host[x].op = ledger.packages[x].op

-----------------------------------------------------------------------------
(* The inductive invariant behind WriteAhead, EvidenceIsCertified and      *)
(* ImplementsRecordedFact; JournalProofs proves it.                        *)

Recording(p) == pc[p] \in {"load", "save"}

\* p runs transaction op[p]: its intent is being or has been recorded, and
\* its patch not yet released.
Running(p) ==
  pc[p] = "apply" \/ (Recording(p) /\ after[p] \in {"apply", "certify", "release"})

\* The flock protects load and save.
LockProtects ==
  /\ \A p \in Procs : pc[p] = "save" => lock = p /\ loaded[p] = ledger
  /\ \A p \in Procs : lock = p => pc[p] = "save"

\* A transaction has one process, and ids are not used twice.
Ownership ==
  /\ \A p \in Procs : op[p] # 0 => op[p] < nextId
  /\ \A p, q \in Procs : op[p] # 0 /\ op[p] = op[q] => p = q
  /\ \A i \in fact.succeeded : i < nextId
  /\ \A p \in Procs : Running(p) => op[p] # 0

\* Only certified transactions are cited as evidence by body b; those in S too.
Cites(b, S) ==
  \A x \in Pkgs : b.upsert[x] # Absent => b.upsert[x].op \in S \cup {0}

\* The entries of ledger l show evidence of the transactions C only, and only
\* theirs are journaled as completed.
HonestLedger(l, C) ==
  /\ \A x \in Pkgs : l.packages[x] # Absent => l.packages[x].op \in C \cup {0}
  /\ \A i \in Ids : l.pending[i] # NoEntry =>
       /\ Cites(l.pending[i].body, {i})
       /\ l.pending[i].completed => i \in C

\* A patch on its way to the file claims only what is certified, and journals
\* a transaction as completed only when pacman succeeded.
HonestPatch(p) ==
  Recording(p) =>
    /\ Cites(patch[p].body, fact.certified)
    /\ patch[p].entry # NoEntry =>
         /\ patch[p].id # 0 /\ patch[p].id = op[p]
         /\ patch[p].body = EmptyBody
         /\ Cites(patch[p].entry.body, {patch[p].id})
         /\ patch[p].entry.completed => patch[p].id \in fact.succeeded
    /\ (patch[p].entry = NoEntry /\ patch[p].id # 0 /\ patch[p].body # EmptyBody)
         => patch[p].id \in fact.certified

\* What the phase of p says of its transaction and of what it will restore.
Stage(p) ==
  /\ Running(p) => Cites(body[p], {op[p]})
  /\ Recording(p) /\ after[p] = "apply" =>
       patch[p] = Intent(op[p], body[p], FALSE) /\ op[p] \notin fact.succeeded
  /\ pc[p] = "apply" =>
       op[p] \in fact.journaled /\ op[p] \notin fact.succeeded
  /\ Recording(p) /\ after[p] = "certify" =>
       patch[p] = Intent(op[p], body[p], TRUE) /\ op[p] \in fact.succeeded
  /\ Recording(p) /\ after[p] = "release" => op[p] \in fact.certified
  /\ pc[p] \in {"idle", "looked"} => todo[p] = {}
  /\ \A i \in todo[p] : /\ seen[p].ledger.pending[i] # NoEntry
                        /\ seen[p].ledger.pending[i].completed

Inductive ==
  /\ TypeOK
  /\ LockProtects
  /\ Ownership
  /\ fact.certified \subseteq fact.succeeded
  /\ fact.succeeded \subseteq fact.journaled
  /\ HonestLedger(ledger, fact.certified)
  /\ \A p \in Procs : HonestLedger(seen[p].ledger, fact.certified)
  /\ \A p \in Procs : HonestPatch(p)
  /\ \A p \in Procs : Stage(p)
  /\ WriteAhead

=============================================================================
