---------------------------- MODULE JournalProofs ---------------------------
(***************************************************************************)
(* Theorems about Journal, for every number of packages, versions,         *)
(* repositories, processes and transactions.                               *)
(***************************************************************************)
EXTENDS Journal, TLAPS

\* The values a process and a new machine start from have their types.
LEMMA EmptyTypes ==
  /\ EmptyBody \in Body
  /\ EmptyLedger \in LedgerType
  /\ EmptyPatch \in Patch
  /\ Nothing \in [ledger : LedgerType, host : HostType]
<1>0. 0 \in 0 .. MaxSeq
  BY BoundsAreNat
<1>1. EmptyBody \in Body
  BY <1>0 DEF EmptyBody, Body
<1>2. EmptyLedger \in LedgerType
  BY <1>0 DEF EmptyLedger, LedgerType
<1>3. EmptyPatch \in Patch
  BY <1>1 DEF EmptyPatch, Patch
<1>4. Nothing \in [ledger : LedgerType, host : HostType]
  BY <1>2 DEF Nothing, HostType
<1> QED
  BY <1>1, <1>2, <1>3, <1>4

\* Merging a patch's body leaves a map of entries.
LEMMA MergePackagesType ==
  ASSUME NEW pk \in [Pkgs -> Entry \cup {Absent}], NEW b \in Body
  PROVE  MergePackages(pk, b) \in [Pkgs -> Entry \cup {Absent}]
<1> DEFINE kept(x) == IF x \in b.remove THEN Absent ELSE pk[x]
           put(x) == IF b.upsert[x] = Absent THEN kept(x)
                     ELSE Preserving(kept(x), b.upsert[x])
           res(x) == IF x \in b.demote /\ put(x) # Absent
                     THEN [put(x) EXCEPT !.explicit = FALSE] ELSE put(x)
<1>1. ASSUME NEW x \in Pkgs PROVE res(x) \in Entry \cup {Absent}
  <2>1. b.upsert[x] \in Entry \cup {Absent}
    BY DEF Body
  <2>2. kept(x) \in Entry \cup {Absent}
    OBVIOUS
  <2>3. put(x) \in Entry \cup {Absent}
    BY <2>1, <2>2 DEF Preserving, Entry
  <2>4. ASSUME put(x) # Absent PROVE [put(x) EXCEPT !.explicit = FALSE] \in Entry
    <3> HIDE DEF put
    <3> QED BY <2>3, <2>4 DEF Entry
  <2> QED
    BY <2>3, <2>4
<1>2. MergePackages(pk, b) = [x \in Pkgs |-> res(x)]
  BY DEF MergePackages
<1> QED
  BY <1>1, <1>2

\* ledger.rs merge: a ledger merged with a patch is a ledger.
LEMMA MergeType ==
  ASSUME NEW l \in LedgerType, NEW q \in Patch
  PROVE  Merge(l, q) \in LedgerType
<1>1. MergePackages(l.packages, q.body) \in [Pkgs -> Entry \cup {Absent}]
  BY MergePackagesType DEF LedgerType, Patch
<1>2. MergePending(l.pending, q) \in [Ids -> Pending \cup {NoEntry}]
  BY DEF MergePending, LedgerType, Patch
<1>3. \A r \in Repos : Larger(l.seqs[r], q.body.seqs[r]) \in 0 .. MaxSeq
  BY DEF Larger, LedgerType, Patch, Body
<1>4. q.body.snapshot \in Snapshots \cup {NoSnapshot}
      /\ l.snapshot \in Snapshots \cup {NoSnapshot}
  BY DEF LedgerType, Patch, Body
<1> QED
  BY <1>1, <1>2, <1>3, <1>4 DEF Merge, LedgerType

-----------------------------------------------------------------------------
(* Type correctness.                                                       *)

\* The body planned for a transaction is a body.
LEMMA PlanBodyType ==
  ASSUME NEW id \in Ids, NEW up \in SUBSET Pkgs, NEW gone \in SUBSET Pkgs,
         NEW ver \in [up -> Versions], NEW asked, NEW demoted \in SUBSET Pkgs,
         NEW seqs \in [Repos -> 0 .. MaxSeq]
  PROVE  PlanBody(id, ver, asked, demoted, gone, seqs) \in Body
<1> DEFINE ent(x) == IF x \in DOMAIN ver
                     THEN [ver |-> ver[x], op |-> id, explicit |-> x \in asked]
                     ELSE Absent
<1>1. ASSUME NEW x \in Pkgs PROVE ent(x) \in Entry \cup {Absent}
  <2>1. CASE x \in asked
    BY <2>1 DEF Entry
  <2>2. CASE x \notin asked
    BY <2>2 DEF Entry
  <2> QED
    BY <2>1, <2>2
<1>2. [x \in Pkgs |-> ent(x)] \in [Pkgs -> Entry \cup {Absent}]
  BY <1>1
<1> HIDE DEF ent
<1>3. [EmptyBody EXCEPT !.upsert = [x \in Pkgs |-> ent(x)], !.remove = gone,
                        !.demote = demoted, !.seqs = seqs] \in Body
  BY <1>2, EmptyTypes DEF Body
<1> QED
  BY <1>3 DEF PlanBody, ent

\* What a command decides to record has its type.
LEMMA DecideType ==
  ASSUME TypeOK, NEW p \in Procs, nextId \in Ids, Decide(p)
  PROVE  /\ body' \in [Procs -> Body]
         /\ again' \in [Procs -> BOOLEAN]
<1> PICK up \in SUBSET Pkgs, gone \in SUBSET Pkgs, twice \in BOOLEAN :
      /\ up \cup gone # {} /\ up \cap gone = {}
      /\ \A x \in gone : seen[p].host[x] # Absent
      /\ again' = [again EXCEPT ![p] = twice]
      /\ \E ver \in [up -> Versions], asked \in Asked(up), seqs \in Accepted(p) :
         \E demoted \in SUBSET (up \ asked) :
           body' = [body EXCEPT ![p] = PlanBody(nextId, ver, asked, demoted, gone, seqs)]
  BY DEF Decide
<1> PICK ver \in [up -> Versions], asked \in Asked(up), seqs \in Accepted(p) :
      \E demoted \in SUBSET (up \ asked) :
        body' = [body EXCEPT ![p] = PlanBody(nextId, ver, asked, demoted, gone, seqs)]
  OBVIOUS
<1> PICK demoted \in SUBSET (up \ asked) :
        body' = [body EXCEPT ![p] = PlanBody(nextId, ver, asked, demoted, gone, seqs)]
  OBVIOUS
<1>1. PlanBody(nextId, ver, asked, demoted, gone, seqs) \in Body
  BY PlanBodyType DEF Accepted
<1> QED
  BY <1>1 DEF TypeOK

\* A process that ends leaves values of their types behind.
LEMMA ForgetType ==
  ASSUME TypeOK, NEW p \in Procs, Forget(p)
  PROVE  /\ lock' \in Procs \cup {Nobody}
         /\ pc' \in [Procs -> Phases]
         /\ seen' \in [Procs -> [ledger : LedgerType, host : HostType]]
         /\ op' \in [Procs -> Ids \cup {0}]
         /\ body' \in [Procs -> Body]
         /\ again' \in [Procs -> BOOLEAN]
         /\ patch' \in [Procs -> Patch]
         /\ loaded' \in [Procs -> LedgerType]
         /\ after' \in [Procs -> Continuations]
         /\ todo' \in [Procs -> SUBSET Ids]
BY EmptyTypes DEF Forget, TypeOK, Phases, Continuations

\* Handing a patch to App::record keeps the types.
LEMMA RecordType ==
  ASSUME TypeOK, NEW p \in Procs, NEW q \in Patch, NEW next \in Continuations,
         Record(p, q, next)
  PROVE  /\ pc' \in [Procs -> Phases]
         /\ patch' \in [Procs -> Patch]
         /\ after' \in [Procs -> Continuations]
BY DEF Record, TypeOK, Phases

\* save replaces the file by a ledger, and notes it in the history.
LEMMA SavedType ==
  ASSUME TypeOK, NEW p \in Procs, Saved(p)
  PROVE  /\ ledger' \in LedgerType
         /\ fact' \in [journaled : SUBSET Ids, succeeded : SUBSET Ids,
                       certified : SUBSET Ids, discarded : SUBSET Ids,
                       waived : SUBSET Pkgs]
<1>1. ledger' \in LedgerType
  BY MergeType DEF Saved, TypeOK
<1>2. patch[p] \in Patch
  BY DEF TypeOK
<1>3. Witnessed(fact, patch[p]) \in
        [journaled : SUBSET Ids, succeeded : SUBSET Ids, certified : SUBSET Ids,
         discarded : SUBSET Ids, waived : SUBSET Pkgs]
  <2> DEFINE q == patch[p]
  <2>1. q.id # 0 => q.id \in Ids
    BY <1>2 DEF Patch
  <2>2. q.id # 0 /\ ledger.pending[q.id] # NoEntry
          => Touched(ledger.pending[q.id].body) \subseteq Pkgs
    BY <2>1 DEF Touched, TypeOK, LedgerType, Pending, Body
  <2> HIDE DEF q
  <2> QED
    BY <2>1, <2>2 DEF Witnessed, TypeOK, q
<1> QED
  BY <1>1, <1>3 DEF Saved

\* A repair computed from a ledger and a host is a body.
LEMMA RepairBodyType ==
  ASSUME NEW l \in LedgerType, NEW h \in HostType, NEW built, NEW asked, NEW kept,
         NEW stale \in SUBSET Pkgs,
         \A x \in built : x \in Pkgs /\ h[x] # Absent,
         \A x \in kept : x \in Pkgs /\ l.packages[x] # Absent
  PROVE  RepairBody(l, h, built, asked, kept, stale) \in Body
<1> DEFINE ent(x) == IF x \in built
               THEN [ver |-> h[x].ver, op |-> 0, explicit |-> x \in asked]
               ELSE IF x \in kept
               THEN [l.packages[x] EXCEPT !.explicit = TRUE]
               ELSE Absent
<1>1. ASSUME NEW x \in Pkgs PROVE ent(x) \in Entry \cup {Absent}
  <2>1. CASE x \in built
    <3>1. h[x].ver \in Versions
      BY <2>1 DEF HostType, Installed
    <3>2. CASE x \in asked
      BY <2>1, <3>1, <3>2 DEF Entry
    <3>3. CASE x \notin asked
      BY <2>1, <3>1, <3>3 DEF Entry
    <3> QED
      BY <3>2, <3>3
  <2>2. CASE x \notin built /\ x \in kept
    <3>1. l.packages[x] \in Entry
      BY <2>2 DEF LedgerType
    <3> QED
      BY <2>2, <3>1 DEF Entry
  <2> QED
    BY <2>1, <2>2
<1>2. [x \in Pkgs |-> ent(x)] \in [Pkgs -> Entry \cup {Absent}]
  BY <1>1
<1> HIDE DEF ent
<1>3. [EmptyBody EXCEPT !.upsert = [x \in Pkgs |-> ent(x)], !.remove = stale] \in Body
  BY <1>2, EmptyTypes DEF Body
<1> QED
  BY <1>3 DEF RepairBody, ent

\* Whatever part of a plan pacman does, the local database is one.
LEMMA AppliedType ==
  ASSUME TypeOK, NEW p \in Procs, NEW done, op[p] # 0
  PROVE  Applied(host, body[p], op[p], done) \in HostType
<1>1. body[p] \in Body /\ op[p] \in Ids /\ host \in HostType
  BY DEF TypeOK
<1>2. ASSUME NEW x \in Pkgs, body[p].upsert[x] # Absent
      PROVE  [ver |-> body[p].upsert[x].ver, op |-> op[p]] \in Installed
  <2>1. body[p].upsert[x] \in Entry
    BY <1>1, <1>2 DEF Body
  <2> QED
    BY <1>1, <2>1 DEF Entry, Installed
<1> QED
  BY <1>1, <1>2 DEF Applied, HostType

\* A journal entry's patch is a patch.
LEMMA IntentType ==
  ASSUME NEW id \in Ids, NEW b \in Body, NEW done \in BOOLEAN
  PROVE  Intent(id, b, done) \in Patch
BY EmptyTypes DEF Intent, Patch, Pending

\* What a journal entry's patch says, field by field.
LEMMA IntentFields ==
  ASSUME NEW id, NEW b \in Body
  PROVE  /\ Intent(id, b, FALSE).entry # NoEntry /\ Intent(id, b, TRUE).entry # NoEntry
         /\ ~Intent(id, b, FALSE).entry.completed
         /\ Intent(id, b, TRUE).entry.completed
         /\ Intent(id, b, FALSE).id = id /\ Intent(id, b, TRUE).id = id
<1>1. /\ [completed |-> FALSE, body |-> b] \in Pending
      /\ [completed |-> TRUE, body |-> b] \in Pending
  BY DEF Pending
<1> QED
  BY <1>1, NoEntryIsNoPending DEF Intent

\* A step of any process preserves types.  Two facts beyond TypeOK matter:
\* a running transaction has an id, and recover only walks real entries.
LEMMA TypeStep ==
  ASSUME TypeOK, Ownership, NEW p \in Procs, Stage(p), Step(p)
  PROVE  TypeOK'
<1> USE DEF vars
<1>1. CASE Look(p)
  BY <1>1 DEF Look, TypeOK, Phases
<1>2. CASE Begin(p)
  <2>1. body' \in [Procs -> Body] /\ again' \in [Procs -> BOOLEAN] /\ nextId \in Ids
    BY <1>2, DecideType DEF Begin
  <2>2. Intent(nextId, body'[p], FALSE) \in Patch
    BY <2>1, IntentType
  <2>3. /\ pc' \in [Procs -> Phases] /\ patch' \in [Procs -> Patch]
        /\ after' \in [Procs -> Continuations]
    BY <1>2, <2>2, RecordType DEF Begin, Continuations
  <2>4. seen' \in [Procs -> [ledger : LedgerType, host : HostType]]
    BY <1>2, EmptyTypes DEF Begin, TypeOK
  <2>5. op' \in [Procs -> Ids \cup {0}] /\ nextId' \in 1 .. MaxTransactions + 1
    BY <1>2, BoundsAreNat DEF Begin, TypeOK, Ids
  <2> QED
    BY <1>2, <2>1, <2>3, <2>4, <2>5 DEF Begin, TypeOK
<1>3. CASE Repair(p)
  <2> DEFINE l == seen[p].ledger
             h == seen[p].host
             known == {x \in Pkgs : l.packages[x] # Absent}
             there == {x \in Pkgs : h[x] # Absent}
  <2>1. PICK b : b \in Body /\ Record(p, [body |-> b, id |-> 0, entry |-> NoEntry], "idle")
    <3>1. PICK built \in SUBSET (there \ known), asked \in Asked(there \ known),
            kept \in SUBSET {x \in known \cap there : ~l.packages[x].explicit},
            stale \in SUBSET (known \ there) :
           /\ built \cup kept \cup stale # {}
           /\ Record(p, [body |-> RepairBody(l, h, built, asked, kept, stale),
                         id |-> 0, entry |-> NoEntry], "idle")
      BY <1>3 DEF Repair
    <3>2. l \in LedgerType /\ h \in HostType
      BY DEF TypeOK
    <3>3. /\ \A x \in built : x \in Pkgs /\ h[x] # Absent
          /\ \A x \in kept : x \in Pkgs /\ l.packages[x] # Absent
          /\ stale \in SUBSET Pkgs
      OBVIOUS
    <3> HIDE DEF l, h
    <3>4. RepairBody(l, h, built, asked, kept, stale) \in Body
      BY <3>2, <3>3, RepairBodyType
    <3> QED
      BY <3>1, <3>4
  <2> HIDE DEF l, h, known, there
  <2>2. [body |-> b, id |-> 0, entry |-> NoEntry] \in Patch
    BY <2>1 DEF Patch
  <2>3. /\ pc' \in [Procs -> Phases] /\ patch' \in [Procs -> Patch]
        /\ after' \in [Procs -> Continuations]
    BY <2>1, <2>2, RecordType DEF Continuations
  <2>4. seen' \in [Procs -> [ledger : LedgerType, host : HostType]]
    BY <1>3, EmptyTypes DEF Repair, TypeOK
  <2> QED
    BY <1>3, <2>3, <2>4 DEF Repair, TypeOK
<1>4. CASE RecordIndex(p)
  <2>1. PICK s \in Accepted(p) :
          Record(p, [body |-> [EmptyBody EXCEPT !.seqs = s],
                     id |-> 0, entry |-> NoEntry], "idle")
    BY <1>4 DEF RecordIndex
  <2>2. [body |-> [EmptyBody EXCEPT !.seqs = s], id |-> 0, entry |-> NoEntry] \in Patch
    BY <2>1, EmptyTypes DEF Patch, Body, Accepted
  <2>3. /\ pc' \in [Procs -> Phases] /\ patch' \in [Procs -> Patch]
        /\ after' \in [Procs -> Continuations]
    BY <2>1, <2>2, RecordType DEF Continuations
  <2>4. seen' \in [Procs -> [ledger : LedgerType, host : HostType]]
    BY <1>4, EmptyTypes DEF RecordIndex, TypeOK
  <2> QED
    BY <1>4, <2>3, <2>4 DEF RecordIndex, TypeOK
<1>5. CASE Stop(p)
  BY <1>5, ForgetType DEF Stop, TypeOK
<1>6. CASE LoadLedger(p)
  BY <1>6 DEF LoadLedger, TypeOK, Phases
<1>7. CASE SaveIntent(p)
  BY <1>7, SavedType, EmptyTypes DEF SaveIntent, Saved, Unlock, TypeOK, Phases
<1>8. CASE SaveCompletion(p)
  <2>1. [body |-> body[p], id |-> op[p], entry |-> NoEntry] \in Patch
    BY DEF TypeOK, Patch
  <2>2. /\ pc' \in [Procs -> Phases] /\ patch' \in [Procs -> Patch]
        /\ after' \in [Procs -> Continuations]
    BY <1>8, <2>1, RecordType DEF SaveCompletion, Continuations
  <2> QED
    BY <1>8, <2>2, SavedType, EmptyTypes DEF SaveCompletion, Saved, Unlock, TypeOK
<1>9. CASE SaveRelease(p)
  <2>1. PICK s \in Snapshots \cup {NoSnapshot} :
          Record(p, [body |-> [body[p] EXCEPT !.snapshot = s, !.demote = {}],
                     id |-> 0, entry |-> NoEntry], "idle")
    BY <1>9 DEF SaveRelease
  <2>2. [body |-> [body[p] EXCEPT !.snapshot = s, !.demote = {}], id |-> 0, entry |-> NoEntry] \in Patch
    <3>1. body[p] \in Body
      BY DEF TypeOK
    <3>2. [body[p] EXCEPT !.snapshot = s, !.demote = {}] \in Body
      BY <3>1, <2>1 DEF Body
    <3> QED
      BY <3>2 DEF Patch
  <2>3. /\ pc' \in [Procs -> Phases] /\ patch' \in [Procs -> Patch]
        /\ after' \in [Procs -> Continuations]
    BY <2>1, <2>2, RecordType DEF Continuations
  <2> QED
    BY <1>9, <2>3, SavedType, EmptyTypes DEF SaveRelease, Saved, Unlock, TypeOK
<1>10. CASE SaveRestored(p)
  BY <1>10, SavedType, EmptyTypes DEF SaveRestored, Saved, Unlock, TypeOK, Phases
<1>11. CASE SaveLast(p)
  BY <1>11, SavedType, ForgetType DEF SaveLast, Saved, TypeOK
<1>12. CASE SaveReportsError(p)
  BY <1>12, SavedType, ForgetType DEF SaveReportsError, Saved, TypeOK
<1>13. CASE ParentDies(p)
  BY <1>13 DEF ParentDies, TypeOK, Continuations
<1>14. CASE PacmanSucceeds(p)
  <2>1. op[p] \in Ids
    BY <1>14 DEF PacmanSucceeds, Ownership, Running, TypeOK
  <2>2. Intent(op[p], body[p], TRUE) \in Patch
    BY <2>1, IntentType DEF TypeOK
  <2>3. /\ pc' \in [Procs -> Phases] /\ patch' \in [Procs -> Patch]
        /\ after' \in [Procs -> Continuations]
    BY <1>14, <2>2, RecordType DEF PacmanSucceeds, Continuations
  <2>4. host' \in HostType
    BY <1>14, <2>1, BoundsAreNat, AppliedType DEF PacmanSucceeds, Ids
  <2> QED
    BY <1>14, <2>1, <2>3, <2>4 DEF PacmanSucceeds, TypeOK
<1>15. CASE PacmanFails(p)
  <2>1. op[p] # 0
    BY <1>15 DEF PacmanFails, Ownership, Running
  <2>2. host' \in HostType
    BY <1>15, <2>1, AppliedType DEF PacmanFails
  <2> QED
    BY <1>15, <2>2, ForgetType DEF PacmanFails, TypeOK
<1>16. CASE Recover(p)
  BY <1>16 DEF Recover, Restorable, TypeOK, Phases
<1>17. CASE RestoreNext(p)
  <2>1. PICK i \in todo[p] :
          /\ Record(p, [body |-> seen[p].ledger.pending[i].body,
                        id |-> i, entry |-> NoEntry], "restore")
          /\ todo' = [todo EXCEPT ![p] = @ \ {i}]
    BY <1>17 DEF RestoreNext
  <2>2. [body |-> seen[p].ledger.pending[i].body, id |-> i, entry |-> NoEntry] \in Patch
    <3>1. i \in Ids /\ seen[p].ledger.pending \in [Ids -> Pending \cup {NoEntry}]
      BY <2>1 DEF TypeOK, LedgerType
    <3>2. seen[p].ledger.pending[i] # NoEntry
      BY <2>1 DEF Stage
    <3>3. seen[p].ledger.pending[i] \in Pending
      BY <3>1, <3>2
    <3>4. seen[p].ledger.pending[i].body \in Body
      BY <3>3 DEF Pending
    <3> QED
      BY <3>1, <3>4 DEF Patch
  <2>3. /\ pc' \in [Procs -> Phases] /\ patch' \in [Procs -> Patch]
        /\ after' \in [Procs -> Continuations]
    BY <2>1, <2>2, RecordType DEF Continuations
  <2> QED
    BY <1>17, <2>1, <2>3 DEF RestoreNext, TypeOK
<1>18. CASE Discard(p)
  <2>1. PICK i \in Ids :
          Record(p, [body |-> EmptyBody, id |-> i, entry |-> NoEntry], "idle")
    BY <1>18 DEF Discard
  <2>2. [body |-> EmptyBody, id |-> i, entry |-> NoEntry] \in Patch
    BY EmptyTypes DEF Patch
  <2>3. /\ pc' \in [Procs -> Phases] /\ patch' \in [Procs -> Patch]
        /\ after' \in [Procs -> Continuations]
    BY <2>1, <2>2, RecordType DEF Continuations
  <2>4. seen' \in [Procs -> [ledger : LedgerType, host : HostType]]
    BY <1>18, EmptyTypes DEF Discard, TypeOK
  <2> QED
    BY <1>18, <2>3, <2>4 DEF Discard, TypeOK
<1> QED
  BY <1>1, <1>2, <1>3, <1>4, <1>5, <1>6, <1>7, <1>8, <1>9, <1>10, <1>11, <1>12,
     <1>13, <1>14, <1>15, <1>16, <1>17, <1>18 DEF Step

-----------------------------------------------------------------------------
(* What merges and patches cite.                                           *)

\* A body that cites only transactions of S cites only those of a larger set.
LEMMA CitesMore ==
  ASSUME NEW b, NEW S, NEW T, S \subseteq T, Cites(b, S)
  PROVE  Cites(b, T)
BY DEF Cites

\* An honest ledger stays honest when more is certified.
LEMMA HonestMore ==
  ASSUME NEW l, NEW S, NEW T, S \subseteq T, HonestLedger(l, S)
  PROVE  HonestLedger(l, T)
BY DEF HonestLedger

\* The empty body cites nothing.
LEMMA EmptyCites ==
  ASSUME NEW S
  PROVE  Cites(EmptyBody, S)
BY DEF Cites, EmptyBody

\* The empty ledger is honest.
LEMMA EmptyHonest ==
  ASSUME NEW S
  PROVE  HonestLedger(EmptyLedger, S)
BY DEF HonestLedger, EmptyLedger

\* A merge shows evidence from the entries that were there and the patch only.
LEMMA MergePackagesOps ==
  ASSUME NEW pk \in [Pkgs -> Entry \cup {Absent}], NEW b \in Body, NEW x \in Pkgs,
         MergePackages(pk, b)[x] # Absent
  PROVE  \/ pk[x] # Absent /\ MergePackages(pk, b)[x].op = pk[x].op
         \/ b.upsert[x] # Absent /\ MergePackages(pk, b)[x].op = b.upsert[x].op
<1> DEFINE kept == IF x \in b.remove THEN Absent ELSE pk[x]
           put == IF b.upsert[x] = Absent THEN kept
                  ELSE Preserving(kept, b.upsert[x])
           res == IF x \in b.demote /\ put # Absent
                  THEN [put EXCEPT !.explicit = FALSE] ELSE put
<1>1. MergePackages(pk, b)[x] = res
  BY DEF MergePackages
<1>2. b.upsert[x] \in Entry \cup {Absent} /\ pk[x] \in Entry \cup {Absent}
  BY DEF Body
<1>3. put # Absent => put \in Entry
  BY <1>2 DEF Preserving, Entry
<1>4. put # Absent => \/ pk[x] # Absent /\ put.op = pk[x].op
                      \/ b.upsert[x] # Absent /\ put.op = b.upsert[x].op
  BY <1>2 DEF Preserving, Entry
<1> HIDE DEF put
<1>5. put # Absent => [put EXCEPT !.explicit = FALSE].op = put.op
  BY <1>3 DEF Entry
<1> QED
  BY <1>1, <1>4, <1>5

\* What a patch may do to a ledger that shows evidence of S, when those of T
\* are certified by the time it reaches the file.
LEMMA MergeHonest ==
  ASSUME NEW l \in LedgerType, NEW q \in Patch, NEW S, NEW T, S \subseteq T,
         HonestLedger(l, S), Cites(q.body, S),
         q.entry # NoEntry =>
           /\ Cites(q.entry.body, {q.id})
           /\ q.entry.completed => q.id \in T
  PROVE  HonestLedger(Merge(l, q), T)
<1>1. l.packages \in [Pkgs -> Entry \cup {Absent}] /\ q.body \in Body
  BY DEF LedgerType, Patch
<1>2. ASSUME NEW x \in Pkgs, MergePackages(l.packages, q.body)[x] # Absent
      PROVE  MergePackages(l.packages, q.body)[x].op \in T \cup {0}
  BY <1>1, <1>2, MergePackagesOps DEF HonestLedger, Cites
<1>3. ASSUME NEW i \in Ids, MergePending(l.pending, q)[i] # NoEntry
      PROVE  /\ Cites(MergePending(l.pending, q)[i].body, {i})
             /\ MergePending(l.pending, q)[i].completed => i \in T
  <2>1. CASE q.id = i
    <3>1. MergePending(l.pending, q)[i] = q.entry
      BY <2>1, BoundsAreNat DEF MergePending, LedgerType, Ids
    <3> QED
      BY <1>3, <2>1, <3>1
  <2>2. CASE q.id # i
    <3>1. MergePending(l.pending, q)[i] = l.pending[i]
      BY <2>2 DEF MergePending, LedgerType
    <3> QED
      BY <1>3, <3>1 DEF HonestLedger
  <2> QED
    BY <2>1, <2>2
<1>4. /\ Merge(l, q).packages = MergePackages(l.packages, q.body)
      /\ Merge(l, q).pending = MergePending(l.pending, q)
  BY DEF Merge
<1> HIDE DEF HonestLedger
<1> QED
  BY <1>2, <1>3, <1>4 DEF HonestLedger

\* The body decided for a transaction cites that transaction alone.
LEMMA DecideCites ==
  ASSUME TypeOK, NEW p \in Procs, Decide(p)
  PROVE  Cites(body'[p], {nextId})
<1> PICK up \in SUBSET Pkgs, gone \in SUBSET Pkgs, twice \in BOOLEAN :
      /\ up \cup gone # {} /\ up \cap gone = {}
      /\ \A x \in gone : seen[p].host[x] # Absent
      /\ again' = [again EXCEPT ![p] = twice]
      /\ \E ver \in [up -> Versions], asked \in Asked(up), seqs \in Accepted(p) :
         \E demoted \in SUBSET (up \ asked) :
           body' = [body EXCEPT ![p] = PlanBody(nextId, ver, asked, demoted, gone, seqs)]
  BY DEF Decide
<1> PICK ver \in [up -> Versions], asked \in Asked(up), seqs \in Accepted(p) :
      \E demoted \in SUBSET (up \ asked) :
        body' = [body EXCEPT ![p] = PlanBody(nextId, ver, asked, demoted, gone, seqs)]
  OBVIOUS
<1> PICK demoted \in SUBSET (up \ asked) :
        body' = [body EXCEPT ![p] = PlanBody(nextId, ver, asked, demoted, gone, seqs)]
  OBVIOUS
<1>1. body'[p] = PlanBody(nextId, ver, asked, demoted, gone, seqs)
  BY DEF TypeOK
<1>2. ASSUME NEW x \in Pkgs, PlanBody(nextId, ver, asked, demoted, gone, seqs).upsert[x] # Absent
      PROVE  PlanBody(nextId, ver, asked, demoted, gone, seqs).upsert[x].op = nextId
  BY <1>2 DEF PlanBody, EmptyBody
<1> QED
  BY <1>1, <1>2 DEF Cites

\* A repair cites only what the ledger it was computed from cites: it makes
\* up no evidence.
LEMMA RepairCites ==
  ASSUME NEW l \in LedgerType, NEW h \in HostType, NEW built, NEW asked, NEW kept,
         NEW stale, NEW S, HonestLedger(l, S),
         \A x \in kept : x \in Pkgs /\ l.packages[x] # Absent
  PROVE  Cites(RepairBody(l, h, built, asked, kept, stale), S)
<1> DEFINE ent(x) == IF x \in built
               THEN [ver |-> h[x].ver, op |-> 0, explicit |-> x \in asked]
               ELSE IF x \in kept
               THEN [l.packages[x] EXCEPT !.explicit = TRUE]
               ELSE Absent
<1>1. ASSUME NEW x \in Pkgs, ent(x) # Absent PROVE ent(x).op \in S \cup {0}
  <2>1. CASE x \in built
    BY <2>1
  <2>2. CASE x \notin built /\ x \in kept
    <3>1. l.packages[x] \in Entry
      BY <2>2 DEF LedgerType
    <3>2. [l.packages[x] EXCEPT !.explicit = TRUE].op = l.packages[x].op
      BY <3>1 DEF Entry
    <3> QED
      BY <2>2, <3>2 DEF HonestLedger
  <2> QED
    BY <1>1, <2>1, <2>2
<1> HIDE DEF ent
<1>2. RepairBody(l, h, built, asked, kept, stale).upsert = [x \in Pkgs |-> ent(x)]
  BY DEF RepairBody, EmptyBody, ent
<1> QED
  BY <1>1, <1>2 DEF Cites

-----------------------------------------------------------------------------
(* One step of one process.                                                *)

\* Processes keep to themselves.
Others(p) ==
  \A q \in Procs \ {p} :
    /\ pc'[q] = pc[q] /\ op'[q] = op[q] /\ body'[q] = body[q]
    /\ patch'[q] = patch[q] /\ after'[q] = after[q] /\ seen'[q] = seen[q]
    /\ todo'[q] = todo[q] /\ loaded'[q] = loaded[q]

\* What a step of p leaves alone of every other process.
LEMMA OthersStep ==
  ASSUME TypeOK, NEW p \in Procs, Step(p)
  PROVE  Others(p)
<1> USE DEF Others, TypeOK, Forget, Record, Unlock, Saved
<1>1. CASE Look(p)
  BY <1>1 DEF Look
<1>2. CASE Begin(p)
  <2>1. \A q \in Procs \ {p} : body'[q] = body[q]
    BY <1>2 DEF Begin, Decide
  <2> QED
    BY <1>2, <2>1 DEF Begin
<1>3. CASE Repair(p)
  BY <1>3 DEF Repair
<1>4. CASE RecordIndex(p)
  BY <1>4 DEF RecordIndex
<1>5. CASE Stop(p)
  BY <1>5 DEF Stop
<1>6. CASE LoadLedger(p)
  BY <1>6 DEF LoadLedger
<1>7. CASE SaveIntent(p)
  BY <1>7 DEF SaveIntent
<1>8. CASE SaveCompletion(p)
  BY <1>8 DEF SaveCompletion
<1>9. CASE SaveRelease(p)
  BY <1>9 DEF SaveRelease
<1>10. CASE SaveRestored(p)
  BY <1>10 DEF SaveRestored
<1>11. CASE SaveLast(p)
  BY <1>11 DEF SaveLast
<1>12. CASE SaveReportsError(p)
  BY <1>12 DEF SaveReportsError
<1>13. CASE ParentDies(p)
  BY <1>13 DEF ParentDies
<1>14. CASE PacmanSucceeds(p)
  BY <1>14 DEF PacmanSucceeds
<1>15. CASE PacmanFails(p)
  BY <1>15 DEF PacmanFails
<1>16. CASE Recover(p)
  BY <1>16 DEF Recover
<1>17. CASE RestoreNext(p)
  BY <1>17 DEF RestoreNext
<1>18. CASE Discard(p)
  BY <1>18 DEF Discard
<1> QED
  BY <1>1, <1>2, <1>3, <1>4, <1>5, <1>6, <1>7, <1>8, <1>9, <1>10, <1>11, <1>12,
     <1>13, <1>14, <1>15, <1>16, <1>17, <1>18 DEF Step

\* The file changes only when a patch is saved.
LEMMA Changes ==
  ASSUME NEW p \in Procs, Step(p)
  PROVE  \/ Saved(p)
         \/ PacmanSucceeds(p) /\ ledger' = ledger
         \/ ledger' = ledger /\ fact' = fact
<1>1. CASE Saved(p)
  BY <1>1
<1>2. CASE ~Saved(p)
  BY <1>2 DEF Step, Look, Begin, Repair, RecordIndex, Stop, LoadLedger, SaveIntent,
       SaveCompletion, SaveRelease, SaveRestored, SaveLast, SaveReportsError,
       ParentDies, PacmanSucceeds, PacmanFails, Recover, RestoreNext, Discard
<1> QED
  BY <1>1, <1>2

\* What really happened only grows, and grows by the transaction of p only.
FactGrows(p) ==
  /\ fact.journaled \subseteq fact'.journaled
  /\ fact.certified \subseteq fact'.certified
  /\ fact.discarded \subseteq fact'.discarded
  /\ fact.succeeded \subseteq fact'.succeeded
  /\ fact'.succeeded \subseteq fact.succeeded \cup {op[p]}
  /\ fact'.succeeded # fact.succeeded => pc[p] = "apply"
  /\ fact'.certified \subseteq fact'.succeeded
  /\ fact'.succeeded \subseteq fact'.journaled

\* What a saved patch says happened.
LEMMA SavedFact ==
  ASSUME Inductive, NEW p \in Procs, Saved(p)
  PROVE  /\ FactGrows(p)
         /\ fact'.succeeded = fact.succeeded
         /\ patch[p].entry # NoEntry /\ patch[p].entry.completed
              => patch[p].id \in fact'.certified
         /\ patch[p].entry # NoEntry /\ ~patch[p].entry.completed
              => patch[p].id \in fact'.journaled
         /\ patch[p].id # 0 /\ patch[p].entry = NoEntry /\ patch[p].body = EmptyBody
              => patch[p].id \in fact'.discarded
<1> DEFINE q == patch[p]
<1>1. /\ q.entry # NoEntry => q.id # 0
      /\ q.entry # NoEntry /\ q.entry.completed => q.id \in fact.succeeded
  BY DEF Inductive, HonestPatch, Recording, Saved
<1>2. fact' = Witnessed(fact, q)
  BY DEF Saved
<1>3. /\ fact.certified \subseteq fact.succeeded
      /\ fact.succeeded \subseteq fact.journaled
  BY DEF Inductive
<1> HIDE DEF q
<1>4. /\ fact'.succeeded = fact.succeeded
      /\ fact'.journaled = IF q.id # 0 /\ q.entry # NoEntry /\ ~q.entry.completed
                           THEN fact.journaled \cup {q.id} ELSE fact.journaled
      /\ fact'.certified = IF q.id # 0 /\ q.entry # NoEntry /\ q.entry.completed
                           THEN fact.certified \cup {q.id} ELSE fact.certified
      /\ fact'.discarded = IF q.id # 0 /\ q.entry = NoEntry /\ q.body = EmptyBody
                           THEN fact.discarded \cup {q.id} ELSE fact.discarded
  BY <1>2 DEF Witnessed
<1>5. FactGrows(p)
  BY <1>1, <1>3, <1>4 DEF FactGrows
<1> QED
  BY <1>1, <1>4, <1>5 DEF q

\* The history only grows, and keeps certified within succeeded within
\* journaled.
LEMMA FactStep ==
  ASSUME Inductive, NEW p \in Procs, Step(p)
  PROVE  FactGrows(p)
<1>0. /\ fact.certified \subseteq fact.succeeded
      /\ fact.succeeded \subseteq fact.journaled
  BY DEF Inductive
<1>1. CASE Saved(p)
  BY <1>1, SavedFact
<1>2. CASE PacmanSucceeds(p)
  <2>1. op[p] \in fact.journaled
    BY <1>2 DEF PacmanSucceeds, Inductive, Stage
  <2>2. pc[p] = "apply" /\ fact' = [fact EXCEPT !.succeeded = @ \cup {op[p]}]
    BY <1>2 DEF PacmanSucceeds
  <2>3. fact \in [journaled : SUBSET Ids, succeeded : SUBSET Ids, certified : SUBSET Ids,
                  discarded : SUBSET Ids, waived : SUBSET Pkgs]
    BY DEF Inductive, TypeOK
  <2> QED
    BY <1>0, <2>1, <2>2, <2>3 DEF FactGrows
<1>3. CASE fact' = fact
  BY <1>0, <1>3 DEF FactGrows
<1> QED
  BY <1>1, <1>2, <1>3, Changes

\* Every step leaves the ledger file honest.
LEMMA LedgerStep ==
  ASSUME Inductive, NEW p \in Procs, Step(p)
  PROVE  HonestLedger(ledger, fact.certified)'
<1>1. CASE Saved(p)
  <2>1. /\ loaded[p] = ledger /\ ledger' = Merge(ledger, patch[p])
    BY <1>1 DEF Saved, Inductive, LockProtects
  <2>2. /\ Cites(patch[p].body, fact.certified)
        /\ patch[p].entry # NoEntry => Cites(patch[p].entry.body, {patch[p].id})
    BY <1>1 DEF Saved, Inductive, HonestPatch, Recording
  <2>3. /\ patch[p].entry # NoEntry /\ patch[p].entry.completed
              => patch[p].id \in fact'.certified
        /\ fact.certified \subseteq fact'.certified
    BY <1>1, SavedFact DEF FactGrows
  <2>4. ledger \in LedgerType /\ patch[p] \in Patch /\ HonestLedger(ledger, fact.certified)
    BY DEF Inductive, TypeOK
  <2>5. HonestLedger(Merge(ledger, patch[p]), fact'.certified)
    BY <2>2, <2>3, <2>4, MergeHonest
  <2> QED
    BY <2>1, <2>5
<1>2. CASE ledger' = ledger
  <2>1. HonestLedger(ledger, fact'.certified)
    BY FactStep, HonestMore DEF Inductive, FactGrows
  <2> QED
    BY <1>2, <2>1
<1> QED
  BY <1>1, <1>2, Changes

\* Steps of p leave what the invariant says of another process q true.
LEMMA OtherProcess ==
  ASSUME Inductive, NEW p \in Procs, Step(p), NEW q \in Procs \ {p}
  PROVE  /\ HonestPatch(q)'
         /\ Stage(q)'
         /\ HonestLedger(seen[q].ledger, fact.certified)'
<1>1. /\ pc'[q] = pc[q] /\ op'[q] = op[q] /\ body'[q] = body[q]
      /\ patch'[q] = patch[q] /\ after'[q] = after[q] /\ seen'[q] = seen[q]
      /\ todo'[q] = todo[q]
  BY OthersStep DEF Inductive, Others
<1>2. FactGrows(p)
  BY FactStep
<1>3. HonestLedger(seen[q].ledger, fact.certified)'
  <2>1. HonestLedger(seen[q].ledger, fact'.certified)
    BY <1>2, HonestMore DEF Inductive, FactGrows
  <2> QED
    BY <1>1, <2>1
<1>4. HonestPatch(q)'
  <2>1. CASE Recording(q)
    <3>1. Cites(patch[q].body, fact'.certified)
      BY <1>2, <2>1, CitesMore DEF Inductive, HonestPatch, FactGrows
    <3> QED
      BY <1>1, <1>2, <2>1, <3>1 DEF Inductive, HonestPatch, FactGrows, Recording
  <2>2. CASE ~Recording(q)
    BY <1>1, <2>2 DEF HonestPatch, Recording
  <2> QED
    BY <2>1, <2>2
<1>5. Stage(q)'
  <2>1. Stage(q)
    BY DEF Inductive
  <2>2. Running(q) => op[q] # 0 /\ op[q] # op[p]
    BY DEF Inductive, Ownership
  <2>3. Running(q) => (op[q] \in fact'.succeeded <=> op[q] \in fact.succeeded)
    BY <1>2, <2>2 DEF FactGrows
  <2> QED
    BY <1>1, <1>2, <2>1, <2>3 DEF Stage, Running, Recording, FactGrows
<1> QED
  BY <1>3, <1>4, <1>5

\* What the invariant says of one process.
Own(p) ==
  /\ HonestPatch(p)
  /\ Stage(p)
  /\ HonestLedger(seen[p].ledger, fact.certified)

\* A process that stops has nothing to answer for.
LEMMA OwnForget ==
  ASSUME TypeOK, NEW p \in Procs, Forget(p)
  PROVE  Own(p)'
<1>1. pc'[p] = "idle" /\ todo'[p] = {} /\ seen'[p].ledger = EmptyLedger
  BY DEF Forget, TypeOK, Nothing
<1> QED
  BY <1>1, EmptyHonest DEF Own, HonestPatch, Stage, Recording, Running

\* Steps of p keep what the invariant says of p.
LEMMA OwnProcess ==
  ASSUME Inductive, NEW p \in Procs, Step(p)
  PROVE  Own(p)'
<1>1. TypeOK /\ HonestPatch(p) /\ Stage(p) /\ HonestLedger(seen[p].ledger, fact.certified)
  BY DEF Inductive
<1>2. FactGrows(p)
  BY FactStep
<1>3. HonestLedger(seen[p].ledger, fact'.certified)
  BY <1>1, <1>2, HonestMore DEF FactGrows
<1>4. HonestLedger(EmptyLedger, fact'.certified)
  BY EmptyHonest
<1>5. ASSUME NEW S PROVE Cites(EmptyBody, S)
  BY EmptyCites
<1>6. EmptyBody \in Body /\ NoEntry \notin Pending
  BY EmptyTypes, NoEntryIsNoPending
<1>7. CASE Look(p)
  <2>1. /\ pc'[p] = "looked" /\ todo'[p] = {} /\ seen'[p].ledger = ledger /\ fact' = fact
    BY <1>7, <1>1 DEF Look, TypeOK, Stage
  <2> QED
    BY <1>1, <2>1 DEF Own, HonestPatch, Stage, Recording, Running, Inductive
<1>8. CASE Begin(p)
  <2>1. /\ pc'[p] = "load" /\ after'[p] = "apply" /\ op'[p] = nextId /\ todo'[p] = {}
        /\ patch'[p] = Intent(nextId, body'[p], FALSE)
        /\ seen'[p].ledger = EmptyLedger /\ fact' = fact
    BY <1>8, <1>1 DEF Begin, Record, TypeOK, Nothing, Stage
  <2>2. Cites(body'[p], {nextId})
    BY <1>8, <1>1, DecideCites DEF Begin
  <2>3. nextId \notin fact.succeeded /\ nextId # 0
    BY <1>8, <1>1 DEF Inductive, Ownership, Begin, Ids, TypeOK
  <2>4. Stage(p)'
    BY <2>1, <2>2, <2>3 DEF Stage, Running, Recording
  <2>5. HonestPatch(p)'
    BY <1>5, <2>1, <2>2, <2>3 DEF HonestPatch, Recording, Intent
  <2> QED
    BY <1>4, <2>1, <2>4, <2>5 DEF Own
<1>9. ASSUME NEW b, Cites(b, fact.certified), pc[p] = "looked", fact' = fact,
             Record(p, [body |-> b, id |-> 0, entry |-> NoEntry], "idle"),
             seen' = [seen EXCEPT ![p] = Nothing], todo' = todo
      PROVE  Own(p)'
  <2>1. /\ pc'[p] = "load" /\ after'[p] = "idle" /\ todo'[p] = {}
        /\ patch'[p] = [body |-> b, id |-> 0, entry |-> NoEntry]
        /\ seen'[p].ledger = EmptyLedger
    BY <1>9, <1>1 DEF Record, TypeOK, Nothing, Stage
  <2> QED
    BY <1>4, <1>9, <2>1 DEF Own, HonestPatch, Stage, Recording, Running
<1>10. CASE Repair(p)
  <2> DEFINE l == seen[p].ledger
             h == seen[p].host
             known == {x \in Pkgs : l.packages[x] # Absent}
             there == {x \in Pkgs : h[x] # Absent}
  <2>1. PICK built \in SUBSET (there \ known), asked \in Asked(there \ known),
          kept \in SUBSET {x \in known \cap there : ~l.packages[x].explicit},
          stale \in SUBSET (known \ there) :
         /\ built \cup kept \cup stale # {}
         /\ Record(p, [body |-> RepairBody(l, h, built, asked, kept, stale),
                       id |-> 0, entry |-> NoEntry], "idle")
    BY <1>10 DEF Repair
  <2>2. l \in LedgerType /\ h \in HostType /\ HonestLedger(l, fact.certified)
    BY <1>1 DEF TypeOK
  <2>3. \A x \in kept : x \in Pkgs /\ l.packages[x] # Absent
    OBVIOUS
  <2> HIDE DEF l, h
  <2>4. Cites(RepairBody(l, h, built, asked, kept, stale), fact.certified)
    BY <2>2, <2>3, RepairCites
  <2> QED
    BY <1>9, <1>10, <2>1, <2>4 DEF Repair
<1>11. CASE RecordIndex(p)
  <2>1. PICK s \in Accepted(p) :
          Record(p, [body |-> [EmptyBody EXCEPT !.seqs = s],
                     id |-> 0, entry |-> NoEntry], "idle")
    BY <1>11 DEF RecordIndex
  <2>2. Cites([EmptyBody EXCEPT !.seqs = s], fact.certified)
    BY DEF Cites, EmptyBody
  <2> QED
    BY <1>9, <1>11, <2>1, <2>2 DEF RecordIndex
<1>12. CASE Stop(p)
  BY <1>12, <1>1, OwnForget DEF Stop
<1>13. CASE LoadLedger(p)
  <2>1. /\ pc[p] = "load" /\ pc'[p] = "save" /\ after' = after /\ todo' = todo /\ patch' = patch
        /\ seen' = seen /\ fact' = fact /\ op' = op /\ body' = body
    BY <1>13, <1>1 DEF LoadLedger, TypeOK
  <2> QED
    BY <1>1, <2>1 DEF Own, HonestPatch, Stage, Recording, Running
<1>14. CASE SaveIntent(p)
  <2>1. /\ pc[p] = "save" /\ after[p] = "apply" /\ pc'[p] = "apply"
        /\ todo' = todo /\ seen' = seen /\ op' = op /\ body' = body
    BY <1>14, <1>1 DEF SaveIntent, Saved, TypeOK
  <2>2. /\ patch[p] = Intent(op[p], body[p], FALSE) /\ op[p] \notin fact.succeeded
        /\ Cites(body[p], {op[p]})
    BY <1>1, <2>1 DEF Stage, Recording, Running
  <2>3. patch[p].entry # NoEntry /\ ~patch[p].entry.completed /\ patch[p].id = op[p]
    <3>1. body[p] \in Body
      BY <1>1 DEF TypeOK
    <3>2. /\ Intent(op[p], body[p], FALSE).entry # NoEntry
          /\ ~Intent(op[p], body[p], FALSE).entry.completed
          /\ Intent(op[p], body[p], FALSE).id = op[p]
      BY <3>1, IntentFields, Zenon
    <3> QED
      BY <2>2, <3>2, Zenon
  <2>4. op[p] \in fact'.journaled /\ op[p] \notin fact'.succeeded
    BY <1>14, <2>2, <2>3, SavedFact DEF SaveIntent
  <2>5. Stage(p)'
    BY <1>1, <2>1, <2>2, <2>4 DEF Stage, Running, Recording
  <2>6. HonestPatch(p)'
    BY <2>1 DEF HonestPatch, Recording
  <2> QED
    BY <1>3, <2>1, <2>5, <2>6 DEF Own
<1>15. CASE SaveCompletion(p)
  <2>1. /\ pc[p] = "save" /\ after[p] = "certify" /\ pc'[p] = "load" /\ after'[p] = "release"
        /\ todo' = todo /\ seen' = seen /\ op' = op /\ body' = body
        /\ patch'[p] = [body |-> body[p], id |-> op[p], entry |-> NoEntry]
    BY <1>15, <1>1 DEF SaveCompletion, Saved, Record, TypeOK
  <2>2. /\ patch[p] = Intent(op[p], body[p], TRUE) /\ Cites(body[p], {op[p]})
    BY <1>1, <2>1 DEF Stage, Recording, Running
  <2>3. patch[p].entry # NoEntry /\ patch[p].entry.completed /\ patch[p].id = op[p]
    <3>1. body[p] \in Body
      BY <1>1 DEF TypeOK
    <3>2. /\ Intent(op[p], body[p], TRUE).entry # NoEntry
          /\ Intent(op[p], body[p], TRUE).entry.completed
          /\ Intent(op[p], body[p], TRUE).id = op[p]
      BY <3>1, IntentFields, Zenon
    <3> QED
      BY <2>2, <3>2, Zenon
  <2>4. op[p] \in fact'.certified
    BY <1>15, <2>3, SavedFact DEF SaveCompletion
  <2>5. Stage(p)'
    BY <1>1, <2>1, <2>2, <2>4 DEF Stage, Running, Recording
  <2>6. Cites(body[p], fact'.certified)
    BY <2>2, <2>4, CitesMore
  <2>7. HonestPatch(p)'
    BY <2>1, <2>4, <2>6 DEF HonestPatch, Recording
  <2> QED
    BY <1>3, <2>1, <2>5, <2>7 DEF Own
<1>16. CASE SaveRelease(p)
  <2>1. PICK s \in Snapshots \cup {NoSnapshot} :
          Record(p, [body |-> [body[p] EXCEPT !.snapshot = s, !.demote = {}],
                     id |-> 0, entry |-> NoEntry], "idle")
    BY <1>16 DEF SaveRelease
  <2>2. /\ pc[p] = "save" /\ after[p] = "release" /\ pc'[p] = "load" /\ after'[p] = "idle"
        /\ todo' = todo /\ seen' = seen
        /\ patch'[p] = [body |-> [body[p] EXCEPT !.snapshot = s, !.demote = {}], id |-> 0, entry |-> NoEntry]
    BY <1>16, <1>1, <2>1 DEF SaveRelease, Saved, Record, TypeOK
  <2>3. /\ op[p] \in fact.certified /\ Cites(body[p], {op[p]})
    BY <1>1, <2>2 DEF Stage, Recording, Running
  <2>4. Cites(body[p], fact'.certified)
    BY <1>2, <2>3, CitesMore DEF FactGrows
  <2>5. [body[p] EXCEPT !.snapshot = s, !.demote = {}].upsert = body[p].upsert
    BY <1>1 DEF TypeOK, Body
  <2>6. Cites([body[p] EXCEPT !.snapshot = s, !.demote = {}], fact'.certified)
    BY <2>4, <2>5 DEF Cites
  <2>7. HonestPatch(p)'
    BY <2>2, <2>6 DEF HonestPatch, Recording
  <2>8. Stage(p)'
    BY <1>1, <2>2 DEF Stage, Running, Recording
  <2> QED
    BY <1>3, <2>2, <2>7, <2>8 DEF Own
<1>17. CASE SaveRestored(p)
  <2>1. /\ pc'[p] = "restore" /\ todo' = todo /\ seen' = seen
    BY <1>17, <1>1 DEF SaveRestored, TypeOK
  <2> QED
    BY <1>1, <1>3, <2>1 DEF Own, HonestPatch, Stage, Recording, Running
<1>18. CASE SaveLast(p)
  BY <1>18, <1>1, OwnForget DEF SaveLast
<1>19. CASE SaveReportsError(p)
  BY <1>19, <1>1, OwnForget DEF SaveReportsError
<1>20. CASE ParentDies(p)
  <2>1. /\ pc' = pc /\ after'[p] = "idle" /\ todo' = todo /\ patch' = patch
        /\ seen' = seen /\ fact' = fact /\ op' = op /\ body' = body
        /\ Recording(p)
    BY <1>20, <1>1 DEF ParentDies, TypeOK, Recording
  <2> QED
    BY <1>1, <2>1 DEF Own, HonestPatch, Stage, Recording, Running
<1>21. CASE PacmanSucceeds(p)
  <2>1. /\ pc[p] = "apply" /\ pc'[p] = "load" /\ after'[p] = "certify"
        /\ todo' = todo /\ seen' = seen /\ op' = op /\ body' = body
        /\ patch'[p] = Intent(op[p], body[p], TRUE)
        /\ op[p] \in fact'.succeeded
    BY <1>21, <1>1 DEF PacmanSucceeds, Record, TypeOK
  <2>2. Cites(body[p], {op[p]}) /\ op[p] # 0
    BY <1>1, <2>1 DEF Stage, Recording, Running, Inductive, Ownership
  <2>3. Stage(p)'
    BY <1>1, <2>1, <2>2 DEF Stage, Running, Recording
  <2>4. HonestPatch(p)'
    BY <1>5, <2>1, <2>2 DEF HonestPatch, Recording, Intent
  <2> QED
    BY <1>3, <2>1, <2>3, <2>4 DEF Own
<1>22. CASE PacmanFails(p)
  BY <1>22, <1>1, OwnForget DEF PacmanFails
<1>23. CASE Recover(p)
  <2>1. /\ pc'[p] = "restore" /\ seen' = seen /\ fact' = fact
        /\ todo'[p] \subseteq Restorable(seen[p].ledger, seen[p].host)
    BY <1>23, <1>1 DEF Recover, TypeOK
  <2>2. \A i \in todo'[p] : /\ seen[p].ledger.pending[i] # NoEntry
                            /\ seen[p].ledger.pending[i].completed
    BY <2>1 DEF Restorable
  <2> QED
    BY <1>1, <2>1, <2>2 DEF Own, HonestPatch, Stage, Recording, Running
<1>24. CASE RestoreNext(p)
  <2>1. PICK i \in todo[p] :
          /\ Record(p, [body |-> seen[p].ledger.pending[i].body,
                        id |-> i, entry |-> NoEntry], "restore")
          /\ todo' = [todo EXCEPT ![p] = @ \ {i}]
    BY <1>24 DEF RestoreNext
  <2>2. /\ pc'[p] = "load" /\ after'[p] = "restore" /\ seen' = seen /\ fact' = fact
        /\ todo'[p] \subseteq todo[p]
        /\ patch'[p] = [body |-> seen[p].ledger.pending[i].body, id |-> i, entry |-> NoEntry]
    BY <1>24, <1>1, <2>1 DEF RestoreNext, Record, TypeOK
  <2>3. /\ i \in Ids /\ seen[p].ledger.pending[i] # NoEntry
        /\ seen[p].ledger.pending[i].completed
    BY <1>1 DEF Stage, TypeOK
  <2>4. /\ i \in fact.certified /\ Cites(seen[p].ledger.pending[i].body, {i})
    BY <1>1, <2>3 DEF HonestLedger
  <2>5. Cites(seen[p].ledger.pending[i].body, fact.certified)
    BY <2>4, CitesMore
  <2>6. HonestPatch(p)'
    BY <2>2, <2>4, <2>5 DEF HonestPatch, Recording
  <2>7. Stage(p)'
    BY <1>1, <2>2 DEF Stage, Running, Recording
  <2> QED
    BY <1>3, <2>2, <2>6, <2>7 DEF Own
<1>25. CASE Discard(p)
  <2>1. PICK i \in Ids :
          Record(p, [body |-> EmptyBody, id |-> i, entry |-> NoEntry], "idle")
    BY <1>25 DEF Discard
  <2>2. /\ pc'[p] = "load" /\ after'[p] = "idle" /\ todo'[p] = {} /\ fact' = fact
        /\ patch'[p] = [body |-> EmptyBody, id |-> i, entry |-> NoEntry]
        /\ seen'[p].ledger = EmptyLedger
    BY <1>25, <1>1, <2>1 DEF Discard, Record, TypeOK, Nothing, Stage
  <2> QED
    BY <1>4, <1>5, <2>2 DEF Own, HonestPatch, Stage, Recording, Running
<1> QED
  BY <1>7, <1>8, <1>10, <1>11, <1>12, <1>13, <1>14, <1>15, <1>16, <1>17, <1>18, <1>19, <1>20,
     <1>21, <1>22, <1>23, <1>24, <1>25 DEF Step

\* The flock: whoever saves holds it, and nobody else changes the file.
LEMMA LockStep ==
  ASSUME Inductive, NEW p \in Procs, Step(p)
  PROVE  LockProtects'
<1>1. TypeOK /\ LockProtects /\ Nobody \notin Procs
  BY NobodyIsNoProc DEF Inductive
<1>2. Others(p)
  BY OthersStep DEF Inductive
<1>3. CASE pc[p] = "save"
  <2>1. lock = p /\ \A q \in Procs \ {p} : pc[q] # "save"
    BY <1>1, <1>3 DEF LockProtects
  <2>2. \/ lock' = Nobody /\ pc'[p] # "save"
        \/ lock' = p /\ pc'[p] = "save" /\ loaded' = loaded /\ ledger' = ledger
    BY <1>1, <1>3, <2>1 DEF Step, Look, Begin, Repair, RecordIndex, Stop, LoadLedger,
       SaveIntent, SaveCompletion, SaveRelease, SaveRestored, SaveLast, SaveReportsError,
       ParentDies, PacmanSucceeds, PacmanFails, Recover, RestoreNext, Discard,
       Record, Forget, Unlock, TypeOK
  <2> QED
    BY <1>1, <1>2, <1>3, <2>1, <2>2 DEF LockProtects, Others
<1>4. CASE pc[p] # "save"
  <2>1. lock # p
    BY <1>1, <1>4 DEF LockProtects
  <2>2. \/ lock' = lock /\ pc'[p] # "save" /\ ledger' = ledger
        \/ lock = Nobody /\ lock' = p /\ pc'[p] = "save"
           /\ loaded'[p] = ledger /\ ledger' = ledger
    BY <1>1, <1>4, <2>1 DEF Step, Look, Begin, Repair, RecordIndex, Stop, LoadLedger,
       SaveIntent, SaveCompletion, SaveRelease, SaveRestored, SaveLast, SaveReportsError,
       ParentDies, PacmanSucceeds, PacmanFails, Recover, RestoreNext, Discard,
       Record, Forget, Unlock, Saved, TypeOK
  <2> QED
    BY <1>1, <1>2, <1>4, <2>1, <2>2 DEF LockProtects, Others
<1> QED
  BY <1>3, <1>4

\* Journal ids: a new one for Begin, else kept or given up.
LEMMA OwnershipStep ==
  ASSUME Inductive, NEW p \in Procs, Step(p)
  PROVE  Ownership'
<1>1. TypeOK /\ Ownership /\ FactGrows(p) /\ Others(p)
  BY FactStep, OthersStep DEF Inductive
<1>2. \/ nextId' = nextId /\ op'[p] \in {0, op[p]}
      \/ nextId' = nextId + 1 /\ op'[p] = nextId /\ pc[p] = "looked" /\ nextId \in Ids
  BY <1>1 DEF Step, Look, Begin, Repair, RecordIndex, Stop, LoadLedger,
       SaveIntent, SaveCompletion, SaveRelease, SaveRestored, SaveLast, SaveReportsError,
       ParentDies, PacmanSucceeds, PacmanFails, Recover, RestoreNext, Discard,
       Forget, Saved, TypeOK
<1>3. nextId \in Nat /\ nextId' \in Nat /\ \A q \in Procs : op[q] \in Nat /\ op'[q] \in Nat
  BY <1>1, <1>2, BoundsAreNat DEF TypeOK, Ids, Others
<1>4. \A i \in fact'.succeeded : i < nextId'
  <2>1. \A i \in fact.succeeded : i \in Nat /\ i < nextId
    BY <1>1, BoundsAreNat DEF TypeOK, Ownership, Ids
  <2>2. fact'.succeeded # fact.succeeded => op[p] < nextId
    BY <1>1 DEF FactGrows, Ownership, Running
  <2> QED
    BY <1>1, <1>2, <1>3, <2>1, <2>2 DEF FactGrows
<1>5. \A q \in Procs : op'[q] # 0 => op'[q] < nextId'
  BY <1>1, <1>2, <1>3 DEF Ownership, Others
<1>6. \A q, r \in Procs : op'[q] # 0 /\ op'[q] = op'[r] => q = r
  BY <1>1, <1>2, <1>3 DEF Ownership, Others
<1>7. \A q \in Procs : Running(q)' => op'[q] # 0
  <2>1. ASSUME NEW q \in Procs \ {p}, Running(q)' PROVE op'[q] # 0
    BY <1>1, <2>1 DEF Ownership, Others, Running, Recording
  <2>2. ASSUME Running(p)' PROVE op'[p] # 0
    <3>1. CASE op'[p] = nextId /\ nextId \in Ids
      BY <3>1, BoundsAreNat DEF Ids
    <3>2. CASE ~(op'[p] = nextId /\ nextId \in Ids)
      <4>1. Running(p) /\ op'[p] = op[p]
        BY <1>1, <2>2, <3>2 DEF Step, Look, Begin, Repair, RecordIndex, Stop, LoadLedger,
          SaveIntent, SaveCompletion, SaveRelease, SaveRestored, SaveLast, SaveReportsError,
          ParentDies, PacmanSucceeds, PacmanFails, Recover, RestoreNext, Discard,
          Forget, Record, Saved, TypeOK, Running, Recording
      <4> QED
        BY <1>1, <4>1 DEF Ownership
    <3> QED
      BY <3>1, <3>2
  <2> QED
    BY <2>1, <2>2
<1> QED
  BY <1>4, <1>5, <1>6, <1>7 DEF Ownership

\* While pacman runs for q, its intent stays in the file: the patch of another
\* process drops only what is certified, or discards.
LEMMA WriteAheadStep ==
  ASSUME Inductive, NEW p \in Procs, Step(p)
  PROVE  WriteAhead'
<1>1. TypeOK /\ Ownership /\ WriteAhead /\ FactGrows(p) /\ Others(p) /\ TypeOK'
  BY FactStep, OthersStep, TypeStep DEF Inductive
<1>2. ASSUME NEW q \in Procs \ {p}, pc'[q] = "apply", op[q] \notin fact'.discarded
      PROVE  ledger'.pending[op[q]] = [completed |-> FALSE, body |-> body[q]]
  <2>1. pc[q] = "apply"
    BY <1>1, <1>2 DEF Others
  <2>2. ledger.pending[op[q]] = [completed |-> FALSE, body |-> body[q]]
    BY <1>1, <1>2, <2>1 DEF WriteAhead, FactGrows
  <2>3. op[q] # 0 /\ op[q] # op[p] /\ op[q] \in Ids
    BY <1>1, <2>1 DEF Ownership, Running, TypeOK
  <2>4. CASE Saved(p)
    <3>1. op[q] \notin fact'.certified
      <4>1. op[q] \notin fact.succeeded
        BY <2>1 DEF Inductive, Stage
      <4>2. fact'.succeeded = fact.succeeded
        BY <2>4, SavedFact
      <4> QED
        BY <1>1, <4>1, <4>2 DEF FactGrows
    <3>2. patch[p].id # op[q]
      <4>1. HonestPatch(p) /\ Recording(p)
        BY <2>4 DEF Inductive, Saved, Recording
      <4>2. CASE patch[p].entry # NoEntry
        BY <2>3, <4>1, <4>2 DEF HonestPatch
      <4>3. CASE patch[p].entry = NoEntry /\ patch[p].body = EmptyBody
        BY <1>2, <2>3, <2>4, <4>3, SavedFact
      <4>4. CASE patch[p].entry = NoEntry /\ patch[p].body # EmptyBody
        BY <1>1, <2>3, <3>1, <4>1, <4>4 DEF HonestPatch, FactGrows
      <4> QED
        BY <4>2, <4>3, <4>4
    <3>3. ledger' = Merge(ledger, patch[p])
      BY <2>4 DEF Inductive, LockProtects, Saved
    <3>4. ledger'.pending = MergePending(ledger.pending, patch[p])
      BY <3>3 DEF Merge
    <3>5. ledger'.pending[op[q]] = ledger.pending[op[q]]
      BY <1>1, <2>3, <3>2, <3>4 DEF MergePending, TypeOK, LedgerType
    <3> QED
      BY <2>2, <3>5
  <2>5. CASE ledger' = ledger
    BY <2>2, <2>5
  <2> QED
    BY <2>4, <2>5, Changes
<1>3. ASSUME pc'[p] = "apply"
      PROVE  ledger'.pending[op'[p]] = [completed |-> FALSE, body |-> body'[p]]
  <2>1. SaveIntent(p)
    BY <1>1, <1>3 DEF Step, Look, Begin, Repair, RecordIndex, Stop, LoadLedger,
       SaveCompletion, SaveRelease, SaveRestored, SaveLast, SaveReportsError,
       ParentDies, PacmanSucceeds, PacmanFails, Recover, RestoreNext, Discard,
       Forget, Record, Saved, TypeOK
  <2>2. /\ op' = op /\ body' = body /\ pc[p] = "save" /\ after[p] = "apply"
        /\ ledger' = Merge(ledger, patch[p])
    BY <2>1 DEF SaveIntent, Saved, Inductive, LockProtects
  <2>3. patch[p] = Intent(op[p], body[p], FALSE) /\ op[p] # 0 /\ op[p] \in Ids
    BY <1>1, <2>2 DEF Inductive, Stage, Recording, Ownership, Running, TypeOK
  <2>4. ledger'.pending = MergePending(ledger.pending, patch[p])
    BY <2>2 DEF Merge
  <2>5. patch[p].id = op[p] /\ patch[p].entry = [completed |-> FALSE, body |-> body[p]]
    BY <2>3 DEF Intent
  <2>6. ledger.pending \in [Ids -> Pending \cup {NoEntry}]
    BY <1>1 DEF TypeOK, LedgerType
  <2>7. ledger'.pending[op[p]] = patch[p].entry
    BY <2>3, <2>4, <2>5, <2>6 DEF MergePending
  <2> QED
    BY <2>2, <2>5, <2>7
<1> QED
  BY <1>1, <1>2, <1>3 DEF WriteAhead, Others

-----------------------------------------------------------------------------
(* The theorems.                                                           *)

\* The invariant holds when no command has run.
LEMMA InductiveInit ==
  Init => Inductive
<1> SUFFICES ASSUME Init PROVE Inductive
  OBVIOUS
<1>1. TypeOK
  <2>1. host \in HostType
    BY DEF Init, HostType, Installed
  <2>2. 1 \in 1 .. MaxTransactions + 1
    BY BoundsAreNat
  <2> QED
    BY <2>1, <2>2, EmptyTypes DEF Init, TypeOK, Phases, Continuations
<1>2. LockProtects
  BY NobodyIsNoProc DEF Init, LockProtects
<1>3. Ownership
  BY DEF Init, Ownership, Running, Recording
<1>4. \A p \in Procs : HonestPatch(p) /\ Stage(p)
  BY DEF Init, HonestPatch, Stage, Recording, Running
<1>5. /\ HonestLedger(ledger, fact.certified)
      /\ \A p \in Procs : HonestLedger(seen[p].ledger, fact.certified)
  BY EmptyHonest DEF Init, Nothing
<1>6. WriteAhead
  BY DEF Init, WriteAhead
<1> QED
  BY <1>1, <1>2, <1>3, <1>4, <1>5, <1>6 DEF Init, Inductive

\* Every step of every process keeps the invariant.
LEMMA InductiveStep ==
  Inductive /\ [Next]_vars => Inductive'
<1> SUFFICES ASSUME Inductive, [Next]_vars PROVE Inductive'
  OBVIOUS
<1>1. ASSUME NEW p \in Procs, Step(p) PROVE Inductive'
  <2>1. TypeOK'
    BY <1>1, TypeStep DEF Inductive
  <2>2. LockProtects' /\ Ownership' /\ WriteAhead' /\ HonestLedger(ledger, fact.certified)'
    BY <1>1, LockStep, OwnershipStep, WriteAheadStep, LedgerStep
  <2>3. FactGrows(p) /\ Own(p)'
    BY <1>1, FactStep, OwnProcess
  <2>4. \A q \in Procs : /\ HonestPatch(q)'
                         /\ Stage(q)'
                         /\ HonestLedger(seen[q].ledger, fact.certified)'
    BY <1>1, <2>3, OtherProcess DEF Own
  <2> QED
    BY <2>1, <2>2, <2>3, <2>4 DEF Inductive, FactGrows
<1>2. CASE UNCHANGED vars
  BY <1>2 DEF vars, Inductive, TypeOK, LockProtects, Ownership, HonestLedger,
     HonestPatch, Stage, WriteAhead, Recording, Running
<1> QED
  BY <1>1, <1>2 DEF Next

\* The inductive invariant of the journal: types, what the flock protects, who
\* owns which transaction, and what may cite which evidence.
THEOREM InductiveInvariant == Spec => []Inductive
BY InductiveInit, InductiveStep, PTL DEF Spec

\* Every variable of the journal keeps its type in every behaviour.
THEOREM TypeCorrect == Spec => []TypeOK
<1>1. Inductive => TypeOK
  BY DEF Inductive
<1> QED
  BY <1>1, InductiveInvariant, PTL

\* pacman never runs for a transaction whose intent is not on disk as it will
\* be carried out: journaled() records before it calls apply.
THEOREM WriteAheadHolds == Spec => []WriteAhead
<1>1. Inductive => WriteAhead
  BY DEF Inductive
<1> QED
  BY <1>1, InductiveInvariant, PTL

\* Evidence in the ledger is always that of a transaction whose success was
\* made durable after pacman reported it, with any number of processes dying
\* or failing anywhere: no merge and no `recover` manufactures provenance.
THEOREM EvidenceCertified == Spec => []EvidenceIsCertified
<1>1. Inductive => EvidenceIsCertified
  BY DEF Inductive, HonestLedger, EvidenceIsCertified, EvidenceOf
<1> QED
  BY <1>1, InductiveInvariant, PTL

\* Rollback protection holds in every behaviour: no merge, however late,
\* lowers the highest index sequence this machine has accepted.
THEOREM SequencesKept == Spec => SequencesNeverGoBack
<1> DEFINE Kept == \A r \in Repos : ledger'.seqs[r] >= ledger.seqs[r]
<1>1. Inductive /\ [Next]_vars => [Kept]_vars
  <2> SUFFICES ASSUME Inductive, NEW p \in Procs, Step(p) PROVE Kept
    BY DEF Next
  <2>1. CASE Saved(p)
    <3>1. ledger' = Merge(ledger, patch[p])
      BY <2>1 DEF Saved, Inductive, LockProtects
    <3>2. /\ ledger.seqs \in [Repos -> 0 .. MaxSeq]
          /\ patch[p].body.seqs \in [Repos -> 0 .. MaxSeq]
      BY DEF Inductive, TypeOK, LedgerType, Patch, Body
    <3> QED
      BY <3>1, <3>2, BoundsAreNat DEF Merge, Larger
  <2>2. CASE ledger' = ledger
    <3>1. ledger.seqs \in [Repos -> 0 .. MaxSeq]
      BY DEF Inductive, TypeOK, LedgerType
    <3> QED
      BY <2>2, <3>1, BoundsAreNat
  <2> QED
    BY <2>1, <2>2, Changes
<1> QED
  BY <1>1, InductiveInvariant, PTL DEF Spec, SequencesNeverGoBack

\* A merge makes an entry dependency-only just where the patch removes or
\* demotes the package: Ledger::merge keeps `explicit` otherwise.
LEMMA MergeKeepsExplicit ==
  ASSUME NEW pk \in [Pkgs -> Entry \cup {Absent}], NEW b \in Body, NEW x \in Pkgs,
         pk[x] # Absent, pk[x].explicit, x \notin b.remove, x \notin b.demote
  PROVE  MergePackages(pk, b)[x].explicit
<1>1. pk[x] \in Entry /\ b.upsert[x] \in Entry \cup {Absent}
  BY DEF Body
<1>2. MergePackages(pk, b)[x] = IF b.upsert[x] = Absent THEN pk[x]
                                ELSE [b.upsert[x] EXCEPT !.explicit = TRUE]
  BY DEF MergePackages, Preserving
<1> QED
  BY <1>1, <1>2 DEF Entry

\* A package the user asked for is never turned into a dependency by a merge
\* that does not say so, however many commands record at once.
THEOREM ExplicitKept == Spec => ExplicitIsKept
<1> DEFINE Lost(x) == /\ ledger.packages[x] # Absent /\ ledger.packages[x].explicit
                      /\ ledger'.packages[x] # Absent /\ ~ledger'.packages[x].explicit
           Kept == \A x \in Pkgs :
             Lost(x) => \E p \in Procs : x \in patch[p].body.demote \cup patch[p].body.remove
<1>1. Inductive /\ [Next]_vars => [Kept]_vars
  <2> SUFFICES ASSUME Inductive, NEW p \in Procs, Step(p), NEW x \in Pkgs, Lost(x)
               PROVE  x \in patch[p].body.demote \cup patch[p].body.remove
    BY DEF Next
  <2>1. CASE Saved(p)
    <3>1. ledger'.packages = MergePackages(ledger.packages, patch[p].body)
      BY <2>1 DEF Saved, Inductive, LockProtects, Merge
    <3>2. ledger.packages \in [Pkgs -> Entry \cup {Absent}] /\ patch[p].body \in Body
      BY DEF Inductive, TypeOK, LedgerType, Patch
    <3> QED
      BY <3>1, <3>2, MergeKeepsExplicit
  <2>2. CASE ledger' = ledger
    BY <2>2
  <2> QED
    BY <2>1, <2>2, Changes
<1> QED
  BY <1>1, InductiveInvariant, PTL DEF Spec, ExplicitIsKept

\* A merge of an empty body changes no entry.
LEMMA MergeEmpty ==
  ASSUME NEW pk \in [Pkgs -> Entry \cup {Absent}]
  PROVE  MergePackages(pk, EmptyBody) = pk
BY DEF MergePackages, EmptyBody

\* A merge shows evidence from before and from the patch only.
LEMMA MergeEvidence ==
  ASSUME NEW pk \in [Pkgs -> Entry \cup {Absent}], NEW b \in Body, NEW S, Cites(b, S)
  PROVE  EvidenceOf(MergePackages(pk, b)) \subseteq EvidenceOf(pk) \cup S
<1> SUFFICES ASSUME NEW x \in Pkgs, MergePackages(pk, b)[x] # Absent,
                    MergePackages(pk, b)[x].op # 0
             PROVE  MergePackages(pk, b)[x].op \in EvidenceOf(pk) \cup S
  BY DEF EvidenceOf
<1> QED
  BY MergePackagesOps DEF Cites, EvidenceOf

\* The journal does what RecordedFact promises: every step of every process
\* is a step of it or changes nothing it speaks of.
THEOREM JournalImplementsRecordedFact == Spec => ImplementsRecordedFact
<1>1. Init => Fact!Init
  <2>1. EvidenceOf(EmptyLedger.packages) = {}
    BY DEF EvidenceOf, EmptyLedger
  <2> QED
    BY <2>1 DEF Init, Fact!Init
<1>2. Inductive /\ [Next]_vars => [Fact!Next]_Fact!factVars
  <2> SUFFICES ASSUME Inductive, [Next]_vars PROVE [Fact!Next]_Fact!factVars
    OBVIOUS
  <2> USE DEF Fact!factVars
  <2>1. ASSUME NEW p \in Procs, Saved(p) PROVE [Fact!Next]_Fact!factVars
    <3> DEFINE q == patch[p]
    <3>1. /\ ledger.packages \in [Pkgs -> Entry \cup {Absent}] /\ q \in Patch
          /\ fact \in [journaled : SUBSET Ids, succeeded : SUBSET Ids,
                       certified : SUBSET Ids, discarded : SUBSET Ids,
                       waived : SUBSET Pkgs]
      BY DEF Inductive, TypeOK, LedgerType
    <3>2. ledger'.packages = MergePackages(ledger.packages, q.body)
      BY <2>1 DEF Saved, Inductive, LockProtects, Merge
    <3>3. fact' = Witnessed(fact, q)
      BY <2>1 DEF Saved
    <3>4. /\ q.entry # NoEntry => q.id \in Ids /\ q.body = EmptyBody
          /\ q.entry # NoEntry /\ q.entry.completed => q.id \in fact.succeeded
          /\ Cites(q.body, fact.certified)
      BY <2>1, <3>1 DEF Inductive, HonestPatch, Recording, Saved, Patch
    <3>5. q.body = EmptyBody => EvidenceOf(ledger'.packages) = EvidenceOf(ledger.packages)
      BY <3>1, <3>2, MergeEmpty
    <3>6. EvidenceOf(ledger'.packages) \subseteq EvidenceOf(ledger.packages) \cup fact.certified
      BY <3>1, <3>2, <3>4, MergeEvidence DEF Patch
    <3> HIDE DEF q
    <3>7. CASE q.id # 0 /\ q.entry # NoEntry /\ ~q.entry.completed
      <4>1. /\ fact'.journaled = fact.journaled \cup {q.id}
            /\ fact'.succeeded = fact.succeeded /\ fact'.certified = fact.certified
        BY <3>3, <3>7 DEF Witnessed
      <4> QED
        BY <3>4, <3>5, <3>7, <4>1 DEF Fact!Next, Fact!Intend
    <3>8. CASE q.id # 0 /\ q.entry # NoEntry /\ q.entry.completed
      <4>1. /\ fact'.certified = fact.certified \cup {q.id}
            /\ fact'.succeeded = fact.succeeded /\ fact'.journaled = fact.journaled
        BY <3>3, <3>8 DEF Witnessed
      <4> QED
        BY <3>4, <3>5, <3>8, <4>1 DEF Fact!Next, Fact!MakeDurable
    <3>9. CASE q.id = 0 \/ q.entry = NoEntry
      <4>1. /\ fact'.certified = fact.certified
            /\ fact'.succeeded = fact.succeeded /\ fact'.journaled = fact.journaled
        BY <3>3, <3>9 DEF Witnessed
      <4> QED
        BY <3>6, <4>1 DEF Fact!Next, Fact!Show
    <3> QED
      BY <3>7, <3>8, <3>9
  <2>2. ASSUME NEW p \in Procs, PacmanSucceeds(p), ledger' = ledger
        PROVE  [Fact!Next]_Fact!factVars
    <3>1. op[p] \in fact.journaled /\ op[p] \in Ids
      BY <2>2 DEF PacmanSucceeds, Inductive, Stage, TypeOK
    <3>2. /\ fact'.succeeded = fact.succeeded \cup {op[p]}
          /\ fact'.journaled = fact.journaled /\ fact'.certified = fact.certified
      BY <2>2 DEF PacmanSucceeds, Inductive, TypeOK
    <3> QED
      BY <2>2, <3>1, <3>2 DEF Fact!Next, Fact!Do
  <2>3. CASE ledger' = ledger /\ fact' = fact
    BY <2>3
  <2>4. CASE UNCHANGED vars
    BY <2>4 DEF vars
  <2> QED
    BY <2>1, <2>2, <2>3, <2>4, Changes DEF Next
<1> QED
  BY <1>1, <1>2, InductiveInvariant, PTL DEF Spec, ImplementsRecordedFact, Fact!Spec

\* What RecordedFact promises is founded: it shows evidence only of what is
\* known to have completed, completed, and was intended first.
LEMMA FactFounded == Fact!Spec => []Fact!Founded
<1>1. Fact!Init => Fact!Founded
  BY DEF Fact!Init, Fact!Founded
<1>2. Fact!Founded /\ [Fact!Next]_Fact!factVars => Fact!Founded'
  BY DEF Fact!Founded, Fact!Next, Fact!factVars, Fact!Intend, Fact!Do,
     Fact!MakeDurable, Fact!Show
<1> QED
  BY <1>1, <1>2, PTL DEF Fact!Spec

\* So the ledger file is founded in every behaviour: by refinement, not by a
\* second induction.
THEOREM LedgerFounded == Spec => []Fact!Founded
BY FactFounded, JournalImplementsRecordedFact, PTL DEF ImplementsRecordedFact

-----------------------------------------------------------------------------
(* What the journal, the commands and the patches under way say of one     *)
(* transaction is one thing.                                               *)

\* A body that puts no package that it removes.
Apart(b) == \A x \in b.remove : b.upsert[x] = Absent

\* Ledger l has a journal entry of transaction i, with body b.
Listed(l, i, b) == l.pending[i] # NoEntry /\ l.pending[i].body = b

\* Patch q journals or releases transaction i, with body b.
Carries(q, i, b) ==
  /\ q.id = i
  /\ b = IF q.entry = NoEntry THEN q.body ELSE q.entry.body
  /\ q.entry = NoEntry => q.body # EmptyBody

Says(p, i, b) ==
  \/ Listed(seen[p].ledger, i, b)
  \/ op[p] = i /\ body[p] = b
  \/ Recording(p) /\ Carries(patch[p], i, b)

Told(i, b) == Listed(ledger, i, b) \/ \E p \in Procs : Says(p, i, b)

\* Whoever speaks of a transaction means the same packages.
JournalIsConsistent ==
  \A i \in Ids, b \in Body :
    Told(i, b) => /\ i < nextId /\ Apart(b)
                  /\ \A c \in Body : Told(i, c) => c = b

\* The body of a plan installs nothing that it removes.
LEMMA DecideApart ==
  ASSUME TypeOK, NEW p \in Procs, nextId \in Ids, Decide(p)
  PROVE  Apart(body'[p])
<1> PICK up \in SUBSET Pkgs, gone \in SUBSET Pkgs, twice \in BOOLEAN :
      /\ up \cup gone # {} /\ up \cap gone = {}
      /\ \A x \in gone : seen[p].host[x] # Absent
      /\ again' = [again EXCEPT ![p] = twice]
      /\ \E ver \in [up -> Versions], asked \in Asked(up), seqs \in Accepted(p) :
         \E demoted \in SUBSET (up \ asked) :
           body' = [body EXCEPT ![p] = PlanBody(nextId, ver, asked, demoted, gone, seqs)]
  BY DEF Decide
<1> PICK ver \in [up -> Versions], asked \in Asked(up), seqs \in Accepted(p) :
      \E demoted \in SUBSET (up \ asked) :
        body' = [body EXCEPT ![p] = PlanBody(nextId, ver, asked, demoted, gone, seqs)]
  OBVIOUS
<1> PICK demoted \in SUBSET (up \ asked) :
        body' = [body EXCEPT ![p] = PlanBody(nextId, ver, asked, demoted, gone, seqs)]
  OBVIOUS
<1>1. body'[p] = PlanBody(nextId, ver, asked, demoted, gone, seqs)
  BY DEF TypeOK
<1>2. \A x \in gone : x \in Pkgs /\ x \notin DOMAIN ver
  OBVIOUS
<1> PICK f : f = [x \in Pkgs |-> IF x \in DOMAIN ver
                             THEN [ver |-> ver[x], op |-> nextId, explicit |-> x \in asked]
                             ELSE Absent]
  OBVIOUS
<1>3. body'[p] = [EmptyBody EXCEPT !.upsert = f, !.remove = gone, !.demote = demoted, !.seqs = seqs]
  BY <1>1 DEF PlanBody
<1>4. body'[p].upsert = f /\ body'[p].remove = gone
  BY <1>3 DEF EmptyBody
<1> QED BY <1>2, <1>4 DEF Apart

\* Nothing is listed in the ledger of a process that read none.
LEMMA NothingListed ==
  ASSUME NEW i \in Ids, NEW b
  PROVE  ~Listed(EmptyLedger, i, b) /\ ~Listed(Nothing.ledger, i, b)
BY DEF Listed, EmptyLedger, Nothing

\* What p says after a step it said before, or the ledger did, or it begins.
LEMMA SaysStep ==
  ASSUME Inductive, NEW p \in Procs, Step(p), NEW i \in Ids, NEW b \in Body, Says(p, i, b)'
  PROVE  \/ Told(i, b)
         \/ Begin(p) /\ i = nextId /\ b = body'[p]
<1>0. TypeOK /\ HonestPatch(p) /\ Stage(p) /\ i # 0
  BY DEF Inductive, Ids
<1>t. ASSUME Says(p, i, b) PROVE Told(i, b)
  BY <1>t DEF Told
<1>f. ASSUME Forget(p) PROVE FALSE
  <2>1. /\ pc'[p] = "idle" /\ op'[p] = 0 /\ seen'[p] = Nothing
    BY <1>f, <1>0 DEF Forget, TypeOK
  <2> QED BY <2>1, <1>0, NothingListed DEF Says, Recording
\* p only goes on.
<1>s. ASSUME UNCHANGED <<seen, op, body, patch>>, pc[p] \in {"load", "save"} \/ ~Recording(p)'
      PROVE  Told(i, b)
  BY <1>s, <1>t DEF Says, Recording
\* p hands a patch that speaks of no transaction.
<1>z. ASSUME seen'[p] \in {Nothing, seen[p]}, op'[p] \in {0, op[p]},
             op'[p] = op[p] => body'[p] = body[p],
             patch'[p].id = 0 \/ (patch'[p].entry = NoEntry /\ patch'[p].body = EmptyBody)
      PROVE  Told(i, b)
  BY <1>z, <1>0, <1>t, NothingListed DEF Says, Carries
<1>1. CASE Look(p)
  <2>1. /\ pc'[p] = "looked" /\ seen'[p].ledger = ledger /\ op'[p] = op[p] /\ body'[p] = body[p]
    BY <1>1, <1>0 DEF Look, TypeOK
  <2> QED BY <2>1 DEF Says, Recording, Told
<1>2. CASE Begin(p)
  <2>1. /\ op'[p] = nextId /\ seen'[p] = Nothing
        /\ patch'[p] = Intent(nextId, body'[p], FALSE)
    BY <1>2, <1>0 DEF Begin, Record, TypeOK
  <2>2. Carries(patch'[p], i, b) => i = nextId /\ b = body'[p]
    <3>1. body'[p] \in Body
      BY <1>2, <1>0, DecideType DEF Begin
    <3>2. Intent(nextId, body'[p], FALSE).entry # NoEntry
      BY <3>1, IntentFields
    <3> QED BY <2>1, <3>2 DEF Carries, Intent
  <2> QED BY <1>2, <2>1, <2>2, NothingListed DEF Says
<1>3. CASE Repair(p)
  <2>1. PICK c : Record(p, [body |-> c, id |-> 0, entry |-> NoEntry], "idle")
    BY <1>3 DEF Repair
  <2>2. patch'[p].id = 0
    BY <2>1, <1>0 DEF Record, TypeOK
  <2> QED BY <1>3, <2>2, <1>z, <1>0 DEF Repair, TypeOK
<1>4. CASE RecordIndex(p)
  <2>1. PICK c : Record(p, [body |-> c, id |-> 0, entry |-> NoEntry], "idle")
    BY <1>4 DEF RecordIndex
  <2>2. patch'[p].id = 0
    BY <2>1, <1>0 DEF Record, TypeOK
  <2> QED BY <1>4, <2>2, <1>z, <1>0 DEF RecordIndex, TypeOK
<1>5. CASE Stop(p) \/ SaveLast(p) \/ SaveReportsError(p) \/ PacmanFails(p)
  BY <1>5, <1>f DEF Stop, SaveLast, SaveReportsError, PacmanFails
<1>6. CASE LoadLedger(p)
  BY <1>6, <1>s DEF LoadLedger
<1>7. CASE SaveIntent(p)
  BY <1>7, <1>s, <1>0 DEF SaveIntent, Saved, Recording, TypeOK
<1>8. CASE SaveRestored(p)
  BY <1>8, <1>s, <1>0 DEF SaveRestored, Saved, Recording, TypeOK
<1>9. CASE ParentDies(p)
  BY <1>9, <1>s DEF ParentDies
<1>10. CASE Recover(p)
  BY <1>10, <1>s, <1>0 DEF Recover, Recording, TypeOK
<1>11. CASE SaveCompletion(p)
  <2>1. /\ patch'[p] = [body |-> body[p], id |-> op[p], entry |-> NoEntry]
        /\ seen' = seen /\ op' = op /\ body' = body
    BY <1>11, <1>0 DEF SaveCompletion, Record, TypeOK
  <2>2. Carries(patch'[p], i, b) => op[p] = i /\ body[p] = b
    BY <2>1 DEF Carries
  <2> QED BY <2>1, <2>2 DEF Says, Told
<1>12. CASE SaveRelease(p)
  <2>1. PICK c : Record(p, [body |-> c, id |-> 0, entry |-> NoEntry], "idle")
    BY <1>12 DEF SaveRelease
  <2>2. patch'[p].id = 0 /\ op'[p] = 0 /\ seen' = seen
    BY <1>12, <2>1, <1>0 DEF SaveRelease, Record, TypeOK
  <2> QED BY <2>2, <1>0, <1>t DEF Says, Carries
<1>13. CASE PacmanSucceeds(p)
  <2>1. /\ patch'[p] = Intent(op[p], body[p], TRUE)
        /\ seen' = seen /\ op' = op /\ body' = body
    BY <1>13, <1>0 DEF PacmanSucceeds, Record, TypeOK
  <2>2. Carries(patch'[p], i, b) => op[p] = i /\ body[p] = b
    <3>1. Intent(op[p], body[p], TRUE).entry # NoEntry
      BY <1>0, IntentFields DEF TypeOK
    <3> QED BY <2>1, <3>1 DEF Carries, Intent
  <2> QED BY <2>1, <2>2 DEF Says, Told
<1>14. CASE RestoreNext(p)
  <2>1. PICK j \in todo[p] :
          Record(p, [body |-> seen[p].ledger.pending[j].body, id |-> j, entry |-> NoEntry], "restore")
    BY <1>14 DEF RestoreNext
  <2>2. /\ patch'[p] = [body |-> seen[p].ledger.pending[j].body, id |-> j, entry |-> NoEntry]
        /\ seen' = seen /\ op' = op /\ body' = body
    BY <1>14, <2>1, <1>0 DEF RestoreNext, Record, TypeOK
  <2>3. Carries(patch'[p], i, b) => Listed(seen[p].ledger, i, b)
    BY <2>2, <1>0 DEF Carries, Listed, Stage
  <2> QED BY <2>2, <2>3 DEF Says, Told
<1>15. CASE Discard(p)
  <2>1. PICK j : Record(p, [body |-> EmptyBody, id |-> j, entry |-> NoEntry], "idle")
    BY <1>15 DEF Discard
  <2>2. patch'[p].entry = NoEntry /\ patch'[p].body = EmptyBody
    BY <2>1, <1>0 DEF Record, TypeOK
  <2> QED BY <1>15, <2>2, <1>z, <1>0 DEF Discard, TypeOK
<1> QED
  BY <1>1, <1>2, <1>3, <1>4, <1>5, <1>6, <1>7, <1>8, <1>9, <1>10, <1>11, <1>12,
     <1>13, <1>14, <1>15 DEF Step

\* What is told after a step was told before, or is what p begins.
LEMMA ToldStep ==
  ASSUME Inductive, NEW p \in Procs, Step(p), NEW i \in Ids, NEW b \in Body, Told(i, b)'
  PROVE  \/ Told(i, b)
         \/ Begin(p) /\ i = nextId /\ b = body'[p]
<1>1. CASE Says(p, i, b)'
  BY <1>1, SaysStep
<1>2. ASSUME NEW q \in Procs \ {p}, Says(q, i, b)' PROVE Told(i, b)
  <2>1. Others(p)
    BY OthersStep DEF Inductive
  <2>2. Says(q, i, b)
    BY <1>2, <2>1 DEF Others, Says, Recording
  <2> QED BY <2>2 DEF Told
<1>3. CASE Listed(ledger', i, b)
  <2>1. CASE ledger' = ledger
    BY <1>3, <2>1 DEF Told
  <2>2. CASE Saved(p)
    <3>1. ledger'.pending = MergePending(ledger.pending, patch[p])
      BY <2>2 DEF Saved, Inductive, LockProtects, Merge
    <3>2. ledger.pending \in [Ids -> Pending \cup {NoEntry}]
      BY DEF Inductive, TypeOK, LedgerType
    <3>3. CASE ledger'.pending[i] = ledger.pending[i]
      BY <1>3, <3>3 DEF Listed, Told
    <3>4. CASE patch[p].id = i /\ ledger'.pending[i] = patch[p].entry
      <4>1. Carries(patch[p], i, b) /\ Recording(p)
        BY <1>3, <2>2, <3>4 DEF Listed, Carries, Saved, Recording
      <4> QED BY <4>1 DEF Told, Says
    <3> QED BY <3>1, <3>2, <3>3, <3>4 DEF MergePending
  <2> QED BY <2>1, <2>2, Changes
<1> QED BY <1>1, <1>2, <1>3 DEF Told

\* Every step keeps the journal consistent.
LEMMA ConsistentStep ==
  Inductive /\ JournalIsConsistent /\ [Next]_vars => JournalIsConsistent'
<1> SUFFICES ASSUME Inductive, JournalIsConsistent, [Next]_vars PROVE JournalIsConsistent'
  OBVIOUS
<1>1. ASSUME NEW p \in Procs, Step(p) PROVE JournalIsConsistent'
  <2>0. nextId \in Nat /\ nextId' \in Nat /\ nextId' >= nextId
    <3>1. nextId' \in {nextId, nextId + 1}
      BY <1>1 DEF Step, Look, Begin, Repair, RecordIndex, Stop, LoadLedger, SaveIntent,
           SaveCompletion, SaveRelease, SaveRestored, SaveLast, SaveReportsError, Saved,
           ParentDies, PacmanSucceeds, PacmanFails, Recover, RestoreNext, Discard
    <3> QED BY <3>1 DEF Inductive, TypeOK
  <2>1. SUFFICES ASSUME NEW i \in Ids, NEW b \in Body, Told(i, b)'
                 PROVE  /\ i < nextId' /\ Apart(b)
                        /\ \A c \in Body : Told(i, c)' => c = b
    BY DEF JournalIsConsistent
  <2>i. i \in Nat
    BY DEF Ids
  <2>2. CASE Begin(p) /\ i = nextId
    <3>1. \A c \in Body : ~Told(i, c)
      BY <2>0, <2>2 DEF JournalIsConsistent
    <3>2. \A c \in Body : Told(i, c)' => c = body'[p]
      BY <1>1, <3>1, ToldStep
    <3>3. nextId' = nextId + 1 /\ Apart(body'[p])
      BY <2>2, DecideApart DEF Begin, Inductive
    <3> QED BY <2>0, <2>1, <2>2, <3>2, <3>3
  <2>3. CASE ~(Begin(p) /\ i = nextId)
    <3>1. \A c \in Body : Told(i, c)' => Told(i, c)
      BY <1>1, <2>3, ToldStep
    <3> QED BY <2>0, <2>1, <2>i, <3>1 DEF JournalIsConsistent
  <2> QED BY <2>2, <2>3
<1>2. CASE UNCHANGED vars
  BY <1>2 DEF vars, JournalIsConsistent, Told, Says, Recording
<1> QED BY <1>1, <1>2 DEF Next

\* The journal is consistent in every behaviour.
LEMMA ConsistentHolds == Spec => [](Inductive /\ JournalIsConsistent)
<1>1. Init => JournalIsConsistent
  BY NothingListed DEF Init, JournalIsConsistent, Told, Says, Recording, Ids
<1> QED BY <1>1, InductiveInit, InductiveStep, ConsistentStep, PTL DEF Spec

\* What a merge makes of one entry.
LEMMA MergeEntry ==
  ASSUME NEW pk \in [Pkgs -> Entry \cup {Absent}], NEW b \in Body, NEW x \in Pkgs,
         NEW e, e = MergePackages(pk, b)[x]
  PROVE  /\ b.upsert[x] # Absent =>
              e # Absent /\ e.ver = b.upsert[x].ver /\ e.op = b.upsert[x].op
         /\ b.upsert[x] = Absent /\ x \in b.remove => e = Absent
         /\ b.upsert[x] = Absent /\ x \notin b.remove =>
              IF pk[x] = Absent THEN e = Absent ELSE e # Absent /\ e.ver = pk[x].ver
<1> DEFINE kept == IF x \in b.remove THEN Absent ELSE pk[x]
           put == IF b.upsert[x] = Absent THEN kept
                  ELSE Preserving(kept, b.upsert[x])
<1>1. e = IF x \in b.demote /\ put # Absent THEN [put EXCEPT !.explicit = FALSE] ELSE put
  BY DEF MergePackages
<1>2. b.upsert[x] \in Entry \cup {Absent} /\ pk[x] \in Entry \cup {Absent}
  BY DEF Body
<1>3. put \in Entry \cup {Absent}
  BY <1>2 DEF Preserving, Entry
<1>4. put # Absent => /\ [put EXCEPT !.explicit = FALSE] \in Entry
                      /\ [put EXCEPT !.explicit = FALSE].ver = put.ver
                      /\ [put EXCEPT !.explicit = FALSE].op = put.op
  <2> HIDE DEF put
  <2> QED BY <1>3 DEF Entry
<1>5. b.upsert[x] # Absent =>
        put \in Entry /\ put.ver = b.upsert[x].ver /\ put.op = b.upsert[x].op
  BY <1>2 DEF Preserving, Entry
<1>6. b.upsert[x] = Absent => put = kept
  OBVIOUS
<1> HIDE DEF put
<1>7. put # Absent => e # Absent /\ e.ver = put.ver /\ e.op = put.op
  BY <1>1, <1>4, AbsentIsNoEntry
<1>8. put = Absent => e = Absent
  BY <1>1
<1> QED BY <1>2, <1>5, <1>6, <1>7, <1>8, AbsentIsNoEntry

\* Merging a patch that removes nothing it installs leaves all of it done.
LEMMA MergeReleases ==
  ASSUME NEW l \in LedgerType, NEW q \in Patch, Apart(q.body)
  PROVE  Released(q.body, Merge(l, q))
<1> PICK m : m = Merge(l, q)
  OBVIOUS
<1>1. l.packages \in [Pkgs -> Entry \cup {Absent}] /\ q.body \in Body
  BY DEF LedgerType, Patch
<1>2. m.packages = MergePackages(l.packages, q.body)
  BY DEF Merge
<1>3. \A x \in Pkgs : q.body.upsert[x] # Absent =>
        /\ m.packages[x] # Absent
        /\ m.packages[x].op = q.body.upsert[x].op
        /\ m.packages[x].ver = q.body.upsert[x].ver
  BY <1>1, <1>2, MergeEntry
<1>4. \A x \in q.body.remove : m.packages[x] = Absent
  <2>1. q.body.remove \subseteq Pkgs
    BY <1>1 DEF Body
  <2> QED BY <1>1, <1>2, <2>1, MergeEntry DEF Apart
<1>5. \A r \in Repos : m.seqs[r] >= q.body.seqs[r]
  <2>1. \A r \in Repos : m.seqs[r] = Larger(l.seqs[r], q.body.seqs[r])
    BY DEF Merge
  <2>2. \A r \in Repos : l.seqs[r] \in 0 .. MaxSeq /\ q.body.seqs[r] \in 0 .. MaxSeq
    BY <1>1 DEF LedgerType, Body
  <2> QED BY <2>1, <2>2, BoundsAreNat DEF Larger
<1> QED BY <1>3, <1>4, <1>5 DEF Released

\* A journal entry leaves the ledger by the rename that merges its patch, or
\* because a user discarded it, however many commands release, restore and
\* discard at once (transaction.rs release, cli/recover.rs).
THEOREM JournalLeaves == Spec => JournalLeavesWithItsPatch
<1> DEFINE Leaves == \A i \in Ids :
             (ledger.pending[i] # NoEntry /\ ledger'.pending[i] = NoEntry) =>
               \/ i \in fact'.discarded
               \/ Released(ledger.pending[i].body, ledger')
<1>1. Inductive /\ JournalIsConsistent /\ [Next]_vars => [Leaves]_vars
  <2> SUFFICES ASSUME Inductive, JournalIsConsistent, NEW p \in Procs, Step(p), NEW i \in Ids,
                      ledger.pending[i] # NoEntry, ledger'.pending[i] = NoEntry,
                      i \notin fact'.discarded
               PROVE  Released(ledger.pending[i].body, ledger')
    BY DEF Next
  <2>1. Saved(p)
    BY Changes
  <2> PICK q \in Patch : q = patch[p]
    BY DEF Inductive, TypeOK
  <2>2. ledger' = Merge(ledger, q) /\ Recording(p)
    BY <2>1 DEF Saved, Inductive, LockProtects, Recording
  <2>3. ledger.pending \in [Ids -> Pending \cup {NoEntry}] /\ ledger \in LedgerType
    BY DEF Inductive, TypeOK, LedgerType
  <2>4. q.id = i /\ q.entry = NoEntry
    BY <2>2, <2>3 DEF Merge, MergePending
  <2>5. q.body # EmptyBody
    BY <2>1, <2>4, SavedFact DEF Ids
  <2>6. Told(i, q.body) /\ Told(i, ledger.pending[i].body)
    BY <2>2, <2>4, <2>5 DEF Told, Says, Carries, Listed
  <2>7. q.body \in Body /\ ledger.pending[i].body \in Body
    BY <2>3 DEF Patch, Pending
  <2>8. ledger.pending[i].body = q.body /\ Apart(q.body)
    BY <2>6, <2>7 DEF JournalIsConsistent
  <2> QED BY <2>2, <2>3, <2>8, MergeReleases
<1> QED BY <1>1, ConsistentHolds, PTL DEF Spec, JournalLeavesWithItsPatch

-----------------------------------------------------------------------------
(* No change is lost.                                                      *)

\* One command at a time.
OneProcess == \A p, q \in Procs : p = q

\* Entry e says what is on the host, by version.
Shows(e, h) == IF e = Absent THEN h = Absent \/ h.op = 0 ELSE h # Absent /\ h.ver = e.ver

\* What the patch q would put of package x is what the host has, or what the
\* ledger says already; what it drops is gone.
Fits(q, l, h) ==
  \A x \in Pkgs :
    /\ q.body.upsert[x] # Absent =>
         \/ h[x] # Absent /\ h[x].ver = q.body.upsert[x].ver
         \/ /\ q.id = 0
            /\ l.packages[x] # Absent /\ l.packages[x].ver = q.body.upsert[x].ver
    /\ x \in q.body.remove => h[x] = Absent

\* What the only process knows in each phase.
Informed(p) ==
  /\ pc[p] = "looked" => seen[p] = [ledger |-> ledger, host |-> host]
  /\ Running(p) /\ (pc[p] = "apply" \/ after[p] = "apply") => op[p] \notin fact.discarded
  /\ Recording(p) => Fits(patch[p], ledger, host) /\ patch[p].id < nextId
  /\ Recording(p) /\ after[p] \in {"certify", "release"} => Matches(host, body[p])
  /\ Running(p) => todo[p] = {}
  /\ \A i \in todo[p] : Matches(host, seen[p].ledger.pending[i].body)

\* DifferencesAreJournaled is inductive only with what the command under way
\* knows of the host, and with transactions that were discarded being old ones.
HostInvariant ==
  /\ DifferencesAreJournaled
  /\ \A i \in fact.discarded : i < nextId
  /\ \A p \in Procs : Informed(p)

\* A merge leaves what patch q touches right, and the rest as right as it was.
LEMMA MergeShows ==
  ASSUME NEW l \in LedgerType, NEW q \in Patch, NEW h \in HostType, Fits(q, l, h),
         NEW m, m = MergePackages(l.packages, q.body), NEW x \in Pkgs
  PROVE  /\ x \in Touched(q.body) /\ q.id # 0 => Shows(m[x], h[x])
         /\ Shows(l.packages[x], h[x]) => Shows(m[x], h[x])
<1>1. l.packages \in [Pkgs -> Entry \cup {Absent}] /\ q.body \in Body
  BY DEF LedgerType, Patch
<1> PICK e : e = m[x]
  OBVIOUS
<1>2. /\ q.body.upsert[x] # Absent =>
           e # Absent /\ e.ver = q.body.upsert[x].ver /\ e.op = q.body.upsert[x].op
      /\ q.body.upsert[x] = Absent /\ x \in q.body.remove => e = Absent
      /\ q.body.upsert[x] = Absent /\ x \notin q.body.remove =>
           IF l.packages[x] = Absent THEN e = Absent ELSE e # Absent /\ e.ver = l.packages[x].ver
  BY <1>1, MergeEntry
<1> QED BY <1>2 DEF Fits, Shows, Touched

\* Saving the patch of the only process loses no change.
LEMMA SavedKeeps ==
  ASSUME OneProcess, Inductive, JournalIsConsistent, HostInvariant, NEW p \in Procs, Saved(p)
  PROVE  DifferencesAreJournaled' /\ \A i \in fact'.discarded : i < nextId'
<1> PICK q \in Patch : q = patch[p]
  BY DEF Inductive, TypeOK
<1>1. /\ ledger' = Merge(ledger, q) /\ fact' = Witnessed(fact, q)
      /\ host' = host /\ nextId' = nextId /\ Recording(p)
  BY DEF Saved, Inductive, LockProtects, Recording
<1>2. /\ ledger \in LedgerType /\ host \in HostType
      /\ ledger.pending \in [Ids -> Pending \cup {NoEntry}]
      /\ Fits(q, ledger, host) /\ q.id < nextId
      /\ q.entry # NoEntry => q.id # 0 /\ q.body = EmptyBody
  BY <1>1 DEF Inductive, TypeOK, LedgerType, HostInvariant, Informed, HonestPatch
<1>f. /\ fact'.discarded = IF q.id # 0 /\ q.entry = NoEntry /\ q.body = EmptyBody
                           THEN fact.discarded \cup {q.id} ELSE fact.discarded
      /\ fact'.waived = IF q.id # 0 /\ q.entry = NoEntry /\ q.body # EmptyBody
                        THEN fact.waived \ Touched(q.body)
                        ELSE fact.waived \cup
                             (IF q.id # 0 /\ q.entry = NoEntry /\ q.body = EmptyBody
                                 /\ ledger.pending[q.id] # NoEntry
                              THEN Touched(ledger.pending[q.id].body) ELSE {})
  BY <1>1 DEF Witnessed
<1>3. \A i \in fact'.discarded : i < nextId'
  BY <1>1, <1>2, <1>f DEF HostInvariant
<1>4. ASSUME NEW x \in Pkgs PROVE Agrees(x)' \/ Covered(x)' \/ x \in fact'.waived
  <2> PICK m : m = MergePackages(ledger.packages, q.body)
    OBVIOUS
  <2>1. ledger'.packages = m /\ ledger'.pending = MergePending(ledger.pending, q)
    BY <1>1 DEF Merge
  <2>2. /\ x \in Touched(q.body) /\ q.id # 0 => Shows(m[x], host[x])
        /\ Shows(ledger.packages[x], host[x]) => Shows(m[x], host[x])
    BY <1>2, MergeShows
  <2>3. Shows(m[x], host[x]) => Agrees(x)'
    BY <1>1, <2>1 DEF Shows, Agrees
  <2>4. CASE Agrees(x)
    BY <2>2, <2>3, <2>4 DEF Agrees, Shows
  <2>5. CASE x \in Touched(q.body) /\ q.id # 0
    BY <2>2, <2>3, <2>5
  <2>6. CASE x \in fact.waived /\ ~(x \in Touched(q.body) /\ q.id # 0)
    BY <2>6, <1>f
  <2>7. CASE Covered(x) /\ ~(x \in Touched(q.body) /\ q.id # 0)
    <3> PICK i \in Ids : ledger.pending[i] # NoEntry /\ x \in Touched(ledger.pending[i].body)
      BY <2>7 DEF Covered
    <3>1. CASE q.id # i
      <4>1. ledger'.pending[i] = ledger.pending[i]
        BY <1>2, <2>1, <3>1 DEF MergePending
      <4> QED BY <4>1 DEF Covered
    <3>2. CASE q.id = i
      <4>0. i # 0
        BY DEF Ids
      <4>1. ledger'.pending[i] = q.entry
        BY <1>2, <2>1, <3>2, <4>0 DEF MergePending
      <4>2. ledger.pending[i].body \in Body /\ Told(i, ledger.pending[i].body)
        BY <1>2 DEF Pending, Told, Listed
      <4>3. ASSUME NEW b \in Body, Carries(q, i, b) PROVE b = ledger.pending[i].body
        <5>1. Told(i, b)
          BY <1>1, <4>3 DEF Told, Says
        <5> QED BY <5>1, <4>2 DEF JournalIsConsistent
      <4>4. CASE q.entry # NoEntry
        <5>1. q.entry.body \in Body
          BY <4>4 DEF Patch, Pending
        <5>2. q.entry.body = ledger.pending[i].body
          BY <3>2, <4>3, <4>4, <5>1 DEF Carries
        <5> QED BY <4>1, <4>4, <5>2 DEF Covered
      <4>5. CASE q.entry = NoEntry /\ q.body # EmptyBody
        <5>1. q.body = ledger.pending[i].body
          BY <3>2, <4>3, <4>5 DEF Carries, Patch
        <5> QED BY <5>1, <2>7, <3>2, <4>0
      <4>6. CASE q.entry = NoEntry /\ q.body = EmptyBody
        BY <1>f, <3>2, <4>0, <4>6
      <4> QED BY <4>4, <4>5, <4>6
    <3> QED BY <3>1, <3>2
  <2> QED BY <2>4, <2>5, <2>6, <2>7 DEF HostInvariant, DifferencesAreJournaled
<1> QED BY <1>3, <1>4 DEF DifferencesAreJournaled

\* pacman changes only what the journal covers.
LEMMA PacmanKeeps ==
  ASSUME Inductive, JournalIsConsistent, HostInvariant, NEW p \in Procs,
         PacmanSucceeds(p) \/ PacmanFails(p)
  PROVE  /\ DifferencesAreJournaled'
         /\ fact'.discarded = fact.discarded
         /\ PacmanSucceeds(p) => Matches(host', body[p])
<1>1. /\ pc[p] = "apply" /\ ledger' = ledger /\ op[p] \in Ids /\ body[p] \in Body
      /\ \E done : host' = Applied(host, body[p], op[p], done)
  BY DEF PacmanSucceeds, PacmanFails, Inductive, TypeOK, Ownership, Running
<1> PICK done : host' = Applied(host, body[p], op[p], done)
  BY <1>1
<1>f. fact'.discarded = fact.discarded /\ fact'.waived = fact.waived
  BY DEF PacmanSucceeds, PacmanFails, Inductive, TypeOK
<1>2. ledger.pending[op[p]] = [completed |-> FALSE, body |-> body[p]]
  BY <1>1 DEF HostInvariant, Informed, Running, Inductive, WriteAhead
<1>3. Intent(op[p], body[p], FALSE).entry # NoEntry
  BY <1>1, IntentFields
<1>4. \A x \in Pkgs : x \in Touched(body[p]) => Covered(x)'
  BY <1>1, <1>2, <1>3 DEF Covered, Intent
<1>5. ASSUME NEW x \in Pkgs PROVE Agrees(x)' \/ Covered(x)' \/ x \in fact'.waived
  <2>1. CASE x \in Touched(body[p])
    BY <2>1, <1>4
  <2>2. CASE x \notin Touched(body[p])
    <3>1. host'[x] = host[x]
      BY <2>2 DEF Applied, Touched
    <3>2. Agrees(x) => Agrees(x)'
      BY <1>1, <3>1 DEF Agrees
    <3>3. Covered(x) => Covered(x)'
      BY <1>1 DEF Covered
    <3> QED BY <1>f, <3>2, <3>3 DEF HostInvariant, DifferencesAreJournaled
  <2> QED BY <2>1, <2>2
<1>6. ASSUME PacmanSucceeds(p) PROVE Matches(host', body[p])
  <2>1. Apart(body[p])
    <3>1. Told(op[p], body[p])
      BY DEF Told, Says
    <3> QED BY <1>1, <3>1 DEF JournalIsConsistent
  <2>2. host' = Applied(host, body[p], op[p], Pkgs)
    BY <1>6 DEF PacmanSucceeds
  <2> SUFFICES ASSUME NEW x \in Pkgs
               PROVE  /\ body[p].upsert[x] # Absent =>
                           host'[x] # Absent /\ host'[x].ver = body[p].upsert[x].ver
                      /\ x \in body[p].remove => host'[x] = Absent
    BY DEF Matches
  <2> PICK b \in Body : b = body[p]
    BY <1>1
  <2>3. host'[x] = IF b.upsert[x] # Absent THEN [ver |-> b.upsert[x].ver, op |-> op[p]]
                   ELSE IF x \in b.remove THEN Absent ELSE host[x]
    BY <2>2 DEF Applied
  <2>4. b.upsert[x] # Absent => host'[x] # Absent
    <3> SUFFICES ASSUME b.upsert[x] # Absent
                 PROVE  [ver |-> b.upsert[x].ver, op |-> op[p]] # Absent
      BY <2>3
    <3>1. b.upsert[x] \in Entry
      BY DEF Body
    <3>2. [ver |-> b.upsert[x].ver, op |-> op[p]] \in Installed
      BY <3>1, <1>1 DEF Entry, Installed
    <3> QED BY <3>2, AbsentIsNotInstalled
  <2> QED BY <2>1, <2>3, <2>4 DEF Apart
<1> QED BY <1>f, <1>5, <1>6 DEF DifferencesAreJournaled

\* The only process keeps what it knows of the host.
LEMMA InformedStep ==
  ASSUME OneProcess, Inductive, JournalIsConsistent, HostInvariant, NEW p \in Procs, Step(p)
  PROVE  Informed(p)'
<1>0. TypeOK /\ Stage(p) /\ Informed(p) /\ HonestPatch(p)
  BY DEF Inductive, HostInvariant
<1>n. nextId \in Nat /\ nextId # 0 /\ \A i \in fact.discarded : i < nextId
  BY <1>0, BoundsAreNat DEF TypeOK, HostInvariant
<1> PICK d : d = fact.discarded
  OBVIOUS
\* Where p stops.
<1>f. ASSUME Forget(p) PROVE Informed(p)'
  <2>1. pc'[p] = "idle" /\ todo'[p] = {}
    BY <1>f, <1>0 DEF Forget, TypeOK
  <2> QED BY <2>1 DEF Informed, Running, Recording
\* Where p hands a patch over and goes on at `next`.
<1>r. ASSUME NEW q, NEW next, Record(p, q, next), UNCHANGED <<host, ledger>>,
             Fits(q, ledger, host), q.id < nextId',
             next = "apply" => op'[p] \notin fact'.discarded,
             next \in {"certify", "release"} => Matches(host, body'[p]),
             next # "restore" => todo'[p] = {},
             \A i \in todo'[p] : Matches(host, seen'[p].ledger.pending[i].body)
      PROVE  Informed(p)'
  <2>1. pc'[p] = "load" /\ patch'[p] = q /\ after'[p] = next
    BY <1>r, <1>0 DEF Record, TypeOK
  <2> QED BY <1>r, <2>1 DEF Informed, Running, Recording
<1>e. ASSUME NEW b, NEW i, NEW e, b.upsert = [x \in Pkgs |-> Absent], b.remove = {}
      PROVE  Fits([body |-> b, id |-> i, entry |-> e], ledger, host)
  BY <1>e DEF Fits
<1>m. ASSUME NEW b, Matches(host, b), NEW i, NEW l
      PROVE  Fits([body |-> b, id |-> i, entry |-> NoEntry], l, host)
  BY <1>m DEF Fits, Matches
<1>1. CASE Look(p)
  <2>1. /\ pc'[p] = "looked" /\ seen'[p] = [ledger |-> ledger, host |-> host]
        /\ todo'[p] = {} /\ ledger' = ledger /\ host' = host
    BY <1>1, <1>0 DEF Look, TypeOK, Stage
  <2> QED BY <2>1 DEF Informed, Running, Recording
<1>2. CASE Begin(p)
  <2>1. /\ Record(p, Intent(nextId, body'[p], FALSE), "apply") /\ op'[p] = nextId
        /\ nextId' = nextId + 1 /\ fact' = fact /\ todo'[p] = {}
        /\ UNCHANGED <<host, ledger>>
    BY <1>2, <1>0 DEF Begin, TypeOK, Stage
  <2>2. Fits(Intent(nextId, body'[p], FALSE), ledger, host)
    BY <1>e DEF Intent, EmptyBody
  <2>3. Intent(nextId, body'[p], FALSE).id = nextId
    BY DEF Intent
  <2>4. nextId < nextId'
    BY <2>1, <1>n
  <2>5. op'[p] \notin fact'.discarded
    BY <2>1, <1>n
  <2> QED BY <2>1, <2>2, <2>3, <2>4, <2>5, <1>r
<1>3. CASE Repair(p)
  <2> PICK l \in LedgerType, h \in HostType : l = seen[p].ledger /\ h = seen[p].host
    BY <1>0 DEF TypeOK
  <2>0. l = ledger /\ h = host
    BY <1>3, <1>0 DEF Repair, Informed
  <2> PICK known : known = {x \in Pkgs : l.packages[x] # Absent}
    OBVIOUS
  <2> PICK there : there = {x \in Pkgs : h[x] # Absent}
    OBVIOUS
  <2>1. PICK built \in SUBSET (there \ known), asked \in Asked(there \ known),
            kept \in SUBSET {x \in known \cap there : ~l.packages[x].explicit},
            stale \in SUBSET (known \ there) :
           /\ built \cup kept \cup stale # {}
           /\ Record(p, [body |-> RepairBody(l, h, built, asked, kept, stale),
                         id |-> 0, entry |-> NoEntry], "idle")
    BY <1>3 DEF Repair
  <2> PICK f : f = [x \in Pkgs |->
        IF x \in built THEN [ver |-> h[x].ver, op |-> 0, explicit |-> x \in asked]
        ELSE IF x \in kept THEN [l.packages[x] EXCEPT !.explicit = TRUE]
        ELSE Absent]
    OBVIOUS
  <2> PICK b : b = RepairBody(l, h, built, asked, kept, stale)
    OBVIOUS
  <2>2. b.upsert = f /\ b.remove = stale
    <3>1. b = [EmptyBody EXCEPT !.upsert = f, !.remove = stale]
      BY DEF RepairBody
    <3> QED BY <3>1 DEF EmptyBody
  <2>3. ASSUME NEW x \in Pkgs
        PROVE  /\ f[x] # Absent =>
                    \/ h[x] # Absent /\ h[x].ver = f[x].ver
                    \/ l.packages[x] # Absent /\ l.packages[x].ver = f[x].ver
               /\ x \in stale => h[x] = Absent
    <3>1. CASE x \in built
      BY <3>1
    <3>2. CASE x \in kept /\ x \notin built
      <4>1. l.packages[x] \in Entry
        BY <3>2 DEF LedgerType
      <4>2. f[x].ver = l.packages[x].ver
        BY <3>2, <4>1 DEF Entry
      <4> QED BY <3>2, <4>2
    <3>3. CASE x \notin built /\ x \notin kept
      BY <3>3
    <3> QED BY <3>1, <3>2, <3>3
  <2>4. Fits([body |-> b, id |-> 0, entry |-> NoEntry], ledger, host)
    BY <2>0, <2>2, <2>3 DEF Fits
  <2>5. nextId' = nextId /\ todo'[p] = {} /\ UNCHANGED <<host, ledger>>
    BY <1>3, <1>0 DEF Repair, Stage
  <2> QED BY <2>1, <2>4, <2>5, <1>n, <1>r
<1>4. CASE RecordIndex(p)
  <2>1. PICK s : Record(p, [body |-> [EmptyBody EXCEPT !.seqs = s], id |-> 0, entry |-> NoEntry], "idle")
    BY <1>4 DEF RecordIndex
  <2>2. Fits([body |-> [EmptyBody EXCEPT !.seqs = s], id |-> 0, entry |-> NoEntry], ledger, host)
    BY <1>e DEF EmptyBody
  <2>3. nextId' = nextId /\ todo'[p] = {} /\ UNCHANGED <<host, ledger>>
    BY <1>4, <1>0 DEF RecordIndex, Stage
  <2> QED BY <2>1, <2>2, <2>3, <1>n, <1>r
<1>5. CASE Stop(p) \/ SaveLast(p) \/ SaveReportsError(p) \/ PacmanFails(p)
  BY <1>5, <1>f DEF Stop, SaveLast, SaveReportsError, PacmanFails
<1>6. CASE LoadLedger(p)
  <2>1. pc[p] = "load" /\ pc'[p] = "save"
    BY <1>6, <1>0 DEF LoadLedger, TypeOK
  <2> QED BY <1>6, <1>0, <2>1 DEF LoadLedger, Informed, Running, Recording
<1>7. CASE SaveIntent(p)
  <2>1. /\ pc'[p] = "apply" /\ after[p] = "apply" /\ Recording(p) /\ todo'[p] = todo[p]
        /\ op'[p] = op[p] /\ seen' = seen /\ host' = host
        /\ fact' = Witnessed(fact, patch[p])
    BY <1>7, <1>0 DEF SaveIntent, Saved, Recording, TypeOK
  <2>2. patch[p].entry # NoEntry
    <3>1. patch[p] = Intent(op[p], body[p], FALSE)
      BY <2>1, <1>0 DEF Stage
    <3>2. body[p] \in Body
      BY <1>0 DEF TypeOK
    <3>3. Intent(op[p], body[p], FALSE).entry # NoEntry
      BY <3>2, IntentFields
    <3> QED BY <3>1, <3>3
  <2>3. fact'.discarded = fact.discarded
    BY <2>1, <2>2 DEF Witnessed
  <2> QED BY <2>1, <2>3, <1>0 DEF Informed, Running, Recording
<1>8. CASE SaveCompletion(p)
  <2>1. /\ Record(p, [body |-> body[p], id |-> op[p], entry |-> NoEntry], "release")
        /\ after[p] = "certify" /\ Recording(p) /\ todo' = todo /\ body' = body /\ seen' = seen
        /\ host' = host /\ nextId' = nextId
    BY <1>8 DEF SaveCompletion, Saved, Recording
  <2>2. Matches(host, body[p]) /\ todo[p] = {}
    BY <2>1, <1>0 DEF Informed, Running
  <2>3. op[p] < nextId
    BY <2>1 DEF Inductive, Ownership, Running
  <2>4. pc'[p] = "load" /\ patch'[p] = [body |-> body[p], id |-> op[p], entry |-> NoEntry]
        /\ after'[p] = "release"
    BY <2>1, <1>0 DEF Record, TypeOK
  <2>5. Fits(patch'[p], ledger', host)
    BY <2>2, <2>4 DEF Fits, Matches
  <2> QED BY <2>1, <2>2, <2>3, <2>4, <2>5 DEF Informed, Running, Recording
<1>9. CASE SaveRelease(p)
  <2>1. PICK s : Record(p, [body |-> [body[p] EXCEPT !.snapshot = s, !.demote = {}],
                            id |-> 0, entry |-> NoEntry], "idle")
    BY <1>9 DEF SaveRelease
  <2>2. /\ after[p] = "release" /\ Recording(p) /\ todo' = todo /\ seen' = seen
        /\ host' = host /\ nextId' = nextId
    BY <1>9 DEF SaveRelease, Saved, Recording
  <2>3. Matches(host, body[p]) /\ todo[p] = {}
    BY <2>2, <1>0 DEF Informed, Running
  <2> PICK b : b = [body[p] EXCEPT !.snapshot = s, !.demote = {}]
    OBVIOUS
  <2>4. b.upsert = body[p].upsert /\ b.remove = body[p].remove
    <3>1. body[p] \in Body
      BY <1>0 DEF TypeOK
    <3> QED BY <3>1 DEF Body
  <2>5. pc'[p] = "load" /\ patch'[p] = [body |-> b, id |-> 0, entry |-> NoEntry]
        /\ after'[p] = "idle"
    BY <2>1, <1>0 DEF Record, TypeOK
  <2>6. Fits(patch'[p], ledger', host)
    <3>1. Matches(host, b)
      BY <2>3, <2>4 DEF Matches
    <3> PICK l : l = ledger'
      OBVIOUS
    <3>2. Fits([body |-> b, id |-> 0, entry |-> NoEntry], l, host)
      BY <3>1, <1>m
    <3> QED BY <2>5, <3>2
  <2>7. 0 < nextId
    BY <1>n
  <2> QED BY <2>2, <2>3, <2>5, <2>6, <2>7 DEF Informed, Running, Recording
<1>10. CASE SaveRestored(p)
  <2>1. /\ pc'[p] = "restore" /\ todo' = todo /\ seen' = seen /\ host' = host
    BY <1>10, <1>0 DEF SaveRestored, Saved, TypeOK
  <2> QED BY <2>1, <1>0 DEF Informed, Running, Recording
<1>11. CASE ParentDies(p)
  <2>1. after'[p] = "idle" /\ Recording(p)
    BY <1>11, <1>0 DEF ParentDies, TypeOK, Recording
  <2> QED BY <1>11, <2>1, <1>0 DEF ParentDies, Informed, Running, Recording
<1>12. CASE PacmanSucceeds(p)
  <2>1. /\ Record(p, Intent(op[p], body[p], TRUE), "certify")
        /\ todo' = todo /\ body' = body /\ seen' = seen /\ nextId' = nextId
        /\ pc[p] = "apply" /\ Matches(host', body[p])
    BY <1>12, PacmanKeeps DEF PacmanSucceeds
  <2>2. op[p] < nextId
    BY <2>1 DEF Inductive, Ownership, Running
  <2>3. /\ pc'[p] = "load" /\ patch'[p] = Intent(op[p], body[p], TRUE) /\ after'[p] = "certify"
    BY <2>1, <1>0 DEF Record, TypeOK
  <2>4. Fits(patch'[p], ledger', host') /\ patch'[p].id = op[p]
    BY <2>3 DEF Fits, Intent, EmptyBody
  <2>5. todo[p] = {}
    BY <2>1, <1>0 DEF Informed, Running
  <2> QED BY <2>1, <2>2, <2>3, <2>4, <2>5 DEF Informed, Running, Recording
<1>13. CASE Recover(p)
  <2>1. PICK chosen \in SUBSET Restorable(seen[p].ledger, seen[p].host) :
          todo' = [todo EXCEPT ![p] = chosen]
    BY <1>13 DEF Recover
  <2>2. /\ pc[p] = "looked" /\ pc'[p] = "restore" /\ todo'[p] = chosen
        /\ seen' = seen /\ host' = host
    BY <1>13, <2>1, <1>0 DEF Recover, TypeOK
  <2>3. seen[p].host = host
    BY <2>2, <1>0 DEF Informed
  <2>4. \A i \in chosen : Matches(host, seen[p].ledger.pending[i].body)
    BY <2>1, <2>3 DEF Restorable
  <2> QED BY <2>2, <2>4 DEF Informed, Running, Recording
<1>14. CASE RestoreNext(p)
  <2>1. PICK i \in todo[p] :
          /\ Record(p, [body |-> seen[p].ledger.pending[i].body,
                        id |-> i, entry |-> NoEntry], "restore")
          /\ todo' = [todo EXCEPT ![p] = @ \ {i}]
    BY <1>14 DEF RestoreNext
  <2>2. Fits([body |-> seen[p].ledger.pending[i].body, id |-> i, entry |-> NoEntry], ledger, host)
    BY <1>0, <1>m DEF Informed
  <2>3. /\ \A j \in todo'[p] : j \in todo[p]
        /\ seen' = seen /\ nextId' = nextId /\ UNCHANGED <<host, ledger>>
    BY <1>14, <2>1, <1>0 DEF RestoreNext, TypeOK
  <2>4. i < nextId
    <3>1. seen[p].ledger.pending[i] # NoEntry /\ i \in Ids
      BY <1>0 DEF Stage, TypeOK
    <3>2. seen[p].ledger.pending[i].body \in Body
      BY <3>1, <1>0 DEF TypeOK, LedgerType, Pending
    <3>3. Told(i, seen[p].ledger.pending[i].body)
      BY <3>1 DEF Told, Says, Listed
    <3> QED BY <3>1, <3>2, <3>3 DEF JournalIsConsistent
  <2> QED BY <2>1, <2>2, <2>3, <2>4, <1>0, <1>r DEF Informed
<1>15. CASE Discard(p)
  <2>1. PICK i \in Ids :
          /\ seen[p].ledger.pending[i] # NoEntry
          /\ Record(p, [body |-> EmptyBody, id |-> i, entry |-> NoEntry], "idle")
    BY <1>15 DEF Discard
  <2>2. Fits([body |-> EmptyBody, id |-> i, entry |-> NoEntry], ledger, host)
    BY <1>e DEF EmptyBody
  <2>3. nextId' = nextId /\ todo'[p] = {} /\ UNCHANGED <<host, ledger>>
    BY <1>15, <1>0 DEF Discard, Stage
  <2>4. i < nextId
    <3>1. seen[p].ledger.pending[i].body \in Body
      BY <2>1, <1>0 DEF TypeOK, LedgerType, Pending
    <3>2. Told(i, seen[p].ledger.pending[i].body)
      BY <2>1 DEF Told, Says, Listed
    <3> QED BY <3>1, <3>2 DEF JournalIsConsistent
  <2> QED BY <2>1, <2>2, <2>3, <2>4, <1>r
<1> QED
  BY <1>1, <1>2, <1>3, <1>4, <1>5, <1>6, <1>7, <1>8, <1>9, <1>10, <1>11, <1>12,
     <1>13, <1>14, <1>15 DEF Step

\* Every step of the only process keeps the invariant.
LEMMA HostStep ==
  ASSUME OneProcess, Inductive, JournalIsConsistent, HostInvariant, [Next]_vars
  PROVE  HostInvariant'
<1>1. ASSUME NEW p \in Procs, Step(p) PROVE HostInvariant'
  <2>1. \A q \in Procs : Informed(q)'
    BY <1>1, InformedStep DEF OneProcess
  <2>2. CASE Saved(p)
    BY <2>1, <2>2, SavedKeeps DEF HostInvariant
  <2>t. nextId \in Nat
    BY DEF Inductive, TypeOK
  <2>n. nextId' \in {nextId, nextId + 1}
    BY <1>1 DEF Step, Look, Begin, Repair, RecordIndex, Stop, LoadLedger,
         SaveIntent, SaveCompletion, SaveRelease, SaveRestored, SaveLast, SaveReportsError,
         Saved, ParentDies, PacmanSucceeds, PacmanFails, Recover, RestoreNext, Discard
  <2>3. CASE fact'.discarded = fact.discarded /\ DifferencesAreJournaled'
    <3>1. \A i \in fact'.discarded : i < nextId'
      <4>1. \A i \in fact.discarded : i \in Nat /\ i < nextId
        BY DEF HostInvariant, Inductive, TypeOK, Ids
      <4> QED BY <2>3, <2>t, <2>n, <4>1
    <3> QED BY <2>1, <2>3, <3>1 DEF HostInvariant
  <2>4. CASE PacmanSucceeds(p) \/ PacmanFails(p)
    BY <2>3, <2>4, PacmanKeeps
  <2>5. CASE ~Saved(p) /\ ~PacmanSucceeds(p) /\ ~PacmanFails(p)
    <3>1. ledger' = ledger /\ fact' = fact
      BY <1>1, <2>5, Changes
    <3>2. host' = host
      BY <1>1, <2>5 DEF Step, Look, Begin, Repair, RecordIndex, Stop, LoadLedger,
         SaveIntent, SaveCompletion, SaveRelease, SaveRestored, SaveLast, SaveReportsError,
         ParentDies, Recover, RestoreNext, Discard
    <3>3. DifferencesAreJournaled'
      BY <3>1, <3>2 DEF HostInvariant, DifferencesAreJournaled, Agrees, Covered
    <3> QED BY <2>3, <3>1, <3>3
  <2> QED BY <2>2, <2>4, <2>5
<1>2. CASE UNCHANGED vars
  BY <1>2 DEF vars, HostInvariant, Informed, Running, Recording, DifferencesAreJournaled,
     Agrees, Covered
<1> QED BY <1>1, <1>2 DEF Next

\* Wherever the ledger and the host differ, a journal entry still covers the
\* package, or the user discarded the one that did: whatever command dies or
\* fails at whatever step, one command at a time (transaction.rs journaled,
\* cli/recover.rs).
THEOREM NoChangeIsLost ==
  ASSUME OneProcess PROVE Spec => []DifferencesAreJournaled
<1>1. Init => HostInvariant
  <2> SUFFICES ASSUME Init PROVE HostInvariant
    OBVIOUS
  <2>1. \A x \in Pkgs : Agrees(x)
    BY AbsentIsNotInstalled DEF Init, Agrees, EmptyLedger
  <2>2. \A p \in Procs : Informed(p)
    BY DEF Init, Informed, Running, Recording
  <2> QED BY <2>1, <2>2 DEF Init, HostInvariant, DifferencesAreJournaled
<1>2. Inductive /\ JournalIsConsistent /\ HostInvariant /\ [Next]_vars => HostInvariant'
  BY HostStep
<1>3. HostInvariant => DifferencesAreJournaled
  BY DEF HostInvariant
<1> QED BY <1>1, <1>2, <1>3, ConsistentHolds, PTL DEF Spec

=============================================================================
