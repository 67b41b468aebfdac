------------------------------- MODULE Ledger -------------------------------
(***************************************************************************)
(* The ledger file /var/lib/pacvamp/state.json as a value, and the one     *)
(* operation that changes it: Merge, the in-memory merge of a patch        *)
(* (crates/pacvamp/src/ledger.rs).  The module has no state; Journal says  *)
(* which process merges which patch, and when.                             *)
(*                                                                         *)
(* What is abstracted.  A transaction is named by the number of its        *)
(* journal id; the id also stands for the evidence an entry carries (tier, *)
(* repository, AUR commit, receipt, verification), because every entry a   *)
(* transaction writes carries what that transaction accepted.  Zero is the *)
(* evidence of an entry rebuilt from the local database: none.  An absent  *)
(* map key is the value Absent or NoEntry of a total function.  The old    *)
(* single index_sequence is one more key of seqs.                          *)
(***************************************************************************)
EXTENDS Naturals

CONSTANTS
  Pkgs,             \* package names
  Versions,         \* package versions
  Repos,            \* repositories that publish a signed index
  Snapshots,        \* release snapshot ids
  MaxTransactions,  \* bound: transactions started in a behaviour
  MaxSeq,           \* bound: the highest index sequence published
  Absent,           \* no package, no entry
  NoEntry,          \* no journal entry
  NoSnapshot        \* no snapshot recorded

Ids == 1 .. MaxTransactions

Entry == [ver : Versions, op : Ids \cup {0}, explicit : BOOLEAN]

\* What a transaction wants merged.  `demote` holds the names a patch's
\* install_reasons maps to false, the only value any command writes.
Body == [upsert   : [Pkgs -> Entry \cup {Absent}],
         remove   : SUBSET Pkgs,
         demote   : SUBSET Pkgs,
         seqs     : [Repos -> 0 .. MaxSeq],
         snapshot : Snapshots \cup {NoSnapshot}]

Pending == [completed : BOOLEAN, body : Body]

\* A patch touches the journal entry `id`, or none when id is zero: `entry`
\* is what that key is set to, NoEntry when the key is dropped.
Patch == [body : Body, id : Ids \cup {0}, entry : Pending \cup {NoEntry}]

LedgerType == [packages : [Pkgs -> Entry \cup {Absent}],
               seqs     : [Repos -> 0 .. MaxSeq],
               snapshot : Snapshots \cup {NoSnapshot},
               pending  : [Ids -> Pending \cup {NoEntry}]]

ASSUME BoundsAreNat == MaxTransactions \in Nat /\ MaxSeq \in Nat
ASSUME AbsentIsNoEntry == Absent \notin Entry
ASSUME NoEntryIsNoPending == NoEntry \notin Pending
ASSUME NoSnapshotIsNoId == NoSnapshot \notin Snapshots

EmptyBody == [upsert   |-> [x \in Pkgs |-> Absent],
              remove   |-> {},
              demote   |-> {},
              seqs     |-> [r \in Repos |-> 0],
              snapshot |-> NoSnapshot]

EmptyLedger == [packages |-> [x \in Pkgs |-> Absent],
                seqs     |-> [r \in Repos |-> 0],
                snapshot |-> NoSnapshot,
                pending  |-> [i \in Ids |-> NoEntry]]

-----------------------------------------------------------------------------

\* The sum, which leaves the published range.
Added(a, b) == a + b

Larger(a, b) == IF a >= b THEN a ELSE b

NotPreserving(old, new) == new

\* A dependency upsert does not take back that the user asked for a package.
Preserving(old, new) ==
  IF old # Absent /\ old.explicit THEN [new EXCEPT !.explicit = TRUE] ELSE new

\* Removals are applied before upserts, install reasons last.
MergePackages(packages, body) ==
  LET kept(x) == IF x \in body.remove THEN Absent ELSE packages[x]
      put(x) == IF body.upsert[x] = Absent
                THEN kept(x)
                ELSE Preserving(kept(x), body.upsert[x])
  IN  [x \in Pkgs |-> IF x \in body.demote /\ put(x) # Absent
                      THEN [put(x) EXCEPT !.explicit = FALSE]
                      ELSE put(x)]

MergePending(pending, patch) ==
  IF patch.id = 0 THEN pending ELSE [pending EXCEPT ![patch.id] = patch.entry]

\* The sequences of whoever writes last.
MergeLastSeq(l, patch) ==
  [packages |-> MergePackages(l.packages, patch.body),
   seqs     |-> [r \in Repos |-> IF patch.body.seqs[r] = 0
                                 THEN l.seqs[r]
                                 ELSE patch.body.seqs[r]],
   snapshot |-> IF patch.body.snapshot = NoSnapshot
                THEN l.snapshot
                ELSE patch.body.snapshot,
   pending  |-> MergePending(l.pending, patch)]

\* The journal entry is dropped and the rest of the patch left for later.
MergeJournalFirst(l, patch) ==
  IF patch.id # 0
  THEN [l EXCEPT !.pending = MergePending(l.pending, patch)]
  ELSE [l EXCEPT !.packages = MergePackages(l.packages, patch.body)]

Merge(l, patch) ==
  [packages |-> MergePackages(l.packages, patch.body),
   seqs     |-> [r \in Repos |-> Larger(l.seqs[r], patch.body.seqs[r])],
   snapshot |-> IF patch.body.snapshot = NoSnapshot
                THEN l.snapshot
                ELSE patch.body.snapshot,
   pending  |-> MergePending(l.pending, patch)]

-----------------------------------------------------------------------------

Touched(body) == {x \in Pkgs : body.upsert[x] # Absent} \cup body.remove

\* The transactions whose evidence an assignment of entries carries.
EvidenceOf(packages) == {packages[x].op : x \in {y \in Pkgs : packages[y] # Absent}} \ {0}

=============================================================================
