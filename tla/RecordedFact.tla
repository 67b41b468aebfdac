---------------------------- MODULE RecordedFact ----------------------------
(***************************************************************************)
(* What the ledger promises, without files, locks, processes or crashes:   *)
(* "the ledger records what actually completed and what evidence was       *)
(* accepted".  A transaction is intended, then done by pacman, then known  *)
(* durably to be done; only then may the evidence it accepted appear in    *)
(* the ledger.  Evidence may leave at any time: packages are removed and   *)
(* replaced.                                                               *)
(***************************************************************************)
CONSTANT Ids

VARIABLES
  intended,  \* transactions whose intent is, or was, durable
  done,      \* transactions pacman completed
  durable,   \* transactions known durably to have completed
  evidence   \* transactions whose evidence the ledger shows

factVars == <<intended, done, durable, evidence>>

Init ==
  /\ intended = {} /\ done = {} /\ durable = {} /\ evidence = {}

Intend(i) ==
  /\ i \notin intended
  /\ intended' = intended \cup {i}
  /\ UNCHANGED <<done, durable, evidence>>

Do(i) ==
  /\ i \in intended
  /\ done' = done \cup {i}
  /\ UNCHANGED <<intended, durable, evidence>>

MakeDurable(i) ==
  /\ i \in done
  /\ durable' = durable \cup {i}
  /\ UNCHANGED <<intended, done, evidence>>

Show ==
  /\ evidence' \subseteq evidence \cup durable
  /\ UNCHANGED <<intended, done, durable>>

Next ==
  \/ \E i \in Ids : Intend(i) \/ Do(i) \/ MakeDurable(i)
  \/ Show

Spec == Init /\ [][Next]_factVars

\* Evidence is shown only of transactions that were intended, completed, and
\* known to have completed.
Founded ==
  evidence \subseteq durable /\ durable \subseteq done /\ done \subseteq intended

=============================================================================
