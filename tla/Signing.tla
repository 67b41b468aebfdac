------------------------------- MODULE Signing -------------------------------
(***************************************************************************)
(* How a package gets its signature: attest writes a statement about it,   *)
(* signed with a build key, and has a transparency log include the         *)
(* statement; index lists the package; sign checks all of it and has gpg   *)
(* sign.  Rebuilding a package replaces the file under its name and        *)
(* leaves beside it what there is about the one before.                    *)
(*                                                                         *)
(* Hashes are terms: different terms are different hashes.  A statement is *)
(* its number, and stands for its payload.                                 *)
(*                                                                         *)
(* Code: crates/pacvamp-repo/src/attest.rs, rekor.rs, sign.rs, index.rs    *)
(***************************************************************************)
EXTENDS Naturals, FiniteSets, Sequences, SequencesExt

CONSTANTS
    Contents,       \* what a build can make of the package
    Keys,           \* keys that statements are signed with
    BuildKeys,      \* those that sign is given
    MaxStatements,  \* bound: runs of attest
    MaxLog          \* bound: entries of the log

ASSUME SigningAssumption ==
    /\ BuildKeys \subseteq Keys
    /\ MaxStatements \in Nat /\ MaxLog \in Nat

VARIABLES
    statements,  \* what was attested, in the order it was
    log,         \* the public log: numbers of statements, and entries of others
    files,       \* the package and what lies beside it
    attesting,   \* the run of attest
    signing      \* the run of sign; whether the package was replaced during it

signVars == <<statements, log, files, attesting, signing>>

Statement == [subject: Contents, key: Keys]

NoLogEntry == [body |-> 0]
NotAttesting == [step |-> "none", envelope |-> 0, answer |-> NoLogEntry]

SigningInit ==
    /\ statements = <<>>
    /\ log \in {[i \in 1 .. n |-> MaxStatements + i]: n \in 0 .. MaxLog}
    /\ files \in [package: Contents, envelope: {0}, entry: {NoLogEntry},
                  listed: {{}}, signature: {{}}]
    /\ attesting = NotAttesting
    /\ signing = [step |-> "none", replaced |-> FALSE]

-----------------------------------------------------------------------------
(* Merkle trees, as RFC 6962 defines them: what the log computes.          *)

(* Bits of a place in the log.                                             *)
Bits == 0 .. MaxLog

Leaf(body) == <<"leaf", body>>
Node(left, right) == <<"node", left, right>>

(* The powers of two.                                                      *)
Power[i \in Bits] == IF i = 0 THEN 1 ELSE 2 * Power[i - 1]

Split(n) == CHOOSE k \in {Power[i]: i \in Bits}: k < n /\ n <= 2 * k

(* By the number of leaves of a subtree, and by the first of them.         *)
Hashes(bodies) ==
    LET hash[n \in 1 .. Len(bodies)] ==
            [from \in 1 .. Len(bodies) - n + 1 |->
                IF n = 1 THEN Leaf(bodies[from])
                ELSE Node(hash[Split(n)][from], hash[n - Split(n)][from + Split(n)])]
    IN hash

TreeHash(bodies) == Hashes(bodies)[Len(bodies)][1]

(* The leaf at i of such a subtree: the hashes beside the way to its root. *)
Paths(bodies) ==
    LET hash == Hashes(bodies)
        path[n \in 1 .. Len(bodies)] ==
            [from \in 1 .. Len(bodies) - n + 1 |-> [i \in 0 .. n - 1 |->
                IF n = 1 THEN <<>>
                ELSE IF i < Split(n)
                THEN Append(path[Split(n)][from][i], hash[n - Split(n)][from + Split(n)])
                ELSE Append(path[n - Split(n)][from + Split(n)][i - Split(n)], hash[Split(n)][from])]]
    IN path

AuditPath(index, bodies) == Paths(bodies)[Len(bodies)][1][index]

(* What the log answers about the entry at an index.                       *)
Truth(index, entries) ==
    LET root == TreeHash(entries)
    IN  [body |-> entries[index + 1], index |-> index, size |-> Len(entries),
         hashes |-> AuditPath(index, entries), root |-> root,
         checkpoint |-> {[size |-> Len(entries), root |-> root, genuine |-> TRUE]}]

(* A checkpoint that the log did not sign.                                 *)
Unsigned(size, root) == {[size |-> size, root |-> root, genuine |-> FALSE]}

(* A tree that is not the log's, with the body at index.                   *)
Foreign(index, size, body) ==
    Truth(index, [i \in 1 .. size |-> IF i = index + 1 THEN body ELSE 0])

(* The answer is right, has one thing wrong, is about another entry, or is  *)
(* all right about a foreign tree.                                         *)
Answers(index, entries) ==
    LET truth == Truth(index, entries)
        size == Len(entries)
        foreign == Foreign(index, size, truth.body)
    IN  {[truth EXCEPT !.index = i]: i \in 0 .. MaxLog}
        \cup {[truth EXCEPT !.size = n]: n \in 0 .. MaxLog}
        \cup {[truth EXCEPT !.body = 0], [truth EXCEPT !.root = foreign.root]}
        \cup {[truth EXCEPT !.hashes = h]:
                h \in {Append(truth.hashes, truth.root), foreign.hashes,
                       SubSeq(truth.hashes, 1, Len(truth.hashes) - 1)}}
        \cup {[truth EXCEPT !.checkpoint = c]:
                c \in {{}, Unsigned(size, truth.root), Truth(0, SubSeq(entries, 1, 1)).checkpoint}}
        \cup {Truth(0, entries), [foreign EXCEPT !.checkpoint = Unsigned(size, foreign.root)]}

-----------------------------------------------------------------------------
(* What attest and sign compute of an answer.                              *)

(* x >> i.                                                                 *)
Shifted[i \in Bits] == [x \in 0 .. MaxLog |-> IF i = 0 THEN x ELSE Shifted[i - 1][x] \div 2]

(* The number of bits in which index and the last index differ.            *)
InnerOfSize(index, size) ==
    CHOOSE n \in Bits:
        /\ Shifted[n][index] = Shifted[n][size]
        /\ \A m \in 0 .. n - 1: Shifted[m][index] # Shifted[m][size]

Inner(index, size) ==
    CHOOSE n \in Bits:
        /\ Shifted[n][index] = Shifted[n][size - 1]
        /\ \A m \in 0 .. n - 1: Shifted[m][index] # Shifted[m][size - 1]

Border(index, size) ==
    Cardinality({n \in Bits: n >= Inner(index, size) /\ Shifted[n][index] % 2 = 1})

(* At step i the leaf is in the left of two subtrees.                      *)
IsLeft(index, size, i) == i <= Inner(index, size) /\ Shifted[i - 1][index] % 2 = 0

(* The hash after each sibling of the proof.                               *)
Climb(index, size, leaf, proof) ==
    LET hash[i \in 0 .. Len(proof)] ==
            IF i = 0 THEN leaf
            ELSE IF IsLeft(index, size, i) THEN Node(hash[i - 1], proof[i])
            ELSE Node(proof[i], hash[i - 1])
    IN hash

(* One root, or none.                                                      *)
RootFromInclusion(index, size, leaf, proof) ==
    IF index >= size \/ Len(proof) # Inner(index, size) + Border(index, size) THEN {}
    ELSE {Climb(index, size, leaf, proof)[Len(proof)]}

VerifyInclusion(entry, key) ==
    /\ RootFromInclusion(entry.index, entry.size, Leaf(entry.body), entry.hashes) = {entry.root}
    /\ \A c \in entry.checkpoint: c.size = entry.size /\ c.root = entry.root /\ (key => c.genuine)
    /\ key => entry.checkpoint # {}

-----------------------------------------------------------------------------
(* attest.                                                                 *)

(* The file's digest goes into a statement.                                *)
Attest ==
    /\ attesting = NotAttesting /\ Len(statements) < MaxStatements
    /\ \E k \in Keys: statements' = Append(statements, [subject |-> files.package, key |-> k])
    /\ attesting' = [NotAttesting EXCEPT !.step = "write", !.envelope = Len(statements')]
    /\ UNCHANGED <<log, files, signing>>

WriteEnvelope ==
    /\ attesting.step = "write"
    /\ files' = [files EXCEPT !.envelope = attesting.envelope]
    /\ attesting' = [attesting EXCEPT !.step = "upload"]
    /\ UNCHANGED <<statements, log, signing>>

(* The log includes the statement, and entries of others, before it answers. *)
UploadStatement ==
    /\ attesting.step = "upload" /\ Len(log) < MaxLog
    /\ \E size \in Len(log) + 1 .. MaxLog:
        log' = [i \in 1 .. size |-> IF i <= Len(log) THEN log[i]
                                   ELSE IF i = Len(log) + 1 THEN attesting.envelope
                                   ELSE MaxStatements + i]
    /\ \E answer \in Answers(Len(log), log'):
        attesting' = [attesting EXCEPT !.step = "store", !.answer = answer]
    /\ UNCHANGED <<statements, files, signing>>

(* An answer that does not verify ends attest with what is there.          *)
StoreEntry ==
    /\ attesting.step = "store"
    /\ VerifyInclusion(attesting.answer, FALSE)
    /\ files' = [files EXCEPT !.entry = attesting.answer]
    /\ attesting' = NotAttesting
    /\ UNCHANGED <<statements, log, signing>>

(* Without a log attest is done; otherwise it failed, or was killed.       *)
AttestEnds ==
    /\ attesting # NotAttesting
    /\ attesting' = NotAttesting
    /\ UNCHANGED <<statements, log, files, signing>>

-----------------------------------------------------------------------------
(* The other commands.                                                     *)

Rebuild ==
    /\ \E c \in Contents \ {files.package}: files' = [files EXCEPT !.package = c]
    /\ signing' = [signing EXCEPT !.replaced = @ \/ signing.step = "gpg"]
    /\ UNCHANGED <<statements, log, attesting>>

WriteListing ==
    /\ files' = [files EXCEPT !.listed = {files.package}]
    /\ UNCHANGED <<statements, log, attesting, signing>>

(* The envelope beside the package, by one of the build keys.              *)
Vouched ==
    /\ files.envelope # 0
    /\ statements[files.envelope] \in [subject: {files.package}, key: BuildKeys]

Logged(key) ==
    /\ files.entry # NoLogEntry
    /\ files.entry.body = files.envelope
    /\ VerifyInclusion(files.entry, key)

(* What sign is asked to check: the log entry, the log's own signature on   *)
(* its checkpoint, the index.                                              *)
Gates == [rekor: BOOLEAN, key: BOOLEAN, index: BOOLEAN]

Passes(gate) ==
    /\ Vouched
    /\ gate.rekor => Logged(gate.key)
    /\ gate.index => files.listed = {files.package}

(* A package that has a signature is skipped.  What lies beside it is read  *)
(* in one step, but gpg reads the package again.                           *)
CheckPackage ==
    /\ signing.step = "none" /\ files.signature = {}
    /\ \E gate \in Gates: Passes(gate)
    /\ signing' = [step |-> "gpg", replaced |-> FALSE]
    /\ UNCHANGED <<statements, log, files, attesting>>

GpgSign ==
    /\ signing.step = "gpg"
    /\ files' = [files EXCEPT !.signature = {files.package}]
    /\ signing' = [signing EXCEPT !.step = "none"]
    /\ UNCHANGED <<statements, log, attesting>>

(* gpg fails, or sign is killed before the signature has its name.         *)
SignEnds ==
    /\ signing.step = "gpg"
    /\ signing' = [signing EXCEPT !.step = "none"]
    /\ UNCHANGED <<statements, log, files, attesting>>

SigningNext ==
    \/ Attest \/ WriteEnvelope \/ UploadStatement \/ StoreEntry \/ AttestEnds
    \/ Rebuild \/ WriteListing \/ CheckPackage \/ GpgSign \/ SignEnds

-----------------------------------------------------------------------------
(* Properties.                                                             *)

(* The log has what the entry says, where it says.                         *)
Included(entry, key) ==
    /\ entry.index < entry.size /\ entry.size <= Len(log)
    /\ LET truth == Truth(entry.index, SubSeq(log, 1, entry.size))
       IN  /\ entry = [truth EXCEPT !.checkpoint = entry.checkpoint]
           /\ \A c \in entry.checkpoint:
                c.size = entry.size /\ c.root = truth.root /\ (key => c.genuine)
    /\ key => entry.checkpoint # {}

(* Its root is one the log had.                                            *)
RootIsOfLog(entry) ==
    entry.size \in 1 .. Len(log) /\ entry.root = TreeHash(SubSeq(log, 1, entry.size))

(* The log entry beside the package is of the statement beside it; with a   *)
(* key the log has it.                                                     *)
StatementIsLogged(key) ==
    /\ files.entry # NoLogEntry
    /\ files.entry.body = files.envelope
    /\ key => Included(files.entry, TRUE) /\ log[files.entry.index + 1] = files.envelope

(* A build key attested a build of this content.                            *)
Attested(c) == \E i \in 1 .. Len(statements): statements[i] \in [subject: {c}, key: BuildKeys]

\* What is signed is a build that some build key attested, if nobody replaced
\* the package after it was checked: gpg reads it again (sign.rs).
SignedIsAttested ==
    ~signing.replaced => /\ signing.step = "gpg" => Attested(files.package)
                         /\ \A c \in files.signature: Attested(c)

\* An answer passes with the log's key exactly if the log's tree has the entry
\* where the answer says, for every size of the tree and place in it.  Without
\* the key it passes on any tree that adds up, and only the root ties it to the
\* log: an answer that passes is of the log's tree exactly if its root is the
\* log's (rekor.rs; docs/spec/provenance.md: the key ties the proof to the log).
AnswersAreJudgedRight ==
    attesting.step = "store" =>
        LET answer == attesting.answer IN
        /\ VerifyInclusion(answer, TRUE) <=> Included(answer, TRUE)
        /\ VerifyInclusion(answer, FALSE) /\ RootIsOfLog(answer) <=> Included(answer, FALSE)

\* sign passes a package exactly if a build key's statement is of this build,
\* the log entry is of that very statement and, if it has the log's key, in the
\* log, and the index lists this build, whatever earlier builds and runs of
\* attest that died left beside it.
EvidenceIsJudgedRight ==
    /\ AnswersAreJudgedRight
    /\ \A gate \in Gates:
         Passes(gate)
         <=> /\ \E s \in {files.envelope} \ {0}:
                  statements[s].subject = files.package /\ statements[s].key \in BuildKeys
             /\ gate.rekor => StatementIsLogged(gate.key)
             /\ gate.index => files.listed = {files.package}
    /\ SignedIsAttested

=============================================================================
