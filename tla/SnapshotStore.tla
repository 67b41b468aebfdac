---------------------------- MODULE SnapshotStore ----------------------------
(***************************************************************************)
(* The store of the release train: immutable snapshots, the signed release *)
(* manifest of each, and the channel pointers edge, rc and stable, as      *)
(* `pacvamp-repo snapshot` changes them                                    *)
(* (crates/pacvamp-repo/src/snapshot.rs, feed.rs).                         *)
(*                                                                         *)
(* A command loads a manifest, decides, and then makes a few file system   *)
(* changes one after the other: the manifest, its signature, a pointer.    *)
(* command[p].steps holds what process p still has to change; the store    *)
(* has no lock, and a process may be killed before any of them.            *)
(*                                                                         *)
(* Snapshot ids are numbers in the order of their text.  Zero is the       *)
(* directory .partial-<id>-<pid> of a cut under way, or left by a killed   *)
(* one: it sorts before every snapshot and has a manifest of its own.      *)
(* What is abstracted: the contents of snapshots beyond whether all of it  *)
(* is there, when stable was reached, the reports and reasons a manifest   *)
(* carries, the expedited flag, and which suite decided a result.          *)
(***************************************************************************)
EXTENDS Naturals, Sequences

CONSTANTS
  Operators,          \* processes that run commands
  MaxSnapshots,   \* bound: snapshot ids
  MaxClock,        \* bound: the clock
  MaxKills,     \* bound: kills and failures in a behaviour
  Soak,           \* --soak of an automatic promotion
  Retain,         \* --retain
  StableRetain,   \* --stable-retain
  Gone,           \* no such file
  Nowhere,        \* target of a channel that has none
  Unreadable,     \* a manifest whose signature does not verify was met
  Never           \* a time stamp that was not set

SnapshotIds == 1 .. MaxSnapshots
Partial == 0
Dirs == SnapshotIds \cup {Partial}
Times == 0 .. MaxClock
Pointers == {"edge", "rc", "stable"}

Release == [created : Times,
            tests   : {"none", "pass", "fail"},
            rc      : Times \cup {Never},
            stable  : BOOLEAN,
            held    : BOOLEAN]

ASSUME StoreBoundsAreNat ==
  /\ MaxSnapshots \in Nat /\ MaxClock \in Nat /\ MaxKills \in Nat
  /\ Soak \in Nat /\ Retain \in Nat /\ StableRetain \in Nat
ASSUME NoValueIsAnother ==
  /\ Gone \notin Release /\ Nowhere \notin Dirs /\ Unreadable \notin Dirs
  /\ Never \notin Times /\ Nowhere # Unreadable

VARIABLES
  clock,         \* the clock
  content,       \* what is in each directory: nothing, all of it, or a part
  document,    \* release.json of each directory
  signature,   \* the manifest that release.json.minisig signs
  target,      \* where each channel points
  command,         \* the command each process runs and what it holds
  kills,     \* kills and failures so far
  everStable   \* history: snapshots stable has named

store == <<content, document, signature, target>>
storeVars == <<clock, store, command, kills, everStable>>

Kinds == {"document", "signature", "commit", "point", "clear", "retreat",
          "survey", "suite", "prune"}
FileChange == [do : Kinds, channel : Pointers, dir : Dirs]

\* A command is about snapshot `snap`, started at time `at`, loaded and changed
\* the manifest `rel`, still has `steps` to make, and is about to replace
\* `previous`; a prune has read the targets `spared` and has directories todo.
CommandRun == [cmd      : {"none", "cut", "test", "promote", "auto", "hold", "unhold", "prune"},
        snap     : Dirs,
        at       : Times,
        rel      : Release,
        steps    : Seq(FileChange),
        previous : Release \cup {Gone},
        todo     : SUBSET Dirs,
        spared   : SUBSET Dirs]

\* One change to make; what a change does not use is left at a default.
ToDo(kind, c, d) == [do |-> kind, channel |-> c, dir |-> d]
WriteSigned(d) == <<ToDo("document", "edge", d), ToDo("signature", "edge", d)>>
Point(c, d) == <<ToDo("point", c, d)>>

NewRelease(t) ==
  [created |-> t, tests |-> "none", rc |-> Never, stable |-> FALSE, held |-> FALSE]

Waiting == [cmd |-> "none", snap |-> Partial, at |-> 0, rel |-> NewRelease(0),
         steps |-> <<>>, previous |-> Gone, todo |-> {}, spared |-> {}]

StoreType ==
  /\ clock \in Times
  /\ content \in [Dirs -> {"none", "whole", "part"}]
  /\ document \in [Dirs -> Release \cup {Gone}]
  /\ signature \in [Dirs -> Release \cup {Gone}]
  /\ target \in [Pointers -> Dirs \cup {Nowhere}]
  /\ command \in [Operators -> CommandRun]
  /\ kills \in 0 .. MaxKills
  /\ everStable \subseteq Dirs

StoreInit ==
  /\ clock = 0
  /\ content = [d \in Dirs |-> "none"]
  /\ document = [d \in Dirs |-> Gone]
  /\ signature = [d \in Dirs |-> Gone]
  /\ target = [c \in Pointers |-> Nowhere]
  /\ command = [p \in Operators |-> Waiting]
  /\ kills = 0
  /\ everStable = {}

-----------------------------------------------------------------------------
(* Reading the store.                                                      *)

\* Store::ids lists directories that have a release.json, unfinished ones too.
InStore == {d \in Dirs : document[d] # Gone}

\* Store::signed_release succeeds.
Readable(d) == document[d] # Gone /\ document[d] = signature[d]

EligibleFor(c, d) ==
  /\ ~document[d].held
  /\ c = "rc" => document[d].rc # Never /\ document[d].tests = "pass"
  /\ c = "stable" => document[d].stable /\ document[d].tests = "pass"

\* The newest directory among `candidates` that is eligible for channel c;
\* meeting an unreadable manifest before it is an error.
NewestEligible(c, candidates) ==
  LET stops == {d \in candidates : ~Readable(d) \/ EligibleFor(c, d)}
      newest == CHOOSE d \in stops : \A e \in stops : e <= d
  IN  IF stops = {} THEN Nowhere
      ELSE IF Readable(newest) THEN newest ELSE Unreadable

FallbackToAny(c, i) == NewestEligible(c, InStore \ {i})

\* Where channel c may go from snapshot i: only to an older one.
Fallback(c, i) == NewestEligible(c, {d \in InStore : d < i})

-----------------------------------------------------------------------------
(* Starting a command.                                                     *)

Start(p, name, i, r, steps) ==
  /\ command[p] = Waiting
  /\ command' = [command EXCEPT ![p] = [Waiting EXCEPT !.cmd = name, !.snap = i, !.at = clock,
                                            !.rel = r, !.steps = steps]]
  /\ UNCHANGED <<clock, kills, document, signature, target, everStable>>

\* A time stamp is set once.
Stamped(old, t) == IF old = Never THEN t ELSE old

\* cut assembles the snapshot and its manifest beside the others and renames
\* it into place.  Bound: one unfinished directory in the store.
CutBegin(p) ==
  /\ content[Partial] = "none"
  /\ \E i \in SnapshotIds :
       /\ content[i] = "none"
       /\ Start(p, "cut", i, NewRelease(clock),
                WriteSigned(Partial) \o <<ToDo("commit", "edge", i)>> \o Point("edge", i))
  /\ content' = [content EXCEPT ![Partial] = "whole"]

TestBegin(p) ==
  /\ \E i \in SnapshotIds :
       /\ Readable(i)
       /\ Start(p, "test", i, document[i], <<ToDo("suite", "rc", i)>>)
  /\ UNCHANGED content

PromotedTo(c, r, t) ==
  IF c = "rc" THEN [r EXCEPT !.rc = Stamped(@, t)] ELSE [r EXCEPT !.stable = TRUE]

\* The pointer moves before the manifest says so.
PromotePointsFirst(p) ==
  /\ \E i \in SnapshotIds, c \in {"rc", "stable"} :
       /\ Readable(i)
       /\ ~document[i].held
       /\ Start(p, "promote", i, PromotedTo(c, document[i], clock),
                Point(c, i) \o WriteSigned(i))
  /\ UNCHANGED content

\* promote --id: a maintainer's choice, of any snapshot that is not held.
Promote(p) ==
  /\ \E i \in SnapshotIds, c \in {"rc", "stable"} :
       /\ Readable(i)
       /\ ~document[i].held
       /\ Start(p, "promote", i, PromotedTo(c, document[i], clock),
                WriteSigned(i) \o Point(c, i))
  /\ UNCHANGED content

\* rc passed, is not held and has soaked.
Soaked(i) ==
  /\ Readable(i)
  /\ document[i].tests = "pass" /\ ~document[i].held
  /\ document[i].rc # Never /\ clock >= document[i].rc + Soak

\* promote without --id: rc becomes stable, which never moves back.
PromoteSoaked(p) ==
  /\ LET i == target["rc"]
     IN  /\ i # Nowhere
         /\ target["stable"] # Nowhere => target["stable"] < i
         /\ Soaked(i)
         /\ Start(p, "auto", i, PromotedTo("stable", document[i], clock),
                  WriteSigned(i) \o Point("stable", i))
  /\ UNCHANGED content

Hold(p) ==
  /\ \E i \in SnapshotIds :
       /\ Readable(i)
       /\ Start(p, "hold", i, [document[i] EXCEPT !.held = TRUE],
                WriteSigned(i) \o <<ToDo("survey", "edge", i)>>)
  /\ UNCHANGED content

Unhold(p) ==
  /\ \E i \in SnapshotIds :
       /\ Readable(i)
       /\ Start(p, "unhold", i, [document[i] EXCEPT !.held = FALSE], WriteSigned(i))
  /\ UNCHANGED content

PruneBegin(p, targets) ==
  /\ command[p] = Waiting
  /\ command' = [command EXCEPT ![p] = [Waiting EXCEPT !.cmd = "prune", !.at = clock,
                                            !.steps = <<ToDo("prune", "edge", Partial)>>,
                                            !.todo = InStore, !.spared = targets]]
  /\ UNCHANGED <<clock, kills, store, everStable>>

\* Only the released channel is spared.
PruneSparesStable(p) == PruneBegin(p, {target["stable"]} \ {Nowhere})

\* prune reads the channel targets once, then looks at every directory.
Prune(p) == PruneBegin(p, {target[c] : c \in Pointers} \ {Nowhere})

-----------------------------------------------------------------------------
(* The changes a command makes.                                            *)

Due(p, kind) == command[p].steps # <<>> /\ Head(command[p].steps).do = kind

\* p has made its next change, has `more` to make before the others, and holds
\* manifest r.
Advance(p, more, r) ==
  LET left == more \o Tail(command[p].steps)
  IN  command' = [command EXCEPT ![p] = IF left = <<>> THEN Waiting
                                ELSE [@ EXCEPT !.steps = left, !.rel = r]]

Done(p) == Advance(p, <<>>, command[p].rel)

\* The same, when the manifest's pair of files is written.
Written(p) ==
  LET left == Tail(command[p].steps)
  IN  command' = [command EXCEPT ![p] = IF left = <<>> THEN Waiting
                                ELSE [@ EXCEPT !.steps = left, !.previous = Gone]]

\* p ends here: it finished, was killed, or stopped with an error.
Finishes(p) == command' = [command EXCEPT ![p] = Waiting]

Dies(p) ==
  /\ kills < MaxKills
  /\ kills' = kills + 1
  /\ Finishes(p)

\* The suite passed: rc moves unless the snapshot p loaded is held or rc is
\* newer already.
SuitePasses(p) ==
  /\ Due(p, "suite")
  /\ LET i == command[p].snap
         r == [command[p].rel EXCEPT !.tests = "pass"]
         current == target["rc"]
     IN  IF ~r.held /\ (current = Nowhere \/ current <= i)
         THEN Advance(p, WriteSigned(i) \o IF current # i THEN Point("rc", i) ELSE <<>>,
                      [r EXCEPT !.rc = Stamped(@, command[p].at)])
         ELSE Advance(p, WriteSigned(i), r)
  /\ UNCHANGED <<clock, kills, store, everStable>>

\* The suite failed: rc leaves the snapshot, then the manifest says so.
SuiteFails(p) ==
  /\ Due(p, "suite")
  /\ LET i == command[p].snap
         r == [command[p].rel EXCEPT !.tests = "fail"]
     IN  IF target["rc"] = i
         THEN Advance(p, <<ToDo("retreat", "rc", i)>> \o WriteSigned(i), [r EXCEPT !.rc = Never])
         ELSE Advance(p, WriteSigned(i), r)
  /\ UNCHANGED <<clock, kills, store, everStable>>

\* hold looks which channels point at the snapshot.
Survey(p) ==
  /\ Due(p, "survey")
  /\ LET i == command[p].snap
         retreat(c) == IF target[c] = i THEN <<ToDo("retreat", c, i)>> ELSE <<>>
     IN  Advance(p, retreat("edge") \o retreat("rc") \o retreat("stable"), command[p].rel)
  /\ UNCHANGED <<clock, kills, store, everStable>>

\* Where the channel goes: to its fallback; without one a failed test clears
\* rc and a hold leaves the channel where it is.
Retreat(p) ==
  /\ Due(p, "retreat")
  /\ LET c == Head(command[p].steps).channel
         i == command[p].snap
         f == Fallback(c, i)
         more == IF f # Nowhere THEN Point(c, f)
                 ELSE IF command[p].cmd = "test" THEN <<ToDo("clear", c, i)>>
                 ELSE <<>>
     IN  IF f = Unreadable THEN Finishes(p) ELSE Advance(p, more, command[p].rel)
  /\ UNCHANGED <<clock, kills, store, everStable>>

\* The first of the two renames of write_signed_pair.
WriteDocument(p) ==
  /\ Due(p, "document")
  /\ LET d == Head(command[p].steps).dir
     IN  /\ content[d] # "none"
         /\ document' = [document EXCEPT ![d] = command[p].rel]
         /\ command' = [command EXCEPT ![p].steps = Tail(@), ![p].previous = document[d]]
  /\ UNCHANGED <<clock, kills, content, signature, target, everStable>>

\* The second.
WriteSignature(p) ==
  /\ Due(p, "signature")
  /\ LET d == Head(command[p].steps).dir
     IN  /\ content[d] # "none"
         /\ signature' = [signature EXCEPT ![d] = command[p].rel]
  /\ Written(p)
  /\ UNCHANGED <<clock, kills, content, document, target, everStable>>

\* The signature cannot be renamed into place: the manifest is put back.
SignatureFails(p) ==
  /\ Due(p, "signature")
  /\ command[p].cmd # "cut"
  /\ LET d == Head(command[p].steps).dir
     IN  document' = [document EXCEPT ![d] = command[p].previous]
  /\ Dies(p)
  /\ UNCHANGED <<clock, content, signature, target, everStable>>

\* The finished snapshot takes its name.
Commit(p) ==
  /\ Due(p, "commit")
  /\ LET i == command[p].snap
         moved(f, none) == [f EXCEPT ![i] = f[Partial], ![Partial] = none]
     IN  /\ content[i] = "none"
         /\ content' = moved(content, "none")
         /\ document' = moved(document, Gone)
         /\ signature' = moved(signature, Gone)
  /\ Done(p)
  /\ UNCHANGED <<clock, kills, target, everStable>>

\* cut fails before the rename, or the name is taken: the unfinished directory
\* is removed.
CutFails(p) ==
  /\ \E k \in 1 .. Len(command[p].steps) : command[p].steps[k].do = "commit"
  /\ content' = [content EXCEPT ![Partial] = "none"]
  /\ document' = [document EXCEPT ![Partial] = Gone]
  /\ signature' = [signature EXCEPT ![Partial] = Gone]
  /\ Dies(p)
  /\ UNCHANGED <<clock, target, everStable>>

\* Store::point, an atomic rename, of a directory that is there.
PointChannel(p) ==
  /\ Due(p, "point")
  /\ LET c == Head(command[p].steps).channel
         d == Head(command[p].steps).dir
     IN  /\ content[d] # "none"
         /\ target' = [target EXCEPT ![c] = d]
         /\ everStable' = IF c = "stable" THEN everStable \cup {d} ELSE everStable
  /\ Done(p)
  /\ UNCHANGED <<clock, kills, content, document, signature>>

ClearChannel(p) ==
  /\ Due(p, "clear")
  /\ target' = [target EXCEPT ![Head(command[p].steps).channel] = Nowhere]
  /\ Done(p)
  /\ UNCHANGED <<clock, kills, content, document, signature, everStable>>

\* The directory prune looks at next, the oldest, is d.
Oldest(p, d) == d \in command[p].todo /\ \A e \in command[p].todo : d <= e

\* One retention for all.
PastAnyRetention(d, t) == t > document[d].created + Retain

\* Snapshots that reached stable have a retention of their own.
PastRetention(d, t) ==
  t > document[d].created + IF document[d].stable THEN StableRetain ELSE Retain

Doomed(p, d) ==
  d \notin command[p].spared /\ document[d] # Gone /\ PastRetention(d, command[p].at)

PruneKeeps(p) ==
  /\ Due(p, "prune")
  /\ \E d \in command[p].todo :
       /\ Oldest(p, d)
       /\ d \in command[p].spared \/ (document[d] # Gone /\ ~Doomed(p, d))
       /\ command' = [command EXCEPT ![p].todo = @ \ {d}]
  /\ UNCHANGED <<clock, kills, store, everStable>>

\* The directory is removed whole.
PruneRemoves(p) ==
  /\ Due(p, "prune")
  /\ \E d \in command[p].todo :
       /\ Oldest(p, d) /\ Doomed(p, d)
       /\ command' = [command EXCEPT ![p].todo = @ \ {d}]
       /\ content' = [content EXCEPT ![d] = "none"]
       /\ document' = [document EXCEPT ![d] = Gone]
       /\ signature' = [signature EXCEPT ![d] = Gone]
       /\ everStable' = everStable \ {d}
  /\ UNCHANGED <<clock, kills, target>>

\* The removal stops in the middle: any of its files may be left.
PruneIsInterrupted(p) ==
  /\ Due(p, "prune")
  /\ \E d \in command[p].todo :
       /\ Oldest(p, d) /\ Doomed(p, d)
       /\ content' = [content EXCEPT ![d] = "part"]
       /\ \E r \in {document[d], Gone} : document' = [document EXCEPT ![d] = r]
       /\ \E r \in {signature[d], Gone} : signature' = [signature EXCEPT ![d] = r]
  /\ Dies(p)
  /\ UNCHANGED <<clock, target, everStable>>

PruneEnds(p) ==
  /\ Due(p, "prune")
  /\ command[p].todo = {}
  /\ Finishes(p)
  /\ UNCHANGED <<clock, kills, store, everStable>>

\* p is killed, or a read or write of its fails and changes nothing.
Killed(p) ==
  /\ command[p] # Waiting
  /\ Dies(p)
  /\ UNCHANGED <<clock, store, everStable>>

\* Bound: time that counts passes while no command or a suite runs; the other
\* commands read the clock once and are over in less.
ClockTicks ==
  /\ clock < MaxClock
  /\ \A p \in Operators : command[p].cmd \in {"none", "test"}
  /\ clock' = clock + 1
  /\ UNCHANGED <<store, command, kills, everStable>>

StoreStep(p) ==
  \/ CutBegin(p) \/ TestBegin(p) \/ Promote(p) \/ PromoteSoaked(p)
  \/ Hold(p) \/ Unhold(p) \/ Prune(p)
  \/ SuitePasses(p) \/ SuiteFails(p) \/ Survey(p) \/ Retreat(p)
  \/ WriteDocument(p) \/ WriteSignature(p) \/ SignatureFails(p)
  \/ Commit(p) \/ CutFails(p) \/ PointChannel(p) \/ ClearChannel(p)
  \/ PruneKeeps(p) \/ PruneRemoves(p) \/ PruneIsInterrupted(p) \/ PruneEnds(p)
  \/ Killed(p)

StoreNext == ClockTicks \/ \E p \in Operators : StoreStep(p)

StoreSpec == StoreInit /\ [][StoreNext]_storeVars

-----------------------------------------------------------------------------
(* Properties.                                                             *)

\* Clients find what a channel names: it is a directory with a manifest, also
\* after prunes and kills.  With one command at a time.
TargetsAreKept ==
  \A c \in Pointers : target[c] # Nowhere => document[target[c]] # Gone

\* The manifest says first: what rc or stable names has its manifest record
\* that it reached that channel, which pinning and rollback ask for, whatever
\* step a command was killed at.
ManifestSaysFirst ==
  /\ target["rc"] # Nowhere => document[target["rc"]].rc # Never
  /\ target["stable"] # Nowhere => document[target["stable"]].stable

\* What moves rc and stable without being told a snapshot moves them one way: a
\* hold or a failed re-test only back, to an older snapshot that passed its suite
\* and is not held, and an automatic promotion only forward.
MovesAreOneWay ==
  [][ \A c \in {"rc", "stable"} : \A p \in Operators :
        ( target'[c] # target[c] /\ target'[c] # Nowhere ) =>
        /\ command[p].cmd = "hold" \/ (command[p].cmd = "test" /\ command[p].rel.tests = "fail")
           => /\ target[c] # Nowhere /\ target'[c] < target[c]
              /\ document[target'[c]].tests = "pass" /\ ~document[target'[c]].held
        /\ command[p].cmd = "auto" /\ c = "stable" /\ target[c] # Nowhere
           => target'[c] > target[c] ]_storeVars

\* Prune keeps a snapshot that stable ever named for the longer period.
StableIsKeptLonger ==
  [][ \A d \in everStable :
        (content[d] = "whole" /\ content'[d] # "whole") => clock > document[d].created + StableRetain ]_storeVars

\* "hold marks a snapshot held; unhold clears the flag"
\* (docs/spec/snapshot-store.md): a test whose suite still runs when the hold is
\* placed does not take it away when it records its result.
HoldIsKept ==
  [][ \A p \in Operators, d \in SnapshotIds :
        (command[p].cmd = "test" /\ command'[p] # command[p] /\ document[d] # Gone /\ document[d].held)
        => document'[d].held ]_storeVars

=============================================================================
