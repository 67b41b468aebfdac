--------------------------- MODULE ProgressProofs ---------------------------
(***************************************************************************)
(* Theorems about Progress: nothing of a build phase outlives it, one that *)
(* succeeded is within its budget, and no mirror, cache or interleaving of *)
(* requests rolls a client back.  They need no fairness.                   *)
(***************************************************************************)
EXTENDS Progress, SequenceTheorems, TLAPS

-----------------------------------------------------------------------------
(* The supervisor of a phase.                                              *)

Quiet == \A k \in Kids : kid[k] = "none"

\* Before the leader starts, and from the last accounting on, no process of
\* the phase is there that could write or fork.
BuildInv ==
  /\ TypeOK
  /\ \A k \in Others : kid[k] \in {"none", "running"}
  /\ pc \in {"ready", "grouped", "final", "closing", "ended"} => Quiet
  /\ pc = "reaped" => kid[Leader] = "none"
  /\ outcome = "ok" => /\ pc \in {"drop", "closing", "ended", "dead"}
                       /\ Quiet /\ disk <= Budget

\* What a kill leaves is not alive, and nothing comes to life by it.
LEMMA KilledAre ==
  ASSUME BuildInv, NEW ks \in SUBSET Kids, Killed(ks)
  PROVE  /\ kid' \in [Kids -> {"none", "waiting", "fed", "running", "zombie"}]
         /\ joined' \subseteq {k \in Kids : kid'[k] = "running"}
         /\ \A k \in Others : kid'[k] \in {"none", "running"}
         /\ \A k \in Kids : kid[k] = "none" => kid'[k] = "none"
         /\ \A k \in ks \cap Others : kid'[k] = "none"
<1>0. Leader \notin Others /\ Leader \in Kids /\ Others \subseteq Kids
  BY BuildProcessAssumption DEF Kids
<1>1. \A k \in Kids : kid'[k] = IF k \notin ks \/ ~Alive(k) THEN kid[k]
                                ELSE IF k = Leader /\ ~Dead THEN "zombie" ELSE "none"
  BY DEF Killed
<1>2. kid' \in [Kids -> {"none", "waiting", "fed", "running", "zombie"}]
  BY DEF Killed, BuildInv, TypeOK
<1>3. \A k \in Kids : kid[k] = "none" => kid'[k] = "none"
  BY <1>1 DEF Alive
<1>4. \A k \in Others : kid'[k] \in {"none", "running"} /\ (k \in ks => kid'[k] = "none")
  BY <1>0, <1>1 DEF BuildInv, Alive
<1>5. joined' \subseteq {k \in Kids : kid'[k] = "running"}
  BY <1>1 DEF Killed, BuildInv, TypeOK
<1> QED BY <1>2, <1>3, <1>4, <1>5

\* The steps of the supervisor, one after the other.
LEMMA SuperviseStep ==
  ASSUME BuildInv, Supervise
  PROVE  BuildInv'
<1>0. Leader \notin Others /\ Leader \in Kids /\ Others \subseteq Kids
  BY BuildProcessAssumption DEF Kids
<1>1. CASE CreateGroup
  BY <1>1 DEF CreateGroup, BuildInv, TypeOK, Quiet, signals
<1>2. CASE Spawn
  BY <1>0, <1>2 DEF Spawn, BuildInv, TypeOK, Quiet, signals, cgroupVars
<1>3. CASE Manage
  BY <1>3 DEF Manage, BuildInv, TypeOK, Quiet, cgroupVars
<1>4. CASE Feed
  BY <1>0, <1>4, BuildProcessAssumption DEF Feed, BuildInv, TypeOK, Quiet, signals, cgroupVars
<1>5. CASE CheckRunning
  BY <1>5 DEF CheckRunning, Goto, Fail, BuildInv, TypeOK, Quiet, signals, cgroupVars
<1>6. CASE SampleDisk
  BY <1>6 DEF SampleDisk, Fail, BuildInv, TypeOK, Quiet, signals, cgroupVars
<1>7. CASE TryWait
  BY <1>0, <1>7 DEF TryWait, Goto, BuildInv, TypeOK, Quiet, signals, cgroupVars
<1>8. CASE KillGroup
  <2>1. Killed(Kids) /\ pc = "reaped" /\ pc' = "final"
        /\ UNCHANGED <<cgroup, outcome, phase, elapsed, disk, default, cancelled, group, watcher>>
    BY <1>8 DEF KillGroup, signals
  <2>2. /\ kid' \in [Kids -> {"none", "waiting", "fed", "running", "zombie"}]
        /\ joined' \subseteq {k \in Kids : kid'[k] = "running"}
        /\ \A k \in Others : kid'[k] = "none"
        /\ kid'[Leader] = "none"
    BY <1>0, <2>1, KilledAre DEF BuildInv
  <2>3. Quiet'
    BY <2>2 DEF Quiet, Kids
  <2> QED BY <2>1, <2>2, <2>3 DEF BuildInv, TypeOK
<1>9. CASE FinalCheck
  BY <1>9 DEF FinalCheck, Fail, BuildInv, TypeOK, Quiet, signals, cgroupVars
<1>10. CASE DropKill
  BY <1>0, <1>10 DEF DropKill, BuildInv, TypeOK, Quiet
<1>11. CASE DropGroup
  BY <1>11 DEF DropGroup, BuildInv, TypeOK, Quiet, signals
<1>12. CASE NextPhase
  BY <1>12, BuildProcessAssumption DEF NextPhase, BuildInv, TypeOK, Quiet, signals, cgroupVars
<1> QED BY <1>1, <1>2, <1>3, <1>4, <1>5, <1>6, <1>7, <1>8, <1>9, <1>10, <1>11, <1>12
        DEF Supervise

\* The processes of the group, the watcher, signals and time.
LEMMA GroupStep ==
  ASSUME BuildInv, Group \/ Watch \/ Interrupt \/ Kill \/ Tick
  PROVE  BuildInv'
<1>0. Leader \notin Others /\ Leader \in Kids /\ Others \subseteq Kids
  BY BuildProcessAssumption DEF Kids
<1>1. ASSUME NEW ks \in SUBSET Kids, Killed(ks), watcher' \in {watcher, "removing"},
             UNCHANGED <<cgroup, pc, outcome, phase, elapsed, disk, default, cancelled, group>>
      PROVE  BuildInv'
  <2>1. /\ kid' \in [Kids -> {"none", "waiting", "fed", "running", "zombie"}]
        /\ joined' \subseteq {k \in Kids : kid'[k] = "running"}
        /\ \A k \in Others : kid'[k] \in {"none", "running"}
        /\ \A k \in Kids : kid[k] = "none" => kid'[k] = "none"
    BY <1>1, KilledAre
  <2>2. Quiet => Quiet'
    BY <2>1 DEF Quiet
  <2> QED BY <1>0, <1>1, <2>1, <2>2 DEF BuildInv, TypeOK
<1>2. CASE HelperEnds
  BY <1>0, <1>2 DEF HelperEnds, Dead, BuildInv, TypeOK, Quiet, signals, cgroupVars
<1>3. CASE Exec
  <2>1. CASE cgroup /\ ~group
    BY <1>0, <1>1, <1>3, <2>1 DEF Exec, signals
  <2>2. CASE ~(cgroup /\ ~group)
    BY <1>0, <1>3, <2>2 DEF Exec, BuildInv, TypeOK, Quiet, signals
  <2> QED BY <2>1, <2>2
<1>4. CASE Write
  BY <1>0, <1>4, BuildProcessAssumption DEF Write, BuildInv, TypeOK, Quiet, signals, cgroupVars
<1>5. ASSUME NEW k \in Kids, Fork(k) PROVE BuildInv'
  BY <1>0, <1>5 DEF Fork, BuildInv, TypeOK, Quiet, signals
<1>6. ASSUME NEW k \in Kids, Exit(k) PROVE BuildInv'
  BY <1>1, <1>6 DEF Exit, signals
<1>7. CASE WatcherKills
  <2>1. joined \in SUBSET Kids
    BY DEF BuildInv, TypeOK
  <2> QED BY <1>1, <1>7, <2>1 DEF WatcherKills, signals
<1>8. CASE WatcherRemoves \/ WatcherDies
  BY <1>8 DEF WatcherRemoves, WatcherDies, BuildInv, TypeOK, Quiet, signals
<1>9. CASE Interrupt \/ Kill
  BY <1>9 DEF Interrupt, Kill, Goto, BuildInv, TypeOK, Quiet, signals, cgroupVars
<1>10. CASE Tick
  BY <1>10, BuildProcessAssumption DEF Tick, BuildInv, TypeOK, Quiet, signals, cgroupVars
<1> QED BY <1>2, <1>3, <1>4, <1>5, <1>6, <1>7, <1>8, <1>9, <1>10 DEF Group, Watch

\* The invariant of the build processes holds throughout.
LEMMA BuildHolds == Init /\ [][Next]_vars => []BuildInv
<1>1. Init => BuildInv
  <2> SUFFICES ASSUME Init PROVE BuildInv
    OBVIOUS
  <2>1. \A k \in Kids : kid[k] = "none"
    BY DEF Init
  <2>2. kid \in [Kids -> {"none", "waiting", "fed", "running", "zombie"}]
    BY DEF Init
  <2>3. 1 \in 1..MaxPhases /\ 0 \in 0..WallLimit /\ 0 \in 0..MaxDisk
    BY BuildProcessAssumption
  <2>4. TypeOK
    BY <2>2, <2>3 DEF Init, TypeOK
  <2> QED BY <2>1, <2>4 DEF Init, BuildInv, Quiet, Kids
<1>2. BuildInv /\ [Next]_vars => BuildInv'
  <2>1. BuildInv /\ UNCHANGED vars => BuildInv'
    BY DEF vars, BuildInv, TypeOK, Quiet
  <2> QED BY <2>1, SuperviseStep, GroupStep DEF Next
<1> QED BY <1>1, <1>2, PTL

\* However a phase ends and whichever of its processes ends first, none is
\* left when pacvamp goes on (build_process.rs).
THEOREM PhasesAreClosed == Spec => []NothingOutlivesPhase
<1>1. BuildInv => NothingOutlivesPhase
  BY DEF BuildInv, NothingOutlivesPhase, Quiet
<1>2. Spec => Init /\ [][Next]_vars
  BY DEF Spec
<1> QED BY <1>1, <1>2, BuildHolds, PTL

\* The disk is only sampled; the last accounting comes when nobody can write
\* any more (build_process.rs).
THEOREM BudgetIsKept == Spec => []SuccessIsWithinBudget
<1>1. BuildInv => SuccessIsWithinBudget
  BY DEF BuildInv, SuccessIsWithinBudget
<1>2. Spec => Init /\ [][Next]_vars
  BY DEF Spec
<1> QED BY <1>1, <1>2, BuildHolds, PTL
-----------------------------------------------------------------------------
(* The clients of a signed document.                                       *)

Phases == {"idle", "document", "signature", "keep", "record", "advance", "use"}
Readers == [phase : Phases, seen : Nat, cached : Nat, doc : Nat \cup {Other},
            floor : Nat]
Feeders == [reader : [Clients -> Readers], settled : Nat, overlapped : BOOLEAN]
Origins == [kind : Kinds, made : Seq(Nat), doc : Nat, sig : Nat, before : Nat,
            writing : BOOLEAN, steady : BOOLEAN]

\* A document's sequence, by the documents that were made.
In(made, d) == IF d = 0 THEN 0 ELSE made[d]

\* What a request has checked by the time it gets to a phase.
OfIndex(r, made) ==
  /\ r.floor <= r.seen
  /\ r.phase \in {"keep", "record", "use"} => In(made, r.doc) >= r.seen

OfTools(r, made, mark) ==
  /\ r.floor <= mark
  /\ r.phase = "advance" => In(made, r.doc) >= mark
  /\ r.phase = "use" => In(made, r.doc) >= r.floor

OfAdvisories(r, made, kept) ==
  /\ r.phase # "idle" => r.floor <= In(made, r.cached)
  /\ r.phase \in {"document", "signature", "keep"} => r.cached = kept
  /\ r.phase \in {"keep", "record", "use"} => In(made, r.doc) >= In(made, r.cached)

Checked(r, kind, made, kept, mark, overlapped) ==
  /\ r.cached \in 0..Len(made)
  /\ r.doc \in 0..Len(made) \cup {Other}
  /\ r.phase \in {"keep", "record", "advance", "use"} => r.doc \in 0..Len(made)
  /\ r.phase = "advance" => kind = "tools"
  /\ kind = "index" => OfIndex(r, made)
  /\ kind = "tools" => OfTools(r, made, mark)
  /\ kind = "advisories" /\ ~overlapped => OfAdvisories(r, made, kept)

OriginInv ==
  /\ origin \in Origins
  /\ origin.doc \in 0..Len(origin.made) /\ origin.sig \in 0..Len(origin.made)
  /\ origin.before \in 0..Len(origin.made)

\* What was used last is known; only one process at a time replaces the marker;
\* requests for a feed overlap only once they are said to.
FeedInv ==
  /\ OriginInv
  /\ client \in Feeders /\ cache \in 0..Len(origin.made) /\ marker \in Nat
  /\ \A c \in Clients : Checked(client.reader[c], origin.kind, origin.made, cache, marker,
                                client.overlapped)
  /\ origin.kind # "advisories" => client.settled <= marker
  /\ origin.kind = "advisories" /\ ~client.overlapped =>
       /\ client.settled <= In(origin.made, cache)
       /\ \A c, d \in Clients :
            client.reader[c].phase # "idle" /\ client.reader[d].phase # "idle" => c = d
  /\ \A c, d \in Clients :
       client.reader[c].phase = "advance" /\ client.reader[d].phase = "advance" => c = d

\* Sequences are numbers, and Sequence is theirs.
LEMMA SequencesAre ==
  ASSUME OriginInv
  PROVE  /\ Len(origin.made) \in Nat
         /\ \A d \in 0..Len(origin.made) : In(origin.made, d) \in Nat
         /\ \A d : Sequence(d) = In(origin.made, d)
<1>1. origin.made \in Seq(Nat)
  BY DEF OriginInv, Origins
<1> QED BY <1>1 DEF In, Sequence

\* Making a document changes nothing of the others.
LEMMA MadeStays ==
  ASSUME NEW made \in Seq(Nat), NEW n \in Nat
  PROVE  /\ Append(made, n) \in Seq(Nat) /\ Len(Append(made, n)) = Len(made) + 1
         /\ \A d \in 0..Len(made) : In(Append(made, n), d) = In(made, d)
BY AppendProperties DEF In

\* What the publisher may do to its directory.
LEMMA OriginMoves ==
  ASSUME FeedInv, PublisherNext
  PROVE  /\ OriginInv' /\ UNCHANGED <<cache, marker, client>> /\ origin'.kind = origin.kind
         /\ \/ origin'.made = origin.made
            \/ \E n \in Nat : origin'.made = Append(origin.made, n)
<1> PICK o \in Origins : o = origin
  BY DEF FeedInv, OriginInv
<1>0. /\ o.made \in Seq(Nat) /\ Len(o.made) \in Nat /\ o.doc \in 0..Len(o.made)
      /\ o.sig \in 0..Len(o.made) /\ o.before \in 0..Len(o.made)
      /\ o.doc \in Nat /\ o.sig \in Nat /\ o.before \in Nat
  BY DEF FeedInv, OriginInv, Origins
<1>1. CASE Publish
  <2> PICK n : n = Sequence(o.doc) + 1
    OBVIOUS
  <2> PICK made : made = Append(o.made, n)
    OBVIOUS
  <2>1. n \in Nat
    BY <1>0, SequencesAre DEF FeedInv
  <2>2. made \in Seq(Nat) /\ Len(made) = Len(o.made) + 1 /\ Len(made) \in Nat
    BY <1>0, <2>1, MadeStays
  <2>3. origin' = [o EXCEPT !.made = made, ![FirstRenamed] = Len(made),
                            !.before = o[FirstRenamed], !.writing = TRUE]
        /\ UNCHANGED <<cache, marker, client>>
    BY <1>1 DEF Publish
  <2>4. CASE FirstRenamed = "sig"
    <3>1. origin' = [o EXCEPT !.made = made, !.sig = Len(made), !.before = o.sig, !.writing = TRUE]
      BY <2>3, <2>4
    <3>2. /\ origin' \in Origins /\ origin'.kind = o.kind /\ origin'.made = made
          /\ origin'.doc = o.doc /\ origin'.sig = Len(made) /\ origin'.before = o.sig
      BY <1>0, <2>1, <2>2, <2>3, <3>1 DEF Origins
    <3>3. OriginInv'
      BY <1>0, <2>2, <3>2 DEF OriginInv
    <3>4. origin'.made = Append(origin.made, n)
      BY <3>2
    <3> QED BY <2>1, <2>3, <3>2, <3>3, <3>4
  <2>5. CASE FirstRenamed = "doc"
    <3>1. origin' = [o EXCEPT !.made = made, !.doc = Len(made), !.before = o.doc, !.writing = TRUE]
      BY <2>3, <2>5
    <3>2. /\ origin' \in Origins /\ origin'.kind = o.kind /\ origin'.made = made
          /\ origin'.doc = Len(made) /\ origin'.sig = o.sig /\ origin'.before = o.doc
      BY <1>0, <2>1, <2>2, <2>3, <3>1 DEF Origins
    <3>3. OriginInv'
      BY <1>0, <2>2, <3>2 DEF OriginInv
    <3>4. origin'.made = Append(origin.made, n)
      BY <3>2
    <3> QED BY <2>1, <2>3, <3>2, <3>3, <3>4
  <2> QED BY <2>4, <2>5 DEF FirstRenamed
<1>2. CASE PublishSecond
  <2>0. UNCHANGED <<cache, marker, client>>
    BY <1>2 DEF PublishSecond
  <2>1. CASE SecondRenamed = "sig"
    <3>1. origin' = [o EXCEPT !.sig = Len(o.made), !.before = 0, !.writing = FALSE]
      BY <1>2, <2>1 DEF PublishSecond
    <3>2. /\ origin' \in Origins /\ origin'.kind = o.kind /\ origin'.made = o.made
          /\ origin'.doc = o.doc /\ origin'.sig = Len(o.made) /\ origin'.before = 0
      BY <1>0, <2>0, <3>1 DEF Origins
    <3> QED BY <1>0, <2>0, <3>1, <3>2 DEF OriginInv
  <2>2. CASE SecondRenamed = "doc"
    <3>1. origin' = [o EXCEPT !.doc = Len(o.made), !.before = 0, !.writing = FALSE]
      BY <1>2, <2>2 DEF PublishSecond
    <3>2. /\ origin' \in Origins /\ origin'.kind = o.kind /\ origin'.made = o.made
          /\ origin'.doc = Len(o.made) /\ origin'.sig = o.sig /\ origin'.before = 0
      BY <1>0, <2>0, <3>1 DEF Origins
    <3> QED BY <1>0, <2>0, <3>1, <3>2 DEF OriginInv
  <2> QED BY <2>1, <2>2 DEF SecondRenamed
<1>3. CASE PublishFails
  <2>0. PICK restored \in {o.before, o[FirstRenamed]} :
          origin' = [o EXCEPT ![FirstRenamed] = restored, !.before = 0, !.writing = FALSE]
    BY <1>3 DEF PublishFails
  <2>00. UNCHANGED <<cache, marker, client>>
    BY <1>3 DEF PublishFails
  <2>1. CASE FirstRenamed = "sig"
    <3>1. origin' = [o EXCEPT !.sig = restored, !.before = 0, !.writing = FALSE]
          /\ restored \in 0..Len(o.made) /\ restored \in Nat
      BY <1>0, <2>0, <2>1
    <3>2. /\ origin' \in Origins /\ origin'.kind = o.kind /\ origin'.made = o.made
          /\ origin'.doc = o.doc /\ origin'.sig = restored /\ origin'.before = 0
      BY <1>0, <2>00, <3>1 DEF Origins
    <3> QED BY <1>0, <2>00, <3>1, <3>2 DEF OriginInv
  <2>2. CASE FirstRenamed = "doc"
    <3>1. origin' = [o EXCEPT !.doc = restored, !.before = 0, !.writing = FALSE]
          /\ restored \in 0..Len(o.made) /\ restored \in Nat
      BY <1>0, <2>0, <2>2
    <3>2. /\ origin' \in Origins /\ origin'.kind = o.kind /\ origin'.made = o.made
          /\ origin'.doc = restored /\ origin'.sig = o.sig /\ origin'.before = 0
      BY <1>0, <2>00, <3>1 DEF Origins
    <3> QED BY <1>0, <2>00, <3>1, <3>2 DEF OriginInv
  <2> QED BY <2>1, <2>2 DEF FirstRenamed
<1>4. CASE Settle
  <2>1. origin' = [o EXCEPT !.steady = TRUE]
    BY <1>4 DEF Settle
  <2> QED BY <1>0, <1>4, <2>1 DEF Settle, OriginInv, Origins
<1> QED BY <1>1, <1>2, <1>3, <1>4 DEF PublisherNext

\* What the publisher writes only adds documents, each of a higher sequence.
LEMMA PublisherStep ==
  ASSUME FeedInv, PublisherNext
  PROVE  FeedInv'
<1> PICK made, more : made = origin.made /\ more = origin'.made
  OBVIOUS
<1>1. /\ OriginInv' /\ UNCHANGED <<cache, marker, client>> /\ origin'.kind = origin.kind
      /\ more = made \/ \E n \in Nat : more = Append(made, n)
  BY OriginMoves
<1>2. made \in Seq(Nat) /\ Len(made) \in Nat
  BY DEF FeedInv, OriginInv, Origins
<1>3. Len(more) \in Nat /\ Len(made) <= Len(more)
      /\ \A d \in 0..Len(made) : In(more, d) = In(made, d)
  <2>1. CASE more = made
    BY <1>2, <2>1
  <2>2. ASSUME NEW n \in Nat, more = Append(made, n)
        PROVE  Len(more) = Len(made) + 1 /\ \A d \in 0..Len(made) : In(more, d) = In(made, d)
    BY <1>2, <2>2, MadeStays
  <2> QED BY <1>1, <1>2, <2>1, <2>2
<1>4. ASSUME NEW r, NEW kind, NEW kept, NEW mark, NEW over, Checked(r, kind, made, kept, mark, over)
      PROVE  Checked(r, kind, more, kept, mark, over)
  BY <1>2, <1>3, <1>4 DEF Checked, OfIndex, OfTools, OfAdvisories
<1>5. cache \in 0..Len(more) /\ In(more, cache) = In(made, cache)
  BY <1>2, <1>3 DEF FeedInv
<1> QED BY <1>1, <1>4, <1>5 DEF FeedInv

\* A step of c that leaves it with the request w.
Moves(c, w) ==
  /\ client' \in Feeders
  /\ \A d \in Clients : client'.reader[d] = IF d = c THEN w ELSE client.reader[d]
  /\ client'.overlapped = client.overlapped

Asked(w, r) == w.seen = r.seen /\ w.cached = r.cached /\ w.floor = r.floor

\* What a client's move changes: its own reader, and nothing that is settled.
LEMMA MoveIs ==
  ASSUME FeedInv, NEW c \in Clients, NEW w \in Readers, Move(c, w)
  PROVE  Moves(c, w) /\ client'.settled = client.settled
<1> PICK x \in Feeders : x = client
  BY DEF FeedInv
<1>1. client' = [x EXCEPT !.reader[c] = w]
  BY DEF Move
<1>2. client'.reader = [x.reader EXCEPT ![c] = w]
      /\ client'.settled = x.settled /\ client'.overlapped = x.overlapped /\ client' \in Feeders
  BY <1>1 DEF Feeders
<1> QED BY <1>2 DEF Feeders, Moves

\* A client that proceeds stays with its document, and with what it read of it.
LEMMA ProceedIs ==
  ASSUME FeedInv, NEW c \in Clients, NEW p \in Phases, Proceed(c, p)
  PROVE  \E w \in Readers :
           /\ Moves(c, w) /\ client'.settled = client.settled
           /\ w.phase = p /\ w.doc = client.reader[c].doc /\ Asked(w, client.reader[c])
<1> PICK r \in Readers : r = client.reader[c] /\ r = reader(c)
  BY DEF FeedInv, Feeders, reader
<1> PICK w : w = [r EXCEPT !.phase = p]
  OBVIOUS
<1>1. w \in Readers /\ w.phase = p /\ w.doc = r.doc /\ Asked(w, r)
  BY DEF Readers, Asked, Phases
<1>2. Move(c, w)
  BY DEF Proceed
<1> QED BY <1>1, <1>2, MoveIs

\* A request that ended holds no document and no floor.
LEMMA EndedIs ==
  ASSUME NEW r \in Readers
  PROVE  /\ Ended(r) \in Readers /\ Ended(r).phase = "idle" /\ Ended(r).doc = 0
         /\ Ended(r).seen = 0 /\ Ended(r).cached = 0 /\ Ended(r).floor = 0
BY DEF Readers, Ended, Phases

\* What is left to show of a client's step.
LEMMA StepKeeps ==
  ASSUME FeedInv, NEW c \in Clients, NEW w \in Readers, Moves(c, w), origin' = origin,
         marker' \in Nat, marker' >= marker, cache' \in 0..Len(origin.made),
         Checked(w, origin.kind, origin.made, cache', marker', client.overlapped),
         w.phase # "idle" => client.reader[c].phase # "idle",
         w.phase = "advance" =>
           \A d \in Clients : d # c => client.reader[d].phase # "advance",
         \/ marker' = marker \/ origin.kind # "tools"
         \/ \A d \in Clients : d # c => client.reader[d].phase # "advance",
         cache' = cache \/ client.reader[c].phase # "idle",
         origin.kind # "advisories" => client'.settled <= marker',
         origin.kind = "advisories" /\ ~client.overlapped =>
           client'.settled <= In(origin.made, cache')
  PROVE  FeedInv'
<1> PICK kind, made, over : kind = origin.kind /\ made = origin.made /\ over = client.overlapped
  OBVIOUS
<1>1. client' \in Feeders /\ client'.overlapped = over
      /\ \A d \in Clients : client'.reader[d] = IF d = c THEN w ELSE client.reader[d]
  BY DEF Moves
<1>2. ASSUME NEW d \in Clients, d # c
      PROVE  Checked(client.reader[d], kind, made, cache', marker', over)
  <2> PICK r \in Readers : r = client.reader[d]
    BY DEF FeedInv, Feeders
  <2>1. Checked(r, kind, made, cache, marker, over)
    BY DEF FeedInv
  <2>2. kind = "tools" => OfTools(r, made, marker')
    <3>1. r.floor \in Nat /\ marker \in Nat
      BY DEF Readers, FeedInv
    <3> QED BY <1>2, <2>1, <3>1 DEF Checked, OfTools
  <2>3. kind = "advisories" /\ ~over => OfAdvisories(r, made, cache')
    <3>1. kind = "advisories" /\ ~over => cache' = cache \/ r.phase = "idle"
      BY <1>2 DEF FeedInv
    <3> QED BY <2>1, <3>1 DEF Checked, OfAdvisories
  <2> QED BY <2>1, <2>2, <2>3 DEF Checked
<1>3. \A d \in Clients : Checked(client'.reader[d], kind, made, cache', marker', over)
  BY <1>1, <1>2
<1>4. kind = "advisories" /\ ~over =>
        \A d, e \in Clients :
          client'.reader[d].phase # "idle" /\ client'.reader[e].phase # "idle" => d = e
  BY <1>1 DEF FeedInv
<1>5. \A d, e \in Clients :
        client'.reader[d].phase = "advance" /\ client'.reader[e].phase = "advance" => d = e
  BY <1>1 DEF FeedInv
<1>6. OriginInv'
  BY DEF FeedInv, OriginInv
<1> QED BY <1>1, <1>3, <1>4, <1>5, <1>6 DEF FeedInv

\* A request that ends.
LEMMA AbandonStep ==
  ASSUME FeedInv, NEW c \in Clients, Abandon(c), UNCHANGED <<origin, cache, marker>>
  PROVE  FeedInv'
<1> PICK r \in Readers : r = client.reader[c] /\ r = reader(c)
  BY DEF FeedInv, Feeders, reader
<1> PICK w \in Readers : w = Ended(r) /\ w.phase = "idle" /\ w.doc = 0
                         /\ w.seen = 0 /\ w.cached = 0 /\ w.floor = 0
  BY EndedIs
<1>1. Moves(c, w) /\ client'.settled = client.settled
  BY MoveIs DEF Abandon
<1>2. marker \in Nat /\ Len(origin.made) \in Nat
  BY SequencesAre DEF FeedInv
<1>3. Checked(w, origin.kind, origin.made, cache, marker, client.overlapped)
  BY <1>2 DEF Checked, OfIndex, OfTools, OfAdvisories
<1> QED BY <1>1, <1>2, <1>3, StepKeeps DEF FeedInv

\* A request that goes on, and neither the cache nor the marker changes.
LEMMA ProceedStep ==
  ASSUME FeedInv, NEW c \in Clients, NEW w \in Readers, Moves(c, w),
         client'.settled = client.settled, UNCHANGED <<origin, cache, marker>>,
         client.reader[c].phase # "idle",
         w.phase = "advance" =>
           \A d \in Clients : d # c => client.reader[d].phase # "advance",
         Checked(w, origin.kind, origin.made, cache, marker, client.overlapped)
  PROVE  FeedInv'
<1>1. marker \in Nat
  BY DEF FeedInv
<1> QED BY <1>1, StepKeeps DEF FeedInv

\* Falling back to the cache takes a document that was accepted before.
LEMMA FallbackStep ==
  ASSUME FeedInv, NEW c \in Clients, Fallback(c), UNCHANGED <<origin, cache, marker>>,
         client.reader[c].phase \in {"document", "signature"}
  PROVE  FeedInv'
<1> PICK r \in Readers : r = client.reader[c] /\ r = reader(c)
  BY DEF FeedInv, Feeders, reader
<1>1. CASE Abandon(c)
  BY <1>1, AbandonStep
<1>2. CASE ~Abandon(c)
  <2> PICK w : w = [r EXCEPT !.phase = "record", !.doc = r.cached]
    OBVIOUS
  <2>1. r.cached # 0 /\ Sequence(r.cached) >= r.seen /\ Move(c, w)
    BY <1>2 DEF Fallback, Accept
  <2>2. Checked(r, origin.kind, origin.made, cache, marker, client.overlapped)
    BY DEF FeedInv
  <2>3. w \in Readers /\ w.phase = "record" /\ w.doc = r.cached /\ Asked(w, r)
    BY DEF Readers, Phases, Asked
  <2>4. Moves(c, w) /\ client'.settled = client.settled
    BY <2>1, <2>3, MoveIs
  <2>5. In(origin.made, r.cached) \in Nat /\ In(origin.made, r.cached) >= r.seen
    BY <2>1, <2>2, SequencesAre DEF FeedInv, Checked
  <2>6. Checked(w, origin.kind, origin.made, cache, marker, client.overlapped)
    BY <2>2, <2>3, <2>5 DEF Checked, OfIndex, OfTools, OfAdvisories, Asked
  <2> QED BY <2>3, <2>4, <2>6, ProceedStep
<1> QED BY <1>1, <1>2

\* A request starts from the marker it reads.
LEMMA BeginStep ==
  ASSUME FeedInv, NEW c \in Clients, BeginRequest(c)
  PROVE  FeedInv'
<1> PICK x \in Feeders : x = client
  BY DEF FeedInv
<1> PICK others \in BOOLEAN : others = \E d \in Clients \ {c} : x.reader[d].phase # "idle"
  OBVIOUS
<1> PICK made, kind : made = origin.made /\ kind = origin.kind
  OBVIOUS
<1> PICK w : w = [phase |-> "document", cached |-> cache, doc |-> 0,
                  seen |-> IF kind = "index" THEN marker ELSE 0, floor |-> x.settled]
  OBVIOUS
<1> PICK over : over = (x.overlapped \/ (kind = "advisories" /\ others))
  OBVIOUS
<1>1. /\ x.reader[c].phase = "idle" /\ UNCHANGED <<origin, cache, marker>>
      /\ client' = [x EXCEPT !.reader[c] = w, !.overlapped = over]
  BY DEF BeginRequest, At, reader
<1>2. cache \in 0..Len(made) /\ cache \in Nat /\ marker \in Nat /\ Len(made) \in Nat /\ x.settled \in Nat
      /\ over \in BOOLEAN
  BY SequencesAre DEF FeedInv, Feeders
<1>3. w \in Readers
  BY <1>2 DEF Readers, Phases
<1>4. /\ client' \in Feeders /\ client'.settled = x.settled /\ client'.overlapped = over
      /\ \A d \in Clients : client'.reader[d] = IF d = c THEN w ELSE x.reader[d]
  BY <1>1, <1>2, <1>3 DEF Feeders
<1>5. Checked(w, kind, made, cache, marker, over)
  <2>1. kind = "index" => x.settled <= marker
    BY DEF FeedInv
  <2>2. kind = "tools" => x.settled <= marker
    BY DEF FeedInv
  <2>3. kind = "advisories" /\ ~over => x.settled <= In(made, cache)
    BY <1>2 DEF FeedInv, Feeders
  <2> QED BY <1>2, <2>1, <2>2, <2>3 DEF Checked, OfIndex, OfTools, OfAdvisories
<1>6. ASSUME NEW d \in Clients, d # c PROVE Checked(x.reader[d], kind, made, cache, marker, over)
  <2>1. Checked(x.reader[d], kind, made, cache, marker, x.overlapped)
    BY DEF FeedInv
  <2>2. ~over => ~x.overlapped
    OBVIOUS
  <2> QED BY <2>1, <2>2 DEF Checked
<1>a. kind = "advisories" /\ ~over => \A d \in Clients : d = c \/ x.reader[d].phase = "idle"
  OBVIOUS
<1>7. kind = "advisories" /\ ~over =>
        \A d, e \in Clients :
          client'.reader[d].phase # "idle" /\ client'.reader[e].phase # "idle" => d = e
  BY <1>4, <1>a
<1>8. \A d, e \in Clients :
        client'.reader[d].phase = "advance" /\ client'.reader[e].phase = "advance" => d = e
  BY <1>4 DEF FeedInv
<1>9. OriginInv' /\ origin' = origin /\ cache' = cache /\ marker' = marker
  BY <1>1 DEF FeedInv, OriginInv
<1>10. \A d \in Clients : Checked(client'.reader[d], kind, made, cache, marker, over)
  BY <1>4, <1>5, <1>6
<1>11. kind # "advisories" => client'.settled <= marker
  BY <1>4 DEF FeedInv
<1>12. kind = "advisories" /\ ~over => client'.settled <= In(made, cache)
  BY <1>2, <1>4 DEF FeedInv
<1> QED BY <1>2, <1>4, <1>7, <1>8, <1>9, <1>10, <1>11, <1>12 DEF FeedInv

\* A fetch goes on only with a document that passed the checks, or falls back to
\* the cache.
LEMMA FetchStep ==
  ASSUME FeedInv, NEW c \in Clients, FetchDocument(c) \/ FetchSignature(c) \/ NoNetwork(c)
  PROVE  FeedInv'
<1> PICK r \in Readers : r = client.reader[c] /\ r = reader(c)
  BY DEF FeedInv, Feeders, reader
<1> PICK made : made = origin.made
  OBVIOUS
<1>0. /\ UNCHANGED <<origin, cache, marker>>
      /\ Checked(r, origin.kind, made, cache, marker, client.overlapped)
  BY DEF FetchDocument, FetchSignature, NoNetwork, FeedInv
<1>n. /\ Len(made) \in Nat /\ origin.doc \in 0..Len(made) /\ origin.sig \in 0..Len(made)
      /\ \A d : Sequence(d) = In(made, d)
  BY SequencesAre DEF FeedInv, OriginInv
<1>1. CASE FetchDocument(c)
  <2> PICK d \in Served("doc") : Move(c, [r EXCEPT !.phase = "signature", !.doc = d])
    BY <1>1 DEF FetchDocument
  <2> PICK w : w = [r EXCEPT !.phase = "signature", !.doc = d]
    OBVIOUS
  <2>a. r.phase = "document"
    BY <1>1 DEF FetchDocument, At
  <2>b. d \in {origin.doc} \/ d \in 1..origin.doc \/ d = Other
    BY DEF Served
  <2>1. d \in 0..Len(made) \cup {Other} /\ d \in Nat \cup {Other}
    BY <1>n, <2>b
  <2>2. w \in Readers /\ w.phase = "signature" /\ w.doc = d /\ Asked(w, r)
    BY <2>1 DEF Readers, Phases, Asked
  <2>3. Moves(c, w) /\ client'.settled = client.settled
    BY <2>2, MoveIs
  <2>4. Checked(w, origin.kind, made, cache, marker, client.overlapped)
    BY <1>0, <2>a, <2>1, <2>2 DEF Checked, OfIndex, OfTools, OfAdvisories, Asked
  <2> QED BY <1>0, <2>a, <2>2, <2>3, <2>4, ProceedStep
<1>2. ASSUME Abandon(c) PROVE FeedInv'
  BY <1>0, <1>2, AbandonStep
<1>3. ASSUME Fallback(c), r.phase \in {"document", "signature"} PROVE FeedInv'
  BY <1>0, <1>3, FallbackStep
<1>4. CASE FetchSignature(c)
  <2> PICK s \in Served("sig") :
        IF Verified(c, s) /\ Accept(c, s) /\ Newer(c, s) THEN Proceed(c, "keep")
        ELSE IF s = Other /\ reader(c).doc = Other THEN Abandon(c) ELSE Fallback(c)
    BY <1>4 DEF FetchSignature
  <2>1. r.phase = "signature"
    BY <1>4 DEF FetchSignature, At
  <2>2. ASSUME Verified(c, s), Accept(c, s), Newer(c, s), Proceed(c, "keep") PROVE FeedInv'
    <3>1. r.doc = s /\ s # Other /\ In(made, s) >= r.seen /\ In(made, s) >= In(made, r.cached)
      BY <1>n, <2>2 DEF Verified, Accept, Newer
    <3>2. r.doc \in 0..Len(made) /\ r.doc \in Nat \cup {Other}
      BY <1>0, <3>1 DEF Checked, Readers
    <3>3. PICK w \in Readers :
             /\ Moves(c, w) /\ client'.settled = client.settled
             /\ w.phase = "keep" /\ w.doc = client.reader[c].doc /\ Asked(w, client.reader[c])
      <4> PICK p \in Phases : p = "keep"
        BY DEF Phases
      <4>1. Proceed(c, p)
        BY <2>2
      <4>2. \E w \in Readers :
              /\ Moves(c, w) /\ client'.settled = client.settled
              /\ w.phase = p /\ w.doc = client.reader[c].doc /\ Asked(w, client.reader[c])
        BY <4>1, ProceedIs
      <4> QED BY <4>2
    <3>4. Checked(w, origin.kind, made, cache, marker, client.overlapped)
      BY <1>0, <2>1, <3>1, <3>2, <3>3 DEF Checked, OfIndex, OfTools, OfAdvisories, Asked
    <3> QED BY <1>0, <2>1, <3>3, <3>4, ProceedStep
  <2> QED BY <1>2, <1>3, <2>1, <2>2
<1>5. CASE NoNetwork(c)
  BY <1>3, <1>5 DEF NoNetwork, At
<1> QED BY <1>1, <1>4, <1>5

\* Keeping a document in the cache checks it against what was cached.
LEMMA KeepStep ==
  ASSUME FeedInv, NEW c \in Clients, Keep(c)
  PROVE  FeedInv'
<1> PICK r \in Readers : r = client.reader[c] /\ r = reader(c)
  BY DEF FeedInv, Feeders, reader
<1> PICK made : made = origin.made
  OBVIOUS
<1> PICK w : w = [r EXCEPT !.phase = "record"]
  OBVIOUS
<1>0. /\ r.phase = "keep" /\ origin' = origin /\ marker' = marker /\ cache' \in {r.doc, cache}
      /\ Move(c, w) /\ Checked(r, origin.kind, made, cache, marker, client.overlapped)
  BY DEF Keep, At, Proceed, FeedInv
<1>1. w \in Readers /\ w.phase = "record" /\ w.doc = r.doc /\ Asked(w, r)
  BY DEF Readers, Phases, Asked
<1>2. Moves(c, w) /\ client'.settled = client.settled
  BY <1>0, <1>1, MoveIs
<1>3. r.doc \in 0..Len(made) /\ cache' \in 0..Len(made) /\ marker \in Nat /\ client.settled \in Nat
  BY <1>0 DEF Checked, FeedInv, Feeders
<1>4. Checked(w, origin.kind, made, cache', marker, client.overlapped)
  BY <1>0, <1>1, <1>3 DEF Checked, OfIndex, OfTools, OfAdvisories, Asked
<1>5. origin.kind = "advisories" /\ ~client.overlapped => client.settled <= In(made, cache')
  <2> SUFFICES ASSUME origin.kind = "advisories", ~client.overlapped, cache' = r.doc
               PROVE  client.settled <= In(made, r.doc)
    BY <1>0 DEF FeedInv
  <2>1. r.cached = cache /\ In(made, r.doc) >= In(made, r.cached)
    BY <1>0 DEF Checked, OfAdvisories
  <2>2. client.settled <= In(made, cache)
    BY DEF FeedInv
  <2>3. In(made, cache) \in Nat /\ In(made, r.doc) \in Nat
    BY <1>3, SequencesAre DEF FeedInv
  <2> QED BY <1>3, <2>1, <2>2, <2>3
<1>6. origin.kind # "advisories" => client.settled <= marker
  BY DEF FeedInv
<1>7. client.reader[c].phase # "idle" /\ marker' \in Nat /\ marker' >= marker
      /\ w.phase # "advance"
  BY <1>0, <1>1, <1>3
<1>8. Checked(w, origin.kind, made, cache', marker', client.overlapped)
  BY <1>0, <1>4
<1> QED BY <1>0, <1>1, <1>2, <1>3, <1>5, <1>6, <1>7, <1>8, StepKeeps

\* Recording an index or a sequence never lowers the marker.
LEMMA RecordStep ==
  ASSUME FeedInv, NEW c \in Clients, RecordIndex(c) \/ RecordSequence(c) \/ NoRecord(c)
  PROVE  FeedInv'
<1> PICK r \in Readers : r = client.reader[c] /\ r = reader(c)
  BY DEF FeedInv, Feeders, reader
<1> PICK made : made = origin.made
  OBVIOUS
<1>0. /\ r.phase = "record" /\ origin' = origin /\ cache' = cache
      /\ Checked(r, origin.kind, made, cache, marker, client.overlapped)
  BY DEF RecordIndex, RecordSequence, NoRecord, At, FeedInv
<1>n. /\ r.doc \in 0..Len(made) /\ marker \in Nat /\ In(made, r.doc) \in Nat
      /\ cache \in 0..Len(made) /\ r.seen \in Nat /\ r.floor \in Nat
      /\ Sequence(r.doc) = In(made, r.doc) /\ client.settled \in Nat
      /\ r.cached \in 0..Len(made) /\ In(made, r.cached) \in Nat
  BY <1>0, SequencesAre DEF Checked, FeedInv, Feeders, Readers
<1>1. ASSUME Proceed(c, "use"), marker' \in Nat, marker' >= marker, origin.kind # "tools",
             origin.kind = "advisories" => marker' = marker
      PROVE  FeedInv'
  <2> PICK w : w = [r EXCEPT !.phase = "use"]
    OBVIOUS
  <2>1. w \in Readers /\ w.phase = "use" /\ w.doc = r.doc /\ Asked(w, r)
    BY DEF Readers, Phases, Asked
  <2>2. Moves(c, w) /\ client'.settled = client.settled
    BY <1>1, <2>1, MoveIs DEF Proceed
  <2>3. Checked(w, origin.kind, made, cache, marker', client.overlapped)
    BY <1>0, <1>1, <1>n, <2>1 DEF Checked, OfIndex, OfTools, OfAdvisories, Asked
  <2>4. /\ origin.kind # "advisories" => client.settled <= marker'
        /\ origin.kind = "advisories" /\ ~client.overlapped => client.settled <= In(made, cache)
    BY <1>1, <1>n DEF FeedInv
  <2> QED BY <1>0, <1>1, <1>n, <2>1, <2>2, <2>3, <2>4, StepKeeps
<1>2. CASE RecordIndex(c)
  <2>1. marker' \in Nat /\ marker' >= marker /\ Proceed(c, "use") /\ origin.kind = "index"
    BY <1>2, <1>n DEF RecordIndex
  <2> QED BY <1>1, <2>1
<1>3. CASE NoRecord(c)
  BY <1>1, <1>3, <1>n DEF NoRecord
<1>4. CASE RecordSequence(c)
  <2>1. /\ origin.kind = "tools" /\ UNCHANGED <<origin, cache, marker>>
        /\ \A d \in Clients : client.reader[d].phase # "advance"
    BY <1>4 DEF RecordSequence, At, reader
  <2>2. CASE Sequence(r.doc) < marker
    BY <1>4, <2>1, <2>2, AbandonStep DEF RecordSequence
  <2>3. CASE ~(Sequence(r.doc) < marker)
    <3> PICK w : w = [r EXCEPT !.phase = "advance"]
      OBVIOUS
    <3>1. w \in Readers /\ w.phase = "advance" /\ w.doc = r.doc /\ Asked(w, r)
      BY DEF Readers, Phases, Asked
    <3>2. Move(c, w)
      BY <1>4, <2>3 DEF RecordSequence, Proceed
    <3>3. Moves(c, w) /\ client'.settled = client.settled
      BY <3>1, <3>2, MoveIs
    <3>4. Checked(w, origin.kind, made, cache, marker, client.overlapped)
      BY <1>0, <1>n, <2>1, <2>3, <3>1 DEF Checked, OfIndex, OfTools, OfAdvisories, Asked
    <3> QED BY <1>0, <2>1, <3>1, <3>3, <3>4, ProceedStep
  <2> QED BY <2>2, <2>3
<1> QED BY <1>2, <1>3, <1>4

\* Advancing the marker takes the sequence of a document that was verified.
LEMMA AdvanceStep ==
  ASSUME FeedInv, NEW c \in Clients, Advance(c)
  PROVE  FeedInv'
<1> PICK r \in Readers : r = client.reader[c] /\ r = reader(c)
  BY DEF FeedInv, Feeders, reader
<1> PICK made : made = origin.made
  OBVIOUS
<1>0. /\ r.phase = "advance" /\ origin' = origin /\ cache' = cache
      /\ Checked(r, origin.kind, made, cache, marker, client.overlapped)
  BY DEF Advance, At, FeedInv
<1>n. /\ r.doc \in 0..Len(made) /\ marker \in Nat /\ In(made, r.doc) \in Nat
      /\ cache \in 0..Len(made) /\ r.floor \in Nat
      /\ Sequence(r.doc) = In(made, r.doc) /\ client.settled \in Nat
  BY <1>0, SequencesAre DEF Checked, FeedInv, Feeders, Readers
<1>1. CASE marker' = marker /\ Abandon(c)
  BY <1>0, <1>1, AbandonStep
<1>2. CASE marker' = Sequence(r.doc) /\ Proceed(c, "use")
  <2> PICK w : w = [r EXCEPT !.phase = "use"]
    OBVIOUS
  <2>1. w \in Readers /\ w.phase = "use" /\ w.doc = r.doc /\ Asked(w, r)
    BY DEF Readers, Phases, Asked
  <2>2. Moves(c, w) /\ client'.settled = client.settled
    BY <1>2, <2>1, MoveIs DEF Proceed
  <2>3. origin.kind = "tools" /\ In(made, r.doc) >= marker
    BY <1>0 DEF Checked, OfTools
  <2>4. marker' \in Nat /\ marker' >= marker /\ marker' = In(made, r.doc)
    BY <1>2, <1>n, <2>3
  <2>5. Checked(w, origin.kind, made, cache, marker', client.overlapped)
    BY <1>0, <1>n, <2>1, <2>3, <2>4 DEF Checked, OfTools, Asked
  <2>6. \A d \in Clients : d # c => client.reader[d].phase # "advance"
    BY <1>0 DEF FeedInv
  <2>7. client.settled <= marker'
    BY <1>n, <2>3, <2>4 DEF FeedInv
  <2> QED BY <1>0, <1>n, <2>1, <2>2, <2>3, <2>4, <2>5, <2>6, <2>7, StepKeeps
<1> QED BY <1>0, <1>1, <1>2 DEF Advance

\* Using a document settles nothing below what had settled.
LEMMA UseStep ==
  ASSUME FeedInv, NEW c \in Clients, Use(c)
  PROVE  FeedInv'
<1> PICK x \in Feeders : x = client
  BY DEF FeedInv
<1> PICK r \in Readers : r = x.reader[c]
  BY DEF Feeders
<1> PICK made : made = origin.made
  OBVIOUS
<1> PICK n : n = Sequence(r.doc)
  OBVIOUS
<1> PICK w \in Readers : w = Ended(r) /\ w.phase = "idle" /\ w.doc = 0
                         /\ w.seen = 0 /\ w.cached = 0 /\ w.floor = 0
  BY EndedIs
<1> PICK settled : settled = IF n \in x.settled..Known THEN n ELSE x.settled
  OBVIOUS
<1>1. /\ r.phase = "use" /\ UNCHANGED <<origin, cache, marker>>
      /\ client' = [x EXCEPT !.reader[c] = w, !.settled = settled]
  BY DEF Use, At, reader
<1>2. /\ marker \in Nat /\ cache \in 0..Len(made) /\ Len(made) \in Nat
      /\ In(made, cache) \in Nat /\ x.settled \in Nat
      /\ Known = IF origin.kind = "advisories" THEN In(made, cache) ELSE marker
  BY SequencesAre DEF FeedInv, Feeders, Known
<1>3. settled \in Nat
  BY <1>2
<1>4. Moves(c, w) /\ client'.settled = settled
  BY <1>1, <1>3 DEF Feeders, Moves
<1>5. Checked(w, origin.kind, made, cache, marker, client.overlapped)
  BY <1>2 DEF Checked, OfIndex, OfTools, OfAdvisories
<1>6. origin.kind # "advisories" => settled <= marker
  <2>1. origin.kind # "advisories" => x.settled <= marker
    BY DEF FeedInv
  <2> QED BY <1>2, <2>1
<1>7. origin.kind = "advisories" /\ ~client.overlapped => settled <= In(made, cache)
  <2>1. origin.kind = "advisories" /\ ~client.overlapped => x.settled <= In(made, cache)
    BY DEF FeedInv
  <2> QED BY <1>2, <2>1
<1> QED BY <1>1, <1>2, <1>4, <1>5, <1>6, <1>7, StepKeeps

\* Every step of a client keeps the invariant of the feed.
LEMMA ClientStep ==
  ASSUME FeedInv, NEW c \in Clients, ClientNext(c)
  PROVE  FeedInv'
<1>1. CASE FetchArtifact(c)
  <2>1. ASSUME At(c, "use"), Abandon(c), UNCHANGED <<origin, cache, marker>> PROVE FeedInv'
    BY <2>1, AbandonStep
  <2> QED BY <1>1, <2>1, UseStep DEF FetchArtifact
<1> QED BY <1>1, BeginStep, FetchStep, KeepStep, RecordStep, AdvanceStep, UseStep DEF ClientNext

\* The invariant of the feed holds throughout.
LEMMA FeedHolds == FeedInit /\ [][FeedNext]_feedVars => []FeedInv
<1>1. FeedInit => FeedInv
  <2> SUFFICES ASSUME FeedInit PROVE FeedInv
    OBVIOUS
  <2> PICK w : w = [phase |-> "idle", seen |-> 0, cached |-> 0, doc |-> 0, floor |-> 0]
    OBVIOUS
  <2>1. w \in Readers
    BY DEF Readers, Phases
  <2>2. PICK k \in Kinds : origin = [kind |-> k, made |-> <<>>, doc |-> 0, sig |-> 0,
                                     before |-> 0, writing |-> FALSE, steady |-> FALSE]
    BY DEF FeedInit
  <2>3. client = [reader |-> [c \in Clients |-> w], settled |-> 0, overlapped |-> FALSE]
        /\ cache = 0 /\ marker = 0
    BY DEF FeedInit
  <2>4. OriginInv /\ Len(origin.made) = 0 /\ In(origin.made, 0) = 0
    BY <2>2 DEF OriginInv, Origins, In
  <2>5. client \in Feeders
    BY <2>1, <2>3 DEF Feeders
  <2>6. Checked(w, origin.kind, origin.made, 0, 0, FALSE)
    BY <2>4 DEF Checked, OfIndex, OfTools, OfAdvisories
  <2>7. /\ \A c \in Clients : client.reader[c] = w
        /\ client.settled = 0 /\ client.overlapped = FALSE
    BY <2>3
  <2>8. \A c \in Clients : client.reader[c].phase = "idle"
    BY <2>7
  <2>9. cache \in 0..Len(origin.made) /\ marker \in Nat /\ OriginInv
    BY <2>3, <2>4
  <2>10. \A c \in Clients : Checked(client.reader[c], origin.kind, origin.made, cache, marker,
                                     client.overlapped)
    BY <2>3, <2>6, <2>7
  <2>11. client.settled <= marker /\ client.settled <= In(origin.made, cache)
    BY <2>3, <2>4, <2>7
  <2> QED BY <2>5, <2>8, <2>9, <2>10, <2>11 DEF FeedInv
<1>2. FeedInv /\ [FeedNext]_feedVars => FeedInv'
  <2>1. FeedInv /\ UNCHANGED feedVars => FeedInv'
    BY DEF feedVars, FeedInv, OriginInv
  <2> QED BY <2>1, PublisherStep, ClientStep DEF FeedNext
<1> QED BY <1>1, <1>2, PTL

\* Whatever a mirror serves and a publisher leaves half done, for any number
\* of requests: none uses a document older than one that was known when it
\* began (trust/mod.rs, tools.rs).
THEOREM NoneIsRolledBack == FeedInit /\ [][FeedNext]_feedVars => []RollbackIsRefused
<1>1. FeedInv => RollbackIsRefused
  <2> SUFFICES ASSUME FeedInv, NEW c \in Clients, ~client.overlapped, At(c, "use")
               PROVE  Sequence(reader(c).doc) >= reader(c).floor
    BY DEF RollbackIsRefused
  <2> PICK r \in Readers : r = client.reader[c] /\ r = reader(c)
    BY DEF FeedInv, Feeders, reader
  <2> PICK made : made = origin.made
    OBVIOUS
  <2>1. r.phase = "use" /\ Checked(r, origin.kind, made, cache, marker, client.overlapped)
    BY DEF FeedInv, At
  <2>2. /\ r.doc \in 0..Len(made) /\ r.cached \in 0..Len(made)
        /\ In(made, r.doc) \in Nat /\ In(made, r.cached) \in Nat
        /\ Sequence(r.doc) = In(made, r.doc) /\ r.floor \in Nat /\ r.seen \in Nat
    BY <2>1, SequencesAre DEF Checked, FeedInv, Readers
  <2>3. origin.kind \in Kinds
    BY DEF FeedInv, OriginInv, Origins
  <2> QED BY <2>1, <2>2, <2>3 DEF Checked, OfIndex, OfTools, OfAdvisories, Kinds
<1> QED BY <1>1, FeedHolds, PTL

-----------------------------------------------------------------------------
(* Both.                                                                   *)

\* Builds and requests share nothing: what is promised of each holds of a
\* machine that does both.
THEOREM MachineIsSafe ==
  ProgressSpec => [](NothingOutlivesPhase /\ SuccessIsWithinBudget /\ RollbackIsRefused)
<1>1. ProgressInit => Init /\ FeedInit
  BY DEF ProgressInit
<1>2. [ProgressNext]_progressVars => [Next]_vars /\ [FeedNext]_feedVars
  BY DEF ProgressNext, progressVars, BuildStep, RequestStep
<1>3. BuildInv => NothingOutlivesPhase /\ SuccessIsWithinBudget
  BY DEF BuildInv, NothingOutlivesPhase, SuccessIsWithinBudget, Quiet
<1> QED BY <1>1, <1>2, <1>3, BuildHolds, NoneIsRolledBack, PTL DEF ProgressSpec
=============================================================================
