---------------------------- MODULE StoreProofs -----------------------------
(***************************************************************************)
(* Theorems about SnapshotStore with one command at a time, killed or      *)
(* failing at any step: its types, that what a channel names is there and  *)
(* has a manifest that says so, that what moves a channel by itself moves  *)
(* it one way, that a hold is kept, and that prune keeps what was stable.  *)
(***************************************************************************)
EXTENDS SnapshotStore, WellFoundedInduction, TLAPS

\* The store has no lock; one maintainer's command runs at a time.
OneCommand == \A p, q \in Operators : p = q

\* Manifest r has what channel c asks of a snapshot.
Reached(c, r) == (c = "rc" => r.rc # Never) /\ (c = "stable" => r.stable)

\* The store between any two changes: a manifest is in a directory that is
\* there, one that stable named says so, the unfinished directory was never
\* released, and what a channel names has a manifest that says so.
Sound(fs, doc, tgt, ever) ==
  /\ \A d \in Dirs : fs[d] = "none" => doc[d] = Gone /\ d \notin ever
  /\ \A d \in ever : doc[d] # Gone => doc[d].stable
  /\ Partial \notin ever
  /\ doc[Partial] # Gone => doc[Partial].rc = Never /\ ~doc[Partial].stable
  /\ \A c \in Pointers : tgt[c] # Nowhere => doc[tgt[c]] # Gone
  /\ tgt["rc"] # Nowhere => doc[tgt["rc"]].rc # Never
  /\ tgt["stable"] # Nowhere => tgt["stable"] \in ever

\* Manifest r may stand at snapshot d.
Stands(d, r, tgt, ever) ==
  /\ r \in Release
  /\ tgt["rc"] = d => r.rc # Never
  /\ d \in ever => r.stable

\* Manifest r takes the place of s: only hold and unhold change the flag.
Follows(x, r, s) == x.cmd \notin {"hold", "unhold"} => r.held = s.held

\* One step, then others; both files of a manifest, or the second only.
Then(a, rest) == <<a>> \o rest
Document(d) == ToDo("document", "edge", d)
Signature(d) == ToDo("signature", "edge", d)
ToSign(d, rest) == Then(Signature(d), rest)
ToWrite(d, rest) == Then(Document(d), ToSign(d, rest))

\* The unfinished snapshot takes its name by a, and edge goes to it by b.
Making(x, fs, tgt, a, b) ==
  /\ x.cmd = "cut" /\ x.snap \in SnapshotIds
  /\ x.rel.rc = Never /\ ~x.rel.stable
  /\ \A c \in Pointers : tgt[c] # Partial
  /\ fs[Partial] # "none"
  /\ a.do = "commit" /\ b.do = "point" /\ b.channel = "edge" /\ b.dir = x.snap
Assembling(x, fs, tgt) ==
  \E a, b \in FileChange : /\ Making(x, fs, tgt, a, b)
                       /\ x.steps = ToWrite(Partial, Then(a, Then(b, <<>>)))
Sealing(x, fs, doc, tgt) ==
  \E a, b \in FileChange : /\ Making(x, fs, tgt, a, b) /\ doc[Partial] = x.rel
                       /\ x.steps = ToSign(Partial, Then(a, Then(b, <<>>)))
Committing(x, fs, doc, tgt) ==
  \E a, b \in FileChange : /\ Making(x, fs, tgt, a, b) /\ doc[Partial] = x.rel
                       /\ x.steps = Then(a, Then(b, <<>>))
Naming(x, doc) ==
  \E b \in FileChange :
    /\ x.cmd = "cut" /\ x.snap \in SnapshotIds /\ doc[x.snap] # Gone
    /\ b.do = "point" /\ b.channel = "edge" /\ b.dir = x.snap
    /\ x.steps = Then(b, <<>>)

\* A command changes the manifest of a snapshot that is there.
Changes(x, doc) ==
  /\ x.cmd \in {"test", "promote", "auto", "hold", "unhold"} /\ x.snap \in SnapshotIds
  /\ doc[x.snap] # Gone

\* What comes after the manifest is written.
Ends(x, tgt, a) ==
  \/ x.cmd = "hold" /\ a.do = "survey"
  \/ /\ a.do = "point" /\ a.channel \in {"rc", "stable"} /\ a.dir = x.snap
     /\ x.cmd \in {"test", "promote", "auto"}
     /\ Reached(a.channel, x.rel)
     /\ x.cmd = "test" => x.rel.tests = "pass"
     /\ x.cmd = "auto" /\ a.channel = "stable" /\ tgt["stable"] # Nowhere
        => tgt["stable"] < x.snap
Rests == {<<>>} \cup {Then(a, <<>>) : a \in FileChange}
Rest(x, tgt, rest) ==
  \/ x.cmd \in {"test", "unhold"} /\ rest = <<>>
  \/ \E a \in FileChange : rest = Then(a, <<>>) /\ Ends(x, tgt, a)

Writing(x, doc, tgt, ever) ==
  \E rest \in Rests :
    /\ Changes(x, doc) /\ Rest(x, tgt, rest)
    /\ x.steps = ToWrite(x.snap, rest)
    /\ Stands(x.snap, x.rel, tgt, ever) /\ Follows(x, x.rel, doc[x.snap])
Signing(x, doc, tgt, ever) ==
  \E rest \in Rests :
    /\ Changes(x, doc) /\ Rest(x, tgt, rest)
    /\ x.steps = ToSign(x.snap, rest) /\ doc[x.snap] = x.rel
    /\ Stands(x.snap, x.previous, tgt, ever) /\ Follows(x, x.rel, x.previous)
Ending(x, doc, tgt) ==
  \E a \in FileChange :
    /\ Changes(x, doc) /\ Ends(x, tgt, a)
    /\ x.steps = Then(a, <<>>) /\ doc[x.snap] = x.rel

Testing(x, doc) ==
  \E a \in FileChange :
    /\ x.cmd = "test" /\ Changes(x, doc)
    /\ doc[x.snap] = x.rel
    /\ x.steps = Then(a, <<>>) /\ a.do = "suite"

\* Channel c may go to d from the snapshot of x.
Refuge(x, doc, c, d) ==
  /\ d < x.snap /\ doc[d] # Gone
  /\ Reached(c, doc[d])
  /\ c # "edge" => doc[d].tests = "pass" /\ ~doc[d].held

\* Step a takes its channel off the snapshot of x.
Leaves(x, doc, tgt, a) ==
  /\ tgt[a.channel] = x.snap
  /\ a.do = "point" => Refuge(x, doc, a.channel, a.dir)

\* A failed re-test takes rc off the snapshot before the manifest says so.
Leaving(x, doc, tgt, ever) ==
  \E a \in FileChange :
    /\ x.cmd = "test" /\ Changes(x, doc)
    /\ x.rel.rc = Never /\ x.rel.tests = "fail" /\ x.rel.held = doc[x.snap].held
    /\ x.snap \in ever => x.rel.stable
    /\ x.steps = Then(a, ToWrite(x.snap, <<>>))
    /\ a.channel = "rc" /\ a.do \in {"retreat", "clear", "point"}
    /\ Leaves(x, doc, tgt, a)

\* A hold takes each channel off the snapshot in turn.
Retreating(x, doc, tgt) ==
  /\ x.cmd = "hold" /\ Changes(x, doc)
  /\ x.steps # <<>>
  /\ Head(x.steps).do \in {"retreat", "point"}
  /\ \A k \in 1 .. Len(x.steps) : Leaves(x, doc, tgt, x.steps[k])
  /\ \A k \in 2 .. Len(x.steps) : x.steps[k].do = "retreat"
  /\ \A j, k \in 1 .. Len(x.steps) : x.steps[j].channel = x.steps[k].channel => j = k

\* What a prune spares is what the channels name.
Pruning(x, tgt) ==
  \E a \in FileChange :
    /\ x.cmd = "prune" /\ x.steps = Then(a, <<>>) /\ a.do = "prune"
    /\ \A c \in Pointers : tgt[c] # Nowhere => tgt[c] \in x.spared

\* A command is at one of its stages, each known by the step that is next.
Fits(x, t, fs, doc, tgt, ever) ==
  /\ x.at <= t
  /\ \/ x = Waiting
     \/ Assembling(x, fs, tgt) \/ Sealing(x, fs, doc, tgt) \/ Committing(x, fs, doc, tgt)
     \/ Naming(x, doc)
     \/ Writing(x, doc, tgt, ever) \/ Signing(x, doc, tgt, ever) \/ Ending(x, doc, tgt)
     \/ Testing(x, doc) \/ Leaving(x, doc, tgt, ever) \/ Retreating(x, doc, tgt)
     \/ Pruning(x, tgt)

Holds(p) ==
  /\ Sound(content, document, target, everStable)
  /\ Fits(command[p], clock, content, document, target, everStable)

StoreInv == StoreType /\ Sound(content, document, target, everStable) /\ \A p \in Operators : Holds(p)
-----------------------------------------------------------------------------
\* Directories are numbers, the unfinished one the smallest.
LEMMA DirsAre ==
  /\ SnapshotIds \subseteq Dirs /\ Dirs \subseteq Nat
  /\ Partial \in Dirs /\ Partial \notin SnapshotIds
BY StoreBoundsAreNat DEF Dirs, SnapshotIds, Partial

\* A value for nothing is no manifest and no directory.
LEMMA NothingIsNot ==
  /\ Gone \notin Release /\ Nowhere \notin Dirs /\ Unreadable \notin Dirs
  /\ Nowhere # Unreadable /\ Never \notin Times
BY NoValueIsAnother

\* A set of directories has a newest one.
LEMMA NewestIsThere ==
  ASSUME NEW S \in SUBSET Dirs, S # {}
  PROVE  \E d \in S : \A e \in S : e <= d
<1> DEFINE Above == {n \in Nat : \A d \in S : d <= n}
<1>1. MaxSnapshots \in Above
  BY StoreBoundsAreNat DEF Dirs, SnapshotIds, Partial
<1>2. PICK n \in Above : \A m \in Above : ~(m < n)
  <2>1. PICK n \in Above : \A m \in Above : <<m, n>> \notin OpToRel(<, Nat)
    BY <1>1, NatLessThanWellFounded, WFMin
  <2> QED BY <2>1 DEF OpToRel
<1>3. n \in S
  <2> SUFFICES ASSUME n \notin S PROVE FALSE
    OBVIOUS
  <2>1. \A d \in S : d \in Nat /\ d <= n /\ d # n
    BY DirsAre
  <2>2. n # 0
    <3>1. PICK d \in S : TRUE
      OBVIOUS
    <3> QED BY <3>1, <2>1
  <2>3. n - 1 \in Above
    BY <2>1, <2>2
  <2> QED BY <2>3, <1>2
<1> QED BY <1>3

\* A step and others are a sequence of changes, that starts with the step.
LEMMA ThenIs ==
  ASSUME NEW a \in FileChange, NEW s \in Seq(FileChange)
  PROVE  /\ Then(a, s) \in Seq(FileChange) /\ Then(a, s) # <<>>
         /\ Head(Then(a, s)) = a /\ Tail(Then(a, s)) = s
BY DEF Then

\* The steps a command starts with, one after the other.
LEMMA StepsAre ==
  ASSUME NEW s \in Seq(FileChange), NEW d \in Dirs, NEW c \in Pointers
  PROVE  /\ WriteSigned(d) \o s = ToWrite(d, s)
         /\ WriteSigned(d) = ToWrite(d, <<>>)
         /\ Point(c, d) = Then(ToDo("point", c, d), <<>>)
         /\ <<>> \o s = s /\ s \o <<>> = s
BY DEF WriteSigned, ToWrite, ToSign, Document, Signature, Point, Then, ToDo, FileChange

\* What is to be done is a change.
LEMMA DoIs ==
  ASSUME NEW kind \in Kinds, NEW c \in Pointers, NEW d \in Dirs
  PROVE  /\ ToDo(kind, c, d) \in FileChange
         /\ ToDo(kind, c, d).do = kind /\ ToDo(kind, c, d).channel = c /\ ToDo(kind, c, d).dir = d
BY DEF ToDo, FileChange

\* What a command does is a sequence of changes.
LEMMA SequencesAre ==
  ASSUME NEW i \in Dirs, NEW c \in Pointers
  PROVE  /\ <<>> \in Seq(FileChange) /\ Point(c, i) \in Seq(FileChange)
         /\ WriteSigned(i) \in Seq(FileChange)
         /\ WriteSigned(i) \o Point(c, i) \in Seq(FileChange)
         /\ WriteSigned(i) \o Point("stable", i) \in Seq(FileChange)
         /\ WriteSigned(i) \o Point("rc", i) \in Seq(FileChange)
         /\ WriteSigned(i) \o <<ToDo("survey", "edge", i)>> \in Seq(FileChange)
         /\ WriteSigned(Partial) \o <<ToDo("commit", "edge", i)>> \o Point("edge", i) \in Seq(FileChange)
         /\ <<ToDo("suite", "rc", i)>> \in Seq(FileChange)
         /\ <<ToDo("prune", "edge", Partial)>> \in Seq(FileChange)
         /\ <<ToDo("retreat", c, i)>> \in Seq(FileChange)
         /\ <<ToDo("clear", c, i)>> \in Seq(FileChange)
         /\ <<ToDo("retreat", "rc", i)>> \o WriteSigned(i) \in Seq(FileChange)
BY DirsAre DEF WriteSigned, Point, ToDo, FileChange, Kinds, Pointers

\* A channel's fallback is a directory older than the snapshot, with a readable
\* manifest that is eligible.
LEMMA FallbackIs ==
  ASSUME NEW c \in Pointers, NEW i \in Dirs,
         Fallback(c, i) # Nowhere, Fallback(c, i) # Unreadable
  PROVE  LET f == Fallback(c, i) IN
         f \in Dirs /\ f < i /\ document[f] # Gone /\ EligibleFor(c, f)
<1> DEFINE stops == {d \in {e \in InStore : e < i} : ~Readable(d) \/ EligibleFor(c, d)}
<1> DEFINE newest == CHOOSE d \in stops : \A e \in stops : e <= d
<1>1. stops # {} /\ Fallback(c, i) = newest /\ Readable(newest)
  BY DEF Fallback, NewestEligible
<1>2. stops \in SUBSET Dirs
  BY DEF InStore
<1>3. newest \in stops
  BY <1>1, <1>2, NewestIsThere
<1> QED BY <1>1, <1>3 DEF InStore, Readable

\* The commands.
Commands == {"cut", "test", "promote", "auto", "hold", "unhold", "prune"}

\* A process without a command holds nothing.
LEMMA IdleIsARun == Waiting \in CommandRun /\ Waiting.cmd = "none" /\ Waiting.at = 0 /\ Waiting.steps = <<>>
<1>1. 0 \in Times
  BY StoreBoundsAreNat DEF Times
<1> QED BY <1>1, DirsAre DEF Waiting, CommandRun, NewRelease, Release

\* A change made: what is left is there, or the command is over.
LEMMA AdvanceIs ==
  ASSUME StoreType, NEW p \in Operators, command[p].steps # <<>>,
         NEW more \in Seq(FileChange), NEW r \in Release, Advance(p, more, r)
  PROVE  /\ command' = [command EXCEPT ![p] = command'[p]]
         /\ command'[p] \in CommandRun
         /\ \/ more \o Tail(command[p].steps) = <<>> /\ command'[p] = Waiting
            \/ /\ command'[p].steps = more \o Tail(command[p].steps)
               /\ command'[p].steps # <<>>
               /\ command'[p].rel = r
               /\ command'[p].cmd = command[p].cmd /\ command'[p].snap = command[p].snap /\ command'[p].at = command[p].at
               /\ command'[p].previous = command[p].previous
               /\ command'[p].todo = command[p].todo /\ command'[p].spared = command[p].spared
<1>0. Waiting \in CommandRun
  BY IdleIsARun
<1>1. PICK x \in CommandRun : x = command[p]
  BY DEF StoreType
<1> DEFINE left == more \o Tail(x.steps)
<1>2. left \in Seq(FileChange)
  <2>1. x.steps \in Seq(FileChange) /\ x.steps # <<>>
    BY <1>1 DEF CommandRun
  <2> QED BY <2>1
<1> HIDE DEF left
<1>3. command' = [command EXCEPT ![p] = IF left = <<>> THEN Waiting ELSE [x EXCEPT !.steps = left, !.rel = r]]
  BY <1>1 DEF Advance, left
<1>4. command'[p] = IF left = <<>> THEN Waiting ELSE [x EXCEPT !.steps = left, !.rel = r]
  BY <1>3 DEF StoreType
<1>5. command' = [command EXCEPT ![p] = command'[p]]
  BY <1>3, <1>4
<1>6. CASE left = <<>>
  BY <1>0, <1>1, <1>4, <1>5, <1>6 DEF left
<1>7. CASE left # <<>>
  <2>1. command'[p] = [x EXCEPT !.steps = left, !.rel = r]
    BY <1>4, <1>7
  <2>2. /\ command'[p] \in CommandRun /\ command'[p].steps = left /\ command'[p].rel = r
        /\ command'[p].cmd = x.cmd /\ command'[p].snap = x.snap /\ command'[p].at = x.at
        /\ command'[p].previous = x.previous /\ command'[p].todo = x.todo /\ command'[p].spared = x.spared
    BY <1>2, <2>1 DEF CommandRun
  <2> QED BY <1>1, <1>5, <1>7, <2>2 DEF left
<1> QED BY <1>6, <1>7

\* The same, when the signature is written.
LEMMA WrittenIs ==
  ASSUME StoreType, NEW p \in Operators, command[p].steps # <<>>, Written(p)
  PROVE  /\ command' = [command EXCEPT ![p] = command'[p]]
         /\ command'[p] \in CommandRun
         /\ \/ Tail(command[p].steps) = <<>> /\ command'[p] = Waiting
            \/ /\ command'[p].steps = Tail(command[p].steps)
               /\ command'[p].steps # <<>>
               /\ command'[p].rel = command[p].rel
               /\ command'[p].cmd = command[p].cmd /\ command'[p].snap = command[p].snap /\ command'[p].at = command[p].at
<1>0. Waiting \in CommandRun
  BY IdleIsARun
<1>1. PICK x \in CommandRun : x = command[p]
  BY DEF StoreType
<1> DEFINE left == Tail(x.steps)
<1>2. left \in Seq(FileChange)
  <2>1. x.steps \in Seq(FileChange) /\ x.steps # <<>>
    BY <1>1 DEF CommandRun
  <2> QED BY <2>1
<1> HIDE DEF left
<1>3. command' = [command EXCEPT ![p] = IF left = <<>> THEN Waiting ELSE [x EXCEPT !.steps = left, !.previous = Gone]]
  BY <1>1 DEF Written, left
<1>4. command'[p] = IF left = <<>> THEN Waiting ELSE [x EXCEPT !.steps = left, !.previous = Gone]
  BY <1>3 DEF StoreType
<1>5. command' = [command EXCEPT ![p] = command'[p]]
  BY <1>3, <1>4
<1>6. CASE left = <<>>
  BY <1>0, <1>1, <1>4, <1>5, <1>6 DEF left
<1>7. CASE left # <<>>
  <2>1. command'[p] = [x EXCEPT !.steps = left, !.previous = Gone]
    BY <1>4, <1>7
  <2>2. /\ command'[p] \in CommandRun /\ command'[p].steps = left /\  command'[p].rel = x.rel
        /\ command'[p].cmd = x.cmd /\ command'[p].snap = x.snap /\ command'[p].at = x.at
    BY <1>2, <2>1 DEF CommandRun
  <2> QED BY <1>1, <1>5, <1>7, <2>2 DEF left
<1> QED BY <1>6, <1>7

\* A command starts.
LEMMA StartIs ==
  ASSUME StoreType, NEW p \in Operators, NEW name \in Commands, NEW i \in Dirs, NEW r \in Release,
         NEW steps \in Seq(FileChange), Start(p, name, i, r, steps)
  PROVE  /\ command' = [command EXCEPT ![p] = command'[p]]
         /\ command'[p] \in CommandRun
         /\ command'[p].cmd = name /\ command'[p].snap = i /\ command'[p].at = clock
         /\ command'[p].rel = r /\ command'[p].steps = steps
<1>1. command' = [command EXCEPT ![p] = [Waiting EXCEPT !.cmd = name, !.snap = i, !.at = clock,
                                            !.rel = r, !.steps = steps]]
  BY DEF Start
<1>2. command'[p] = [Waiting EXCEPT !.cmd = name, !.snap = i, !.at = clock, !.rel = r, !.steps = steps]
  BY <1>1 DEF StoreType
<1>3. clock \in Times
  BY DEF StoreType
<1>4. PICK x \in CommandRun : x = Waiting
  BY IdleIsARun
<1>5. command'[p] = [x EXCEPT !.cmd = name, !.snap = i, !.at = clock, !.rel = r, !.steps = steps]
  BY <1>2, <1>4
<1>6. /\ command'[p] \in CommandRun
      /\ command'[p].cmd = name /\ command'[p].snap = i /\ command'[p].at = clock
      /\ command'[p].rel = r /\ command'[p].steps = steps
  BY <1>3, <1>5 DEF CommandRun, Commands
<1> QED BY <1>1, <1>2, <1>6

\* A promotion adds what the channel asks, and takes nothing away.
LEMMA PromotedIs ==
  ASSUME NEW r \in Release, NEW c \in {"rc", "stable"}, NEW t \in Times
  PROVE  LET s == PromotedTo(c, r, t) IN
         /\ s \in Release /\ Reached(c, s)
         /\ s.created = r.created /\ s.tests = r.tests /\ s.held = r.held
         /\ r.rc # Never => s.rc # Never
         /\ r.stable => s.stable
BY NothingIsNot DEF PromotedTo, Stamped, Release, Reached

\* A manifest may be changed in one place.
LEMMA ChangedIs ==
  ASSUME NEW r \in Release, NEW verdict \in {"pass", "fail"}, NEW t \in Times, NEW h \in BOOLEAN
  PROVE  /\ [r EXCEPT !.held = h] \in Release
         /\ [r EXCEPT !.tests = verdict] \in Release
         /\ [r EXCEPT !.rc = Never] \in Release
         /\ [r EXCEPT !.rc = Stamped(@, t)] \in Release
         /\ [r EXCEPT !.rc = Stamped(@, t)].rc # Never
         /\ [r EXCEPT !.rc = Stamped(@, t)].tests = r.tests
         /\ [r EXCEPT !.rc = Stamped(@, t)].stable = r.stable
         /\ [r EXCEPT !.rc = Stamped(@, t)].held = r.held
BY NothingIsNot DEF Stamped, Release

\* What a process's next change is about.
LEMMA DueIs ==
  ASSUME StoreType, NEW p \in Operators, NEW kind, Due(p, kind)
  PROVE  /\ command[p] \in CommandRun /\ command[p].steps \in Seq(FileChange) /\ command[p].steps # <<>>
         /\ Head(command[p].steps) \in FileChange /\ Head(command[p].steps).do = kind
         /\ Head(command[p].steps).channel \in Pointers /\ Head(command[p].steps).dir \in Dirs
         /\ Tail(command[p].steps) \in Seq(FileChange)
         /\ command[p].rel \in Release /\ command[p].snap \in Dirs /\ command[p].at \in Times
         /\ command[p].previous \in Release \cup {Gone}
<1>1. command[p] \in CommandRun /\ command[p].steps # <<>> /\ Head(command[p].steps).do = kind
  BY DEF StoreType, Due
<1>2. command[p].steps \in Seq(FileChange)
  BY <1>1 DEF CommandRun
<1>3. Head(command[p].steps) \in FileChange /\ Tail(command[p].steps) \in Seq(FileChange)
  BY <1>1, <1>2
<1> QED BY <1>1, <1>2, <1>3 DEF CommandRun, FileChange

\* A readable manifest is a manifest.
LEMMA ReadableIs ==
  ASSUME StoreType, NEW d \in Dirs, Readable(d)
  PROVE  document[d] \in Release /\ document[d] # Gone
BY DEF StoreType, Readable

\* A command that starts leaves the types.
LEMMA StartTypes ==
  ASSUME StoreType, NEW p \in Operators,
         CutBegin(p) \/ TestBegin(p) \/ Promote(p) \/ PromoteSoaked(p) \/ Hold(p) \/ Unhold(p) \/ Prune(p)
  PROVE  StoreType'
<1> USE DirsAre
<1>0. clock \in Times /\ "edge" \in Pointers
  BY DEF StoreType, Pointers
<1>1. CASE CutBegin(p)
  <2>1. NewRelease(clock) \in Release
    BY <1>0 DEF NewRelease, Release
  <2>2. ASSUME NEW i \in SnapshotIds
        PROVE  WriteSigned(Partial) \o <<ToDo("commit", "edge", i)>> \o Point("edge", i) \in Seq(FileChange)
    BY <1>0, SequencesAre
  <2>3. PICK name \in Commands : name = "cut"
    BY DEF Commands
  <2>4. PICK i \in Dirs, r \in Release, steps \in Seq(FileChange) : Start(p, name, i, r, steps)
    BY <1>1, <2>1, <2>2, <2>3 DEF CutBegin
  <2>5. command' = [command EXCEPT ![p] = command'[p]] /\ command'[p] \in CommandRun
    BY <2>4, StartIs
  <2> QED BY <1>1, <2>4, <2>5 DEF StoreType, CutBegin, Start
<1>2. ASSUME NEW name \in Commands, NEW i \in Dirs, NEW r \in Release, NEW steps \in Seq(FileChange),
             Start(p, name, i, r, steps), UNCHANGED content
      PROVE  StoreType'
  <2>1. command' = [command EXCEPT ![p] = command'[p]] /\ command'[p] \in CommandRun
    BY <1>2, StartIs
  <2> QED BY <1>2, <2>1 DEF StoreType, Start
<1>3. CASE TestBegin(p)
  <2>1. PICK i \in SnapshotIds : Readable(i) /\ Start(p, "test", i, document[i], <<ToDo("suite", "rc", i)>>)
    BY <1>3 DEF TestBegin
  <2>2. <<ToDo("suite", "rc", i)>> \in Seq(FileChange)
    BY <1>0, SequencesAre
  <2>3. document[i] \in Release
    BY <2>1, ReadableIs
  <2> QED BY <1>2, <1>3, <2>1, <2>2, <2>3 DEF Commands, TestBegin
<1>4. CASE Promote(p)
  <2>1. PICK i \in SnapshotIds, c \in {"rc", "stable"} :
          /\ Readable(i)
          /\ Start(p, "promote", i, PromotedTo(c, document[i], clock), WriteSigned(i) \o Point(c, i))
    BY <1>4 DEF Promote
  <2>2. WriteSigned(i) \o Point(c, i) \in Seq(FileChange)
    BY SequencesAre DEF Pointers
  <2>3. PromotedTo(c, document[i], clock) \in Release
    BY <1>0, <2>1, ReadableIs, PromotedIs
  <2> QED BY <1>2, <1>4, <2>1, <2>2, <2>3 DEF Commands, Promote
<1>5. CASE PromoteSoaked(p)
  <2>1. PICK i \in Dirs : /\ Readable(i)
                          /\ Start(p, "auto", i, PromotedTo("stable", document[i], clock),
                                   WriteSigned(i) \o Point("stable", i))
    BY <1>5 DEF PromoteSoaked, Soaked, StoreType, Pointers
  <2>2. WriteSigned(i) \o Point("stable", i) \in Seq(FileChange)
    BY <1>0, SequencesAre
  <2>3. PromotedTo("stable", document[i], clock) \in Release
    BY <1>0, <2>1, ReadableIs, PromotedIs
  <2> QED BY <1>2, <1>5, <2>1, <2>2, <2>3 DEF Commands, PromoteSoaked
<1>6. CASE Hold(p)
  <2>1. PICK i \in SnapshotIds :
          /\ Readable(i)
          /\ Start(p, "hold", i, [document[i] EXCEPT !.held = TRUE],
                   WriteSigned(i) \o <<ToDo("survey", "edge", i)>>)
    BY <1>6 DEF Hold
  <2>2. WriteSigned(i) \o <<ToDo("survey", "edge", i)>> \in Seq(FileChange)
    BY <1>0, SequencesAre
  <2>3. [document[i] EXCEPT !.held = TRUE] \in Release
    BY <1>0, <2>1, ReadableIs, ChangedIs
  <2> QED BY <1>2, <1>6, <2>1, <2>2, <2>3 DEF Commands, Hold
<1>7. CASE Unhold(p)
  <2>1. PICK i \in SnapshotIds :
          /\ Readable(i)
          /\ Start(p, "unhold", i, [document[i] EXCEPT !.held = FALSE], WriteSigned(i))
    BY <1>7 DEF Unhold
  <2>2. WriteSigned(i) \in Seq(FileChange)
    BY <1>0, SequencesAre
  <2>3. [document[i] EXCEPT !.held = FALSE] \in Release
    BY <1>0, <2>1, ReadableIs, ChangedIs
  <2> QED BY <1>2, <1>7, <2>1, <2>2, <2>3 DEF Commands, Unhold
<1>8. CASE Prune(p)
  <2>1. {target[c] : c \in Pointers} \ {Nowhere} \in SUBSET Dirs
    BY DEF StoreType
  <2>2. PICK spared \in SUBSET Dirs : PruneBegin(p, spared)
    BY <1>8, <2>1 DEF Prune
  <2>3. <<ToDo("prune", "edge", Partial)>> \in Seq(FileChange) /\ InStore \in SUBSET Dirs
    BY <1>0, SequencesAre DEF InStore
  <2>4. PICK x \in CommandRun : x = Waiting
    BY IdleIsARun
  <2>5. [x EXCEPT !.cmd = "prune", !.at = clock, !.steps = <<ToDo("prune", "edge", Partial)>>,
                  !.todo = InStore, !.spared = spared] \in CommandRun
    BY <1>0, <2>3 DEF CommandRun
  <2>6. command' \in [Operators -> CommandRun]
    BY <2>2, <2>4, <2>5 DEF PruneBegin, StoreType
  <2> QED BY <2>2, <2>6 DEF PruneBegin, StoreType, store
<1> QED BY <1>1, <1>3, <1>4, <1>5, <1>6, <1>7, <1>8

\* What a command still has to do after a step is a sequence of changes.
LEMMA AdvanceTypes ==
  ASSUME StoreType, NEW p \in Operators, NEW kind, Due(p, kind),
         NEW more \in Seq(FileChange), NEW r \in Release, Advance(p, more, r)
  PROVE  command' \in [Operators -> CommandRun]
<1>1. command' = [command EXCEPT ![p] = command'[p]] /\ command'[p] \in CommandRun
  BY DueIs, AdvanceIs
<1> QED BY <1>1 DEF StoreType

\* The suite and the looks at the channels leave the types.
LEMMA LookTypes ==
  ASSUME StoreType, NEW p \in Operators,
         SuitePasses(p) \/ SuiteFails(p) \/ Survey(p) \/ Retreat(p)
  PROVE  StoreType'
<1>1. SUFFICES command' \in [Operators -> CommandRun]
  BY DEF SuitePasses, SuiteFails, Survey, Retreat, store, StoreType
<1>3. CASE SuitePasses(p)
  <2>0. Due(p, "suite")
    BY <1>3 DEF SuitePasses
  <2> DEFINE i == command[p].snap
  <2>1. PICK r \in Release : r = [command[p].rel EXCEPT !.tests = "pass"]
    BY <2>0, DueIs, ChangedIs DEF StoreType
  <2>2. [r EXCEPT !.rc = Stamped(@, command[p].at)] \in Release
    BY <2>0, DueIs, ChangedIs
  <2>3. /\ WriteSigned(i) \in Seq(FileChange) /\ WriteSigned(i) \o Point("rc", i) \in Seq(FileChange)
        /\ WriteSigned(i) \o <<>> \in Seq(FileChange)
    BY <2>0, DueIs, SequencesAre, StepsAre DEF Pointers
  <2>4. PICK more \in Seq(FileChange), s \in Release : Advance(p, more, s)
    BY <1>3, <2>1, <2>2, <2>3 DEF SuitePasses
  <2> QED BY <2>0, <2>4, AdvanceTypes
<1>4. CASE SuiteFails(p)
  <2>0. Due(p, "suite")
    BY <1>4 DEF SuiteFails
  <2> DEFINE i == command[p].snap
  <2>1. PICK r \in Release : r = [command[p].rel EXCEPT !.tests = "fail"]
    BY <2>0, DueIs, ChangedIs DEF StoreType
  <2>2. [r EXCEPT !.rc = Never] \in Release
    BY <2>0, DueIs, ChangedIs
  <2>3. WriteSigned(i) \in Seq(FileChange) /\ <<ToDo("retreat", "rc", i)>> \o WriteSigned(i) \in Seq(FileChange)
    BY <2>0, DueIs, SequencesAre DEF Pointers
  <2>4. PICK more \in Seq(FileChange), s \in Release : Advance(p, more, s)
    BY <1>4, <2>1, <2>2, <2>3 DEF SuiteFails
  <2> QED BY <2>0, <2>4, AdvanceTypes
<1>5. CASE Survey(p)
  <2>0. Due(p, "survey")
    BY <1>5 DEF Survey
  <2> DEFINE i == command[p].snap
             back(c) == IF target[c] = i THEN <<ToDo("retreat", c, i)>> ELSE <<>>
  <2>1. ASSUME NEW c \in Pointers PROVE back(c) \in Seq(FileChange)
    BY <2>0, DueIs, SequencesAre
  <2>2. back("edge") \in Seq(FileChange) /\ back("rc") \in Seq(FileChange) /\ back("stable") \in Seq(FileChange)
    BY <2>1 DEF Pointers
  <2>3. back("edge") \o back("rc") \o back("stable") \in Seq(FileChange)
    <3> HIDE DEF back
    <3> QED BY <2>2
  <2>4. PICK more \in Seq(FileChange) : Advance(p, more, command[p].rel)
    BY <1>5, <2>3 DEF Survey
  <2> QED BY <2>0, <2>4, DueIs, AdvanceTypes
<1>6. CASE Retreat(p)
  <2>0. Due(p, "retreat")
    BY <1>6 DEF Retreat
  <2> DEFINE c == Head(command[p].steps).channel
             i == command[p].snap
  <2>1. c \in Pointers /\ i \in Dirs /\ command[p].rel \in Release
    BY <2>0, DueIs
  <2>2. CASE Fallback(c, i) = Unreadable
    <3>1. command' = [command EXCEPT ![p] = Waiting]
      BY <1>6, <2>2 DEF Retreat, Finishes
    <3> QED BY <3>1, IdleIsARun DEF StoreType
  <2>3. CASE Fallback(c, i) # Unreadable
    <3>1. /\ <<>> \in Seq(FileChange) /\ <<ToDo("clear", c, i)>> \in Seq(FileChange)
          /\ Fallback(c, i) # Nowhere => Point(c, Fallback(c, i)) \in Seq(FileChange)
      BY <2>1, <2>3, FallbackIs, SequencesAre
    <3>2. PICK more \in Seq(FileChange) : Advance(p, more, command[p].rel)
      BY <1>6, <2>3, <3>1 DEF Retreat
    <3> QED BY <2>0, <2>1, <3>2, AdvanceTypes
  <2> QED BY <2>2, <2>3
<1> QED BY <1>3, <1>4, <1>5, <1>6

\* A mishap leaves the types.
LEMMA MishapTypes ==
  ASSUME StoreType, NEW p \in Operators, Dies(p)
  PROVE  command' \in [Operators -> CommandRun] /\ kills' \in 0 .. MaxKills
<1>1. command' \in [Operators -> CommandRun]
  BY IdleIsARun DEF Dies, Finishes, StoreType
<1>2. kills' \in 0 .. MaxKills
  BY StoreBoundsAreNat DEF Dies, StoreType
<1> QED BY <1>1, <1>2

\* The changes of the store leave the types.
LEMMA ChangeTypes ==
  ASSUME StoreType, NEW p \in Operators,
         \/ WriteDocument(p) \/ WriteSignature(p) \/ SignatureFails(p)
         \/ Commit(p) \/ CutFails(p) \/ PointChannel(p) \/ ClearChannel(p)
  PROVE  StoreType'
<1> USE DirsAre
<1>1. CASE WriteDocument(p)
  <2>1. PICK x \in CommandRun : x = command[p]
    BY DEF StoreType
  <2>2. /\ x.steps \in Seq(FileChange) /\ x.steps # <<>> /\ Head(x.steps).dir \in Dirs
        /\ x.rel \in Release
    BY <1>1, <2>1, DueIs DEF WriteDocument
  <2>3. Tail(x.steps) \in Seq(FileChange)
    BY <2>2
  <2>4. document[Head(x.steps).dir] \in Release \cup {Gone}
    BY <2>2 DEF StoreType
  <2>5. [x EXCEPT !.steps = Tail(@), !.previous = document[Head(x.steps).dir]] \in CommandRun
    BY <2>3, <2>4 DEF CommandRun
  <2>6. command' = [command EXCEPT ![p] = [x EXCEPT !.steps = Tail(@), !.previous = document[Head(x.steps).dir]]]
    BY <1>1, <2>1 DEF WriteDocument
  <2>7. command' \in [Operators -> CommandRun]
    BY <2>5, <2>6 DEF StoreType
  <2>8. document' \in [Dirs -> Release \cup {Gone}]
    BY <1>1, <2>1, <2>2 DEF WriteDocument, StoreType
  <2> QED BY <1>1, <2>7, <2>8 DEF WriteDocument, StoreType
<1>2. CASE WriteSignature(p)
  <2>1. command[p].steps # <<>> /\ Head(command[p].steps).dir \in Dirs /\ command[p].rel \in Release
    BY <1>2, DueIs DEF WriteSignature
  <2>2. command' = [command EXCEPT ![p] = command'[p]] /\ command'[p] \in CommandRun
    BY <1>2, <2>1, WrittenIs DEF WriteSignature
  <2> QED BY <1>2, <2>1, <2>2 DEF WriteSignature, StoreType
<1>3. CASE SignatureFails(p)
  <2>1. Head(command[p].steps).dir \in Dirs /\ command[p].previous \in Release \cup {Gone}
    BY <1>3, DueIs DEF SignatureFails
  <2> QED BY <1>3, <2>1, MishapTypes DEF SignatureFails, StoreType
<1>4. CASE Commit(p)
  <2>1. command[p].steps # <<>> /\ command[p].snap \in Dirs /\ command[p].rel \in Release
    BY <1>4, DueIs DEF Commit
  <2>2. command' \in [Operators -> CommandRun]
    <3>1. <<>> \in Seq(FileChange) /\ Advance(p, <<>>, command[p].rel) /\ Due(p, "commit")
      BY <1>4 DEF Commit, Done
    <3> QED BY <2>1, <3>1, AdvanceTypes
  <2> QED BY <1>4, <2>1, <2>2 DEF Commit, StoreType
<1>5. CASE CutFails(p)
  BY <1>5, MishapTypes DEF CutFails, StoreType
<1>6. CASE PointChannel(p)
  <2>1. /\ Head(command[p].steps).channel \in Pointers /\ Head(command[p].steps).dir \in Dirs
        /\ command[p].rel \in Release
    BY <1>6, DueIs DEF PointChannel
  <2>2. command' \in [Operators -> CommandRun]
    <3>1. <<>> \in Seq(FileChange) /\ Advance(p, <<>>, command[p].rel) /\ Due(p, "point")
      BY <1>6 DEF PointChannel, Done
    <3> QED BY <2>1, <3>1, AdvanceTypes
  <2> QED BY <1>6, <2>1, <2>2 DEF PointChannel, StoreType
<1>7. CASE ClearChannel(p)
  <2>1. Head(command[p].steps).channel \in Pointers /\ command[p].rel \in Release
    BY <1>7, DueIs DEF ClearChannel
  <2>2. command' \in [Operators -> CommandRun]
    <3>1. <<>> \in Seq(FileChange) /\ Advance(p, <<>>, command[p].rel) /\ Due(p, "clear")
      BY <1>7 DEF ClearChannel, Done
    <3> QED BY <2>1, <3>1, AdvanceTypes
  <2> QED BY <1>7, <2>1, <2>2 DEF ClearChannel, StoreType
<1> QED BY <1>1, <1>2, <1>3, <1>4, <1>5, <1>6, <1>7

\* A prune, a kill and time leave the types.
LEMMA OtherTypes ==
  ASSUME StoreType, NEW p \in Operators,
         \/ PruneKeeps(p) \/ PruneRemoves(p) \/ PruneIsInterrupted(p) \/ PruneEnds(p)
         \/ Killed(p) \/ ClockTicks
  PROVE  StoreType'
<1> USE DirsAre
<1>0. PICK x \in CommandRun : x = command[p]
  BY DEF StoreType
<1>1. ASSUME NEW d PROVE [x EXCEPT !.todo = @ \ {d}] \in CommandRun
  BY DEF CommandRun
<1>2. x.todo \subseteq Dirs
  BY DEF CommandRun
<1>3. CASE PruneKeeps(p)
  BY <1>0, <1>1, <1>3 DEF PruneKeeps, StoreType, store
<1>4. CASE PruneRemoves(p)
  <2>1. PICK d \in x.todo :
          /\ command' = [command EXCEPT ![p].todo = @ \ {d}]
          /\ content' = [content EXCEPT ![d] = "none"]
          /\ document' = [document EXCEPT ![d] = Gone]
          /\ signature' = [signature EXCEPT ![d] = Gone]
          /\ everStable' = everStable \ {d}
    BY <1>0, <1>4 DEF PruneRemoves
  <2>2. d \in Dirs
    BY <1>2, <2>1
  <2>3. command' \in [Operators -> CommandRun]
    BY <1>0, <1>1, <2>1 DEF StoreType
  <2> QED BY <1>4, <2>1, <2>2, <2>3 DEF PruneRemoves, StoreType
<1>5. CASE PruneIsInterrupted(p)
  <2>1. PICK d \in x.todo :
          /\ content' = [content EXCEPT ![d] = "part"]
          /\ \E r \in {document[d], Gone} : document' = [document EXCEPT ![d] = r]
          /\ \E r \in {signature[d], Gone} : signature' = [signature EXCEPT ![d] = r]
    BY <1>0, <1>5 DEF PruneIsInterrupted
  <2>2. d \in Dirs
    BY <1>2, <2>1
  <2>3. content' \in [Dirs -> {"none", "whole", "part"}] /\ document' \in [Dirs -> Release \cup {Gone}]
    BY <2>1, <2>2 DEF StoreType
  <2>4. signature' \in [Dirs -> Release \cup {Gone}]
    BY <2>1, <2>2 DEF StoreType
  <2>5. Dies(p) /\ UNCHANGED <<clock, target, everStable>>
    BY <1>5 DEF PruneIsInterrupted
  <2> QED BY <2>3, <2>4, <2>5, MishapTypes DEF StoreType
<1>6. CASE PruneEnds(p)
  BY <1>6, IdleIsARun DEF PruneEnds, Finishes, StoreType, store
<1>7. CASE Killed(p)
  BY <1>7, MishapTypes DEF Killed, StoreType, store
<1>8. CASE ClockTicks
  BY <1>8, StoreBoundsAreNat DEF ClockTicks, StoreType, store, Times
<1> QED BY <1>3, <1>4, <1>5, <1>6, <1>7, <1>8

\* Every step leaves the types.
LEMMA StepTypes == StoreType /\ [StoreNext]_storeVars => StoreType'
<1> SUFFICES ASSUME StoreType, [StoreNext]_storeVars PROVE StoreType'
  OBVIOUS
<1>1. CASE \E p \in Operators : StoreStep(p)
  BY <1>1, StartTypes, LookTypes, ChangeTypes, OtherTypes DEF StoreStep
<1>2. CASE ClockTicks
  BY <1>2, StoreBoundsAreNat DEF ClockTicks, StoreType, store, Times
<1>3. CASE UNCHANGED storeVars
  BY <1>3 DEF storeVars, store, StoreType
<1> QED BY <1>1, <1>2, <1>3 DEF StoreNext

\* The store starts with its types.
LEMMA InitTypes == StoreInit => StoreType
BY IdleIsARun, StoreBoundsAreNat DEF StoreInit, StoreType, Times
-----------------------------------------------------------------------------
\* The steps of a manifest are changes.
LEMMA PairIs ==
  ASSUME NEW d \in Dirs
  PROVE  /\ Document(d) \in FileChange /\ Document(d).do = "document" /\ Document(d).dir = d
         /\ Signature(d) \in FileChange /\ Signature(d).do = "signature" /\ Signature(d).dir = d
BY DEF Document, Signature, ToDo, FileChange, Kinds, Pointers

\* Both files of a manifest to write, then others.
LEMMA ToWriteIs ==
  ASSUME NEW d \in Dirs, NEW s \in Seq(FileChange)
  PROVE  /\ ToSign(d, s) \in Seq(FileChange) /\ ToSign(d, s) # <<>>
         /\ Head(ToSign(d, s)) = Signature(d) /\ Tail(ToSign(d, s)) = s
         /\ ToWrite(d, s) \in Seq(FileChange) /\ ToWrite(d, s) # <<>>
         /\ Head(ToWrite(d, s)) = Document(d) /\ Tail(ToWrite(d, s)) = ToSign(d, s)
<1>1. ToSign(d, s) \in Seq(FileChange)
  BY PairIs, ThenIs DEF ToSign
<1> QED BY <1>1, PairIs, ThenIs DEF ToSign, ToWrite

\* Nothing comes before a sequence.
LEMMA NothingFirst ==
  ASSUME NEW s \in Seq(FileChange)
  PROVE  <<>> \o s = s /\ s \o <<>> = s
OBVIOUS

\* The last two steps.
LEMMA TwoAre ==
  ASSUME NEW a \in FileChange, NEW b \in FileChange
  PROVE  /\ Then(b, <<>>) \in Seq(FileChange) /\ Then(b, <<>>) # <<>>
         /\ Head(Then(b, <<>>)) = b /\ Tail(Then(b, <<>>)) = <<>>
         /\ Then(a, Then(b, <<>>)) \in Seq(FileChange)
         /\ Head(Then(a, Then(b, <<>>))) = a /\ Tail(Then(a, Then(b, <<>>))) = Then(b, <<>>)
<1>1. <<>> \in Seq(FileChange)
  OBVIOUS
<1>2. Then(b, <<>>) \in Seq(FileChange)
  BY <1>1, ThenIs
<1> QED BY <1>1, <1>2, ThenIs

\* What may come after is a sequence of changes.
LEMMA RestIs ==
  ASSUME NEW rest \in Rests
  PROVE  rest \in Seq(FileChange)
<1>1. <<>> \in Seq(FileChange)
  OBVIOUS
<1> QED BY <1>1, ThenIs DEF Rests

\* A command is at the stage that its next step tells.
LEMMA StageIs ==
  ASSUME NEW x \in CommandRun, NEW t, NEW fs, NEW doc, NEW tgt, NEW ever,
         Fits(x, t, fs, doc, tgt, ever), x.steps # <<>>
  PROVE  LET do == Head(x.steps).do IN
    /\ Assembling(x, fs, tgt) => do = "document"
    /\ Sealing(x, fs, doc, tgt) => do = "signature"
    /\ Committing(x, fs, doc, tgt) => do = "commit"
    /\ Naming(x, doc) => do = "point"
    /\ Writing(x, doc, tgt, ever) => do = "document"
    /\ Signing(x, doc, tgt, ever) => do = "signature"
    /\ Ending(x, doc, tgt) => do \in {"survey", "point"}
    /\ Testing(x, doc) => do = "suite"
    /\ Leaving(x, doc, tgt, ever) => do \in {"retreat", "clear", "point"}
    /\ Retreating(x, doc, tgt) => do \in {"retreat", "point"}
    /\ Pruning(x, tgt) => do = "prune"
    /\ x # Waiting
<1> USE DirsAre
<1>0. /\ <<>> \in Seq(FileChange) /\ x.snap \in Dirs
      /\ \A a, b \in FileChange : Then(a, Then(b, <<>>)) \in Seq(FileChange)
  <2>1. <<>> \in Seq(FileChange)
    OBVIOUS
  <2> QED BY <2>1, ThenIs DEF CommandRun
<1>1. Assembling(x, fs, tgt) => Head(x.steps).do = "document"
  <2>1. SUFFICES ASSUME NEW a \in FileChange, NEW b \in FileChange, x.steps = ToWrite(Partial, Then(a, Then(b, <<>>)))
                 PROVE  Head(x.steps).do = "document"
    BY DEF Assembling
  <2>2. Then(b, <<>>) \in Seq(FileChange) /\ Then(a, Then(b, <<>>)) \in Seq(FileChange)
    BY <1>0, ThenIs
  <2> QED BY <2>1, <2>2, ToWriteIs, PairIs
<1>2. Sealing(x, fs, doc, tgt) => Head(x.steps).do = "signature"
  <2>1. SUFFICES ASSUME NEW a \in FileChange, NEW b \in FileChange, x.steps = ToSign(Partial, Then(a, Then(b, <<>>)))
                 PROVE  Head(x.steps).do = "signature"
    BY DEF Sealing
  <2>2. Then(b, <<>>) \in Seq(FileChange) /\ Then(a, Then(b, <<>>)) \in Seq(FileChange)
    BY <1>0, ThenIs
  <2> QED BY <2>1, <2>2, ToWriteIs, PairIs
<1>3. Committing(x, fs, doc, tgt) => Head(x.steps).do = "commit"
  <2>1. SUFFICES ASSUME NEW a \in FileChange, NEW b \in FileChange, x.steps = Then(a, Then(b, <<>>)), a.do = "commit"
                 PROVE  Head(x.steps).do = "commit"
    BY DEF Committing, Making
  <2>2. Then(b, <<>>) \in Seq(FileChange) /\ Then(a, Then(b, <<>>)) \in Seq(FileChange)
    BY <1>0, ThenIs
  <2> QED BY <2>1, <2>2, ThenIs
<1>4. Naming(x, doc) => Head(x.steps).do = "point"
  BY <1>0, ThenIs DEF Naming
<1>5. Writing(x, doc, tgt, ever) => Head(x.steps).do = "document"
  <2>1. SUFFICES ASSUME NEW rest \in Rests, x.steps = ToWrite(x.snap, rest)
                 PROVE  Head(x.steps).do = "document"
    BY DEF Writing
  <2>2. rest \in Seq(FileChange) /\ x.snap \in Dirs
    BY <1>0, RestIs
  <2>3. PICK d \in Dirs : x.steps = ToWrite(d, rest)
    BY <2>1, <2>2
  <2> QED BY <2>2, <2>3, ToWriteIs, PairIs
<1>6. Signing(x, doc, tgt, ever) => Head(x.steps).do = "signature"
  <2>1. SUFFICES ASSUME NEW rest \in Rests, x.steps = ToSign(x.snap, rest)
                 PROVE  Head(x.steps).do = "signature"
    BY DEF Signing
  <2>2. rest \in Seq(FileChange) /\ x.snap \in Dirs
    BY <1>0, RestIs
  <2>3. PICK d \in Dirs : x.steps = ToSign(d, rest)
    BY <2>1, <2>2
  <2> QED BY <2>2, <2>3, ToWriteIs, PairIs
<1>7. Ending(x, doc, tgt) => Head(x.steps).do \in {"survey", "point"}
  BY <1>0, ThenIs DEF Ending, Ends
<1>8. Testing(x, doc) => Head(x.steps).do = "suite"
  BY <1>0, ThenIs DEF Testing
<1>9. Leaving(x, doc, tgt, ever) => Head(x.steps).do \in {"retreat", "clear", "point"}
  <2>1. ToWrite(x.snap, <<>>) \in Seq(FileChange)
    BY <1>0, ToWriteIs
  <2> QED BY <2>1, ThenIs DEF Leaving
<1>10. Retreating(x, doc, tgt) => Head(x.steps).do \in {"retreat", "point"}
  BY DEF Retreating
<1>11. Pruning(x, tgt) => Head(x.steps).do = "prune"
  BY <1>0, ThenIs DEF Pruning
<1>12. x # Waiting
  BY IdleIsARun
<1> QED BY <1>1, <1>2, <1>3, <1>4, <1>5, <1>6, <1>7, <1>8, <1>9, <1>10, <1>11, <1>12

\* A process without a command fits any store.
LEMMA IdleFits ==
  ASSUME NEW t \in Times, NEW fs, NEW doc, NEW tgt, NEW ever
  PROVE  Fits(Waiting, t, fs, doc, tgt, ever)
BY IdleIsARun, StoreBoundsAreNat DEF Fits, Times

\* A manifest that may stand at a directory may be written there.
LEMMA WritingIsSound ==
  ASSUME NEW fs, NEW doc \in [Dirs -> Release \cup {Gone}],
         NEW tgt \in [Pointers -> Dirs \cup {Nowhere}], NEW ever \in SUBSET Dirs,
         NEW d \in Dirs, NEW r \in Release,
         Sound(fs, doc, tgt, ever), fs[d] # "none", Stands(d, r, tgt, ever),
         d = Partial => r.rc = Never /\ ~r.stable
  PROVE  Sound(fs, [doc EXCEPT ![d] = r], tgt, ever)
<1>1. "rc" \in Pointers /\ "stable" \in Pointers
  BY DEF Pointers
<1> QED BY <1>1, NothingIsNot, DirsAre DEF Sound, Stands

\* What stands at a snapshot may stand there.
LEMMA StandingIsSound ==
  ASSUME NEW fs, NEW doc \in [Dirs -> Release \cup {Gone}],
         NEW tgt \in [Pointers -> Dirs \cup {Nowhere}], NEW ever \in SUBSET Dirs,
         NEW d \in Dirs, Sound(fs, doc, tgt, ever), doc[d] # Gone
  PROVE  Stands(d, doc[d], tgt, ever)
BY NothingIsNot DEF Sound, Stands

\* The first file of a manifest is written.
LEMMA DocumentStep ==
  ASSUME StoreType, NEW p \in Operators, Holds(p), WriteDocument(p)
  PROVE  Holds(p)'
<1> USE DirsAre
<1>0. /\ document \in [Dirs -> Release \cup {Gone}] /\ everStable \in SUBSET Dirs
      /\ target \in [Pointers -> Dirs \cup {Nowhere}]
      /\ Sound(content, document, target, everStable)
      /\ command \in [Operators -> CommandRun]
  BY DEF StoreType, Holds
<1>1. PICK x \in CommandRun : x = command[p]
  BY <1>0
<1>2. /\ x.steps \in Seq(FileChange) /\ x.steps # <<>>
      /\ Head(x.steps).do = "document" /\ Head(x.steps).dir \in Dirs
      /\ x.rel \in Release /\ x.snap \in Dirs
  BY <1>1, DueIs DEF WriteDocument
<1>3. PICK d \in Dirs : d = Head(x.steps).dir
  BY <1>2
<1>4. /\ content[d] # "none" /\ document' = [document EXCEPT ![d] = x.rel]
      /\ command' = [command EXCEPT ![p] = [x EXCEPT !.steps = Tail(@), !.previous = document[d]]]
      /\ UNCHANGED <<clock, content, target, everStable>>
  BY <1>1, <1>3 DEF WriteDocument
<1>5. PICK y \in CommandRun : y = command'[p]
  <2>1. Tail(x.steps) \in Seq(FileChange) /\ document[d] \in Release \cup {Gone}
    BY <1>0, <1>2
  <2>2. [x EXCEPT !.steps = Tail(@), !.previous = document[d]] \in CommandRun
    BY <2>1 DEF CommandRun
  <2> QED BY <1>0, <1>4, <2>2
<1>6. /\ y.steps = Tail(x.steps) /\ y.previous = document[d] /\ y.rel = x.rel
      /\ y.cmd = x.cmd /\ y.snap = x.snap /\ y.at = x.at
  <2>1. y = [x EXCEPT !.steps = Tail(@), !.previous = document[d]]
    BY <1>0, <1>4, <1>5
  <2> QED BY <2>1 DEF CommandRun
<1>7. Fits(x, clock, content, document, target, everStable)
  BY <1>1 DEF Holds
<1>8. Assembling(x, content, target) \/ Writing(x, document, target, everStable)
  BY <1>2, <1>7, StageIs DEF Fits
<1>9. document'[d] = x.rel
  BY <1>0, <1>4
<1>10. CASE Assembling(x, content, target)
  <2>1. PICK a \in FileChange, b \in FileChange :
          /\ Making(x, content, target, a, b)
          /\ x.steps = ToWrite(Partial, Then(a, Then(b, <<>>)))
    BY <1>10 DEF Assembling
  <2>2. Then(b, <<>>) \in Seq(FileChange) /\ Then(a, Then(b, <<>>)) \in Seq(FileChange)
    BY TwoAre
  <2>3. d = Partial /\ y.steps = ToSign(Partial, Then(a, Then(b, <<>>)))
    BY <1>3, <1>6, <2>1, <2>2, ToWriteIs, PairIs
  <2>4. Stands(d, x.rel, target, everStable)
    BY <1>0, <1>2, <2>1, <2>3 DEF Stands, Making, Pointers, Sound
  <2>5. Sound(content', document', target', everStable')
    BY <1>0, <1>2, <1>4, <2>1, <2>3, <2>4, WritingIsSound DEF Making
  <2>6. Making(y, content, target, a, b)
    BY <1>6, <2>1 DEF Making
  <2>7. Sealing(y, content', document', target')
    BY <1>4, <1>6, <1>9, <2>3, <2>6 DEF Sealing
  <2> QED BY <1>4, <1>5, <1>6, <1>7, <2>5, <2>7 DEF Holds, Fits
<1>11. CASE Writing(x, document, target, everStable)
  <2>1. PICK rest \in Rests :
          /\ Changes(x, document) /\ Rest(x, target, rest)
          /\ x.steps = ToWrite(x.snap, rest)
          /\ Stands(x.snap, x.rel, target, everStable) /\ Follows(x, x.rel, document[x.snap])
    BY <1>11 DEF Writing
  <2>2. PICK i \in Dirs : i = x.snap
    BY <1>2
  <2>3. x.steps = ToWrite(i, rest) /\ rest \in Seq(FileChange)
    BY <2>1, <2>2, RestIs
  <2>4. d = i /\ y.steps = ToSign(i, rest)
    BY <1>3, <1>6, <2>3, ToWriteIs, PairIs
  <2>5. i # Partial /\ document[i] # Gone
    BY <2>1, <2>2 DEF Changes
  <2>6. Sound(content', document', target', everStable')
    BY <1>0, <1>2, <1>4, <2>1, <2>2, <2>4, <2>5, WritingIsSound
  <2>7. Stands(i, document[i], target, everStable)
    BY <1>0, <2>5, StandingIsSound
  <2>8. Changes(y, document') /\ Rest(y, target', rest)
    BY <1>2, <1>4, <1>6, <1>9, <2>1, <2>2, <2>4, NothingIsNot DEF Changes, Rest, Ends
  <2>9. Signing(y, document', target', everStable')
    BY <1>4, <1>6, <1>9, <2>1, <2>2, <2>4, <2>7, <2>8 DEF Signing, Follows
  <2> QED BY <1>4, <1>5, <1>6, <1>7, <2>6, <2>9 DEF Holds, Fits
<1> QED BY <1>8, <1>10, <1>11

\* The second file of a manifest is written, or the first is put back.
LEMMA SignatureStep ==
  ASSUME StoreType, NEW p \in Operators, Holds(p), WriteSignature(p) \/ SignatureFails(p)
  PROVE  Holds(p)'
<1> USE DirsAre
<1>0. /\ document \in [Dirs -> Release \cup {Gone}] /\ everStable \in SUBSET Dirs
      /\ target \in [Pointers -> Dirs \cup {Nowhere}]
      /\ Sound(content, document, target, everStable)
      /\ command \in [Operators -> CommandRun] /\ clock \in Times
  BY DEF StoreType, Holds
<1>1. PICK x \in CommandRun : x = command[p]
  BY <1>0
<1>2. /\ x.steps \in Seq(FileChange) /\ x.steps # <<>> /\ Due(p, "signature")
      /\ Head(x.steps).do = "signature" /\ Head(x.steps).dir \in Dirs
      /\ x.rel \in Release /\ x.snap \in Dirs
  BY <1>1, DueIs DEF WriteSignature, SignatureFails
<1>3. Fits(x, clock, content, document, target, everStable)
  BY <1>1 DEF Holds
<1>4. Sealing(x, content, document, target) \/ Signing(x, document, target, everStable)
  BY <1>2, <1>3, StageIs DEF Fits
<1>5. ASSUME Signing(x, document, target, everStable)
      PROVE  \E i \in Dirs, rest \in Rests :
               /\ i = x.snap /\ Changes(x, document) /\ Rest(x, target, rest)
               /\ rest \in Seq(FileChange) /\ Tail(x.steps) = rest /\ Head(x.steps).dir = i
               /\ document[i] = x.rel
               /\ Stands(i, x.previous, target, everStable)
  <2>1. PICK i \in Dirs : i = x.snap
    BY <1>2
  <2>2. PICK rest \in Rests :
          /\ Changes(x, document) /\ Rest(x, target, rest)
          /\ x.steps = ToSign(i, rest) /\ document[i] = x.rel
          /\ Stands(i, x.previous, target, everStable)
    BY <1>5, <2>1 DEF Signing
  <2> QED BY <2>1, <2>2, RestIs, ToWriteIs, PairIs
<1>6. CASE WriteSignature(p)
  <2>1. /\ command'[p] \in CommandRun
        /\ \/ Tail(x.steps) = <<>> /\ command'[p] = Waiting
           \/ /\ command'[p].steps = Tail(x.steps) /\ Tail(x.steps) # <<>>
              /\ command'[p].rel = x.rel
              /\ command'[p].cmd = x.cmd /\ command'[p].snap = x.snap /\ command'[p].at = x.at
    BY <1>1, <1>2, <1>6, WrittenIs DEF WriteSignature
  <2>2. UNCHANGED <<clock, content, document, target, everStable>>
    BY <1>6 DEF WriteSignature
  <2>3. CASE command'[p] = Waiting
    BY <1>0, <2>2, <2>3, IdleFits DEF Holds
  <2>4. CASE command'[p] # Waiting
    <3>1. PICK y \in CommandRun : y = command'[p]
      BY <2>1
    <3>2. /\ y.steps = Tail(x.steps) /\ Tail(x.steps) # <<>> /\ y.rel = x.rel
          /\ y.cmd = x.cmd /\ y.snap = x.snap /\ y.at = x.at
      BY <2>1, <2>4, <3>1
    <3>3. CASE Sealing(x, content, document, target)
      <4>1. PICK a \in FileChange, b \in FileChange :
              /\ Making(x, content, target, a, b) /\ document[Partial] = x.rel
              /\ x.steps = ToSign(Partial, Then(a, Then(b, <<>>)))
        BY <3>3 DEF Sealing
      <4>2. Then(b, <<>>) \in Seq(FileChange) /\ Then(a, Then(b, <<>>)) \in Seq(FileChange)
        BY TwoAre
      <4>3. y.steps = Then(a, Then(b, <<>>))
        BY <3>2, <4>1, <4>2, ToWriteIs
      <4>4. Making(y, content, target, a, b)
        BY <3>2, <4>1 DEF Making
      <4>5. Committing(y, content, document, target)
        BY <3>2, <4>1, <4>3, <4>4 DEF Committing
      <4> QED BY <1>0, <1>3, <2>2, <3>1, <3>2, <4>5 DEF Holds, Fits
    <3>4. CASE Signing(x, document, target, everStable)
      <4>1. PICK i \in Dirs, rest \in Rests :
              /\ i = x.snap /\ Changes(x, document) /\ Rest(x, target, rest)
              /\ Tail(x.steps) = rest /\ document[i] = x.rel
        BY <1>5, <3>4
      <4>2. PICK a \in FileChange : rest = Then(a, <<>>) /\ Ends(x, target, a)
        BY <3>2, <4>1 DEF Rest
      <4>3. Changes(y, document) /\ Ends(y, target, a)
        BY <3>2, <4>1, <4>2 DEF Changes, Ends
      <4>4. Ending(y, document, target)
        BY <3>2, <4>1, <4>2, <4>3 DEF Ending
      <4> QED BY <1>0, <1>3, <2>2, <3>1, <3>2, <4>4 DEF Holds, Fits
    <3> QED BY <1>4, <3>3, <3>4
  <2> QED BY <2>3, <2>4
<1>7. CASE SignatureFails(p)
  <2>1. Signing(x, document, target, everStable)
    BY <1>1, <1>4, <1>7 DEF Sealing, Making, SignatureFails
  <2>2. PICK i \in Dirs :
          /\ i = x.snap /\ Changes(x, document) /\ Head(x.steps).dir = i
          /\ Stands(i, x.previous, target, everStable)
    BY <1>5, <2>1
  <2>3. /\ document' = [document EXCEPT ![i] = x.previous]
        /\ command' = [command EXCEPT ![p] = Waiting]
        /\ UNCHANGED <<clock, content, target, everStable>>
    BY <1>1, <1>7, <2>2 DEF SignatureFails, Dies, Finishes
  <2>4. x.previous \in Release /\ i # Partial /\ content[i] # "none"
    BY <1>0, <2>2 DEF Stands, Changes, Sound
  <2>5. Sound(content', document', target', everStable')
    BY <1>0, <2>2, <2>3, <2>4, WritingIsSound
  <2>6. command'[p] = Waiting
    BY <1>0, <2>3
  <2> QED BY <1>0, <2>3, <2>5, <2>6, IdleFits DEF Holds
<1> QED BY <1>6, <1>7

\* The step of a cut that renames the directory: no other stage has it to do.
LEMMA NoCommitIs ==
  ASSUME NEW a \in FileChange, a.do # "commit", NEW s \in Seq(FileChange),
         \A k \in 1 .. Len(s) : s[k].do # "commit"
  PROVE  \A k \in 1 .. Len(Then(a, s)) : Then(a, s)[k].do # "commit"
BY DEF Then

\* Who still has the rename to do is making the unfinished directory.
LEMMA MakingIs ==
  ASSUME NEW x \in CommandRun, NEW t, NEW fs, NEW doc, NEW tgt, NEW ever,
         Fits(x, t, fs, doc, tgt, ever),
         \E k \in 1 .. Len(x.steps) : x.steps[k].do = "commit"
  PROVE  Assembling(x, fs, tgt) \/ Sealing(x, fs, doc, tgt) \/ Committing(x, fs, doc, tgt)
<1> DEFINE None(s) == \A k \in 1 .. Len(s) : s[k].do # "commit"
<1>0. x.snap \in Dirs /\ x.steps \in Seq(FileChange) /\ <<>> \in Seq(FileChange)
  BY DEF CommandRun
<1>1. None(<<>>)
  OBVIOUS
<1>2. ASSUME NEW a \in FileChange, a.do # "commit" PROVE None(Then(a, <<>>))
  BY <1>0, <1>1, <1>2, NoCommitIs
<1>3. ASSUME NEW d \in Dirs, NEW s \in Seq(FileChange), None(s) PROVE None(ToSign(d, s))
  BY <1>3, PairIs, NoCommitIs DEF ToSign
<1>4. ASSUME NEW d \in Dirs, NEW s \in Seq(FileChange), None(s) PROVE None(ToWrite(d, s))
  <2>1. ToSign(d, s) \in Seq(FileChange) /\ None(ToSign(d, s))
    BY <1>3, <1>4, ToWriteIs
  <2> QED BY <2>1, PairIs, NoCommitIs DEF ToWrite
<1>5. ASSUME NEW rest \in Rests, Rest(x, tgt, rest) PROVE rest \in Seq(FileChange) /\ None(rest)
  <2>1. rest \in Seq(FileChange)
    BY RestIs
  <2>2. CASE rest = <<>>
    BY <1>1, <2>1, <2>2
  <2>3. ASSUME NEW a \in FileChange, rest = Then(a, <<>>), Ends(x, tgt, a) PROVE None(rest)
    <3>1. a.do # "commit"
      BY <2>3 DEF Ends
    <3> QED BY <1>2, <2>3, <3>1
  <2> QED BY <1>5, <2>1, <2>2, <2>3 DEF Rest
<1>6. ~None(x.steps)
  OBVIOUS
<1> HIDE DEF None
<1>7. x # Waiting
  BY <1>1, <1>6, IdleIsARun
<1>8. ~Naming(x, doc) /\ ~Ending(x, doc, tgt) /\ ~Testing(x, doc) /\ ~Pruning(x, tgt)
  BY <1>2, <1>6 DEF Naming, Ending, Ends, Testing, Pruning
<1>9. ~Writing(x, doc, tgt, ever)
  <2>1. SUFFICES ASSUME NEW rest \in Rests, NEW d \in Dirs, Rest(x, tgt, rest), x.steps = ToWrite(d, rest)
                 PROVE  FALSE
    BY <1>0 DEF Writing
  <2> QED BY <1>4, <1>5, <1>6, <2>1
<1>10. ~Signing(x, doc, tgt, ever)
  <2>1. SUFFICES ASSUME NEW rest \in Rests, NEW d \in Dirs, Rest(x, tgt, rest), x.steps = ToSign(d, rest)
                 PROVE  FALSE
    BY <1>0 DEF Signing
  <2> QED BY <1>3, <1>5, <1>6, <2>1
<1>11. ~Leaving(x, doc, tgt, ever)
  <2>1. SUFFICES ASSUME NEW a \in FileChange, NEW d \in Dirs, a.do # "commit", x.steps = Then(a, ToWrite(d, <<>>))
                 PROVE  FALSE
    BY <1>0 DEF Leaving
  <2>2. ToWrite(d, <<>>) \in Seq(FileChange) /\ None(ToWrite(d, <<>>))
    BY <1>0, <1>1, <1>4, ToWriteIs
  <2>3. None(Then(a, ToWrite(d, <<>>)))
    BY <2>1, <2>2, NoCommitIs DEF None
  <2> QED BY <1>6, <2>1, <2>3
<1>12. ~Retreating(x, doc, tgt)
  <2>1. SUFFICES ASSUME Head(x.steps).do # "commit", x.steps # <<>>,
                        \A k \in 2 .. Len(x.steps) : x.steps[k].do = "retreat"
                 PROVE  None(x.steps)
    BY <1>6 DEF Retreating
  <2>2. Head(x.steps) = x.steps[1]
    BY <1>0, <2>1
  <2>3. \A k \in 1 .. Len(x.steps) : k = 1 \/ k \in 2 .. Len(x.steps)
    BY <1>0
  <2> QED BY <2>1, <2>2, <2>3 DEF None
<1> QED BY <1>7, <1>8, <1>9, <1>10, <1>11, <1>12 DEF Fits

\* A cut takes its name, or fails and is removed.
LEMMA CutStep ==
  ASSUME StoreType, NEW p \in Operators, Holds(p), Commit(p) \/ CutFails(p)
  PROVE  Holds(p)'
<1> USE DirsAre
<1>0. /\ document \in [Dirs -> Release \cup {Gone}] /\ everStable \in SUBSET Dirs
      /\ target \in [Pointers -> Dirs \cup {Nowhere}]
      /\ content \in [Dirs -> {"none", "whole", "part"}]
      /\ Sound(content, document, target, everStable)
      /\ command \in [Operators -> CommandRun] /\ clock \in Times
  BY DEF StoreType, Holds
<1>1. PICK x \in CommandRun : x = command[p]
  BY <1>0
<1>2. Fits(x, clock, content, document, target, everStable)
  BY <1>1 DEF Holds
<1>3. CASE Commit(p)
  <2>1. /\ x.steps \in Seq(FileChange) /\ x.steps # <<>> /\ Head(x.steps).do = "commit"
        /\ x.rel \in Release /\ x.snap \in Dirs
    BY <1>1, <1>3, DueIs DEF Commit
  <2>2. Committing(x, content, document, target)
    BY <1>2, <2>1, StageIs DEF Fits
  <2>3. PICK a \in FileChange, b \in FileChange :
          /\ Making(x, content, target, a, b) /\ document[Partial] = x.rel
          /\ x.steps = Then(a, Then(b, <<>>))
    BY <2>2 DEF Committing
  <2>4. Tail(x.steps) = Then(b, <<>>) /\ Then(b, <<>>) # <<>>
    BY <2>3, TwoAre
  <2>5. PICK i \in SnapshotIds : i = x.snap
    BY <2>3 DEF Making
  <2>6. /\ content[i] = "none"
        /\ content' = [content EXCEPT ![i] = content[Partial], ![Partial] = "none"]
        /\ document' = [document EXCEPT ![i] = document[Partial], ![Partial] = Gone]
        /\ UNCHANGED <<clock, target, everStable>>
    BY <1>1, <1>3, <2>5 DEF Commit
  <2>7. /\ command'[p].steps = Then(b, <<>>)
        /\ command'[p].cmd = x.cmd /\ command'[p].snap = x.snap /\ command'[p].at = x.at
    <3>1. <<>> \in Seq(FileChange) /\ Advance(p, <<>>, x.rel)
      BY <1>1, <1>3 DEF Commit, Done
    <3>2. <<>> \o Tail(x.steps) = Then(b, <<>>)
      BY <2>3, <2>4, TwoAre, NothingFirst
    <3> QED BY <1>1, <2>1, <2>4, <3>1, <3>2, AdvanceIs
  <2>8. document'[i] = x.rel /\ document'[Partial] = Gone
    BY <1>0, <2>3, <2>5, <2>6
  <2>9. Sound(content', document', target', everStable')
    <3>1. i \notin everStable /\ document[i] = Gone /\ content'[i] # "none"
      BY <1>0, <2>3, <2>5, <2>6 DEF Sound, Making
    <3>2. \A c \in Pointers : target[c] # i /\ target[c] # Partial
      BY <1>0, <2>3, <2>5, <3>1, NothingIsNot DEF Sound, Making
    <3>3. \A d \in Dirs \ {i, Partial} : document'[d] = document[d] /\ content'[d] = content[d]
      BY <1>0, <2>5, <2>6
    <3>4. document'[i].rc = Never /\ ~document'[i].stable /\ i # Partial
      BY <2>3, <2>5, <2>8 DEF Making
    <3>5. \A d \in Dirs : content'[d] = "none" => document'[d] = Gone /\ d \notin everStable
      BY <1>0, <2>8, <3>1, <3>3 DEF Sound
    <3>6. \A d \in everStable : document'[d] # Gone => document'[d].stable
      BY <1>0, <3>1, <3>3 DEF Sound
    <3>7. \A c \in Pointers : target[c] # Nowhere => document'[target[c]] = document[target[c]]
      BY <1>0, <3>2, <3>3
    <3>8. \A c \in Pointers : target[c] # Nowhere => document'[target[c]] # Gone
      BY <1>0, <3>7 DEF Sound
    <3>9. target["rc"] # Nowhere => document'[target["rc"]].rc # Never
      BY <1>0, <3>7 DEF Sound, Pointers
    <3> QED BY <1>0, <2>6, <2>8, <3>5, <3>6, <3>8, <3>9 DEF Sound
  <2>10. Naming(command'[p], document')
    BY <2>1, <2>3, <2>5, <2>7, <2>8, NothingIsNot DEF Naming, Making
  <2> QED BY <1>2, <2>6, <2>7, <2>9, <2>10 DEF Holds, Fits
<1>4. CASE CutFails(p)
  <2>1. /\ \E k \in 1 .. Len(x.steps) : x.steps[k].do = "commit"
        /\ content' = [content EXCEPT ![Partial] = "none"]
        /\ document' = [document EXCEPT ![Partial] = Gone]
        /\ command' = [command EXCEPT ![p] = Waiting]
        /\ UNCHANGED <<clock, target, everStable>>
    BY <1>1, <1>4 DEF CutFails, Dies, Finishes
  <2>2. \A c \in Pointers : target[c] # Partial
    BY <1>2, <2>1, MakingIs DEF Assembling, Sealing, Committing, Making
  <2>3. Sound(content', document', target', everStable')
    BY <1>0, <2>1, <2>2 DEF Sound, Pointers
  <2> QED BY <1>0, <2>1, <2>3, IdleFits DEF Holds
<1> QED BY <1>3, <1>4

\* A channel may be pointed at a directory that is there and says so.
LEMMA PointingIsSound ==
  ASSUME NEW fs, NEW doc \in [Dirs -> Release \cup {Gone}],
         NEW tgt \in [Pointers -> Dirs \cup {Nowhere}], NEW ever \in SUBSET Dirs,
         NEW c \in Pointers, NEW d \in Dirs,
         Sound(fs, doc, tgt, ever), fs[d] # "none", doc[d] # Gone, Reached(c, doc[d])
  PROVE  Sound(fs, doc, [tgt EXCEPT ![c] = d], IF c = "stable" THEN ever \cup {d} ELSE ever)
<1> DEFINE to == [tgt EXCEPT ![c] = d]
           been == IF c = "stable" THEN ever \cup {d} ELSE ever
<1>1. to[c] = d /\ \A e \in Pointers \ {c} : to[e] = tgt[e]
  OBVIOUS
<1>2. ever \subseteq been /\ (c = "stable" => d \in been) /\ \A e \in been : e \in ever \/ (e = d /\ c = "stable")
  OBVIOUS
<1>3. "rc" \in Pointers /\ "stable" \in Pointers
  BY DEF Pointers
<1> HIDE DEF to, been
<1>4. Partial \notin been /\ \A e \in been : doc[e] # Gone => doc[e].stable
  BY <1>2 DEF Sound, Reached
<1>5. \A e \in Dirs : fs[e] = "none" => doc[e] = Gone /\ e \notin been
  BY <1>2 DEF Sound
<1>6. \A e \in Pointers : to[e] # Nowhere => doc[to[e]] # Gone
  BY <1>1 DEF Sound
<1>7. to["rc"] # Nowhere => doc[to["rc"]].rc # Never
  BY <1>1, <1>3 DEF Sound, Reached
<1>8. to["stable"] # Nowhere => to["stable"] \in been
  BY <1>1, <1>2, <1>3 DEF Sound
<1>9. Sound(fs, doc, to, been)
  BY <1>4, <1>5, <1>6, <1>7, <1>8 DEF Sound
<1> QED BY <1>9 DEF to, been

\* Taking a channel off is sound too.
LEMMA ClearingIsSound ==
  ASSUME NEW fs, NEW doc, NEW tgt \in [Pointers -> Dirs \cup {Nowhere}], NEW ever,
         NEW c \in Pointers, Sound(fs, doc, tgt, ever)
  PROVE  Sound(fs, doc, [tgt EXCEPT ![c] = Nowhere], ever)
BY DEF Sound, Pointers

\* A process that has a stage with `next` as its next step, and what it points
\* its channel at.
LEMMA TargetIs ==
  ASSUME NEW x \in CommandRun, NEW t, NEW fs, NEW doc \in [Dirs -> Release \cup {Gone}], NEW tgt, NEW ever,
         Fits(x, t, fs, doc, tgt, ever), x.steps # <<>>,
         Head(x.steps).do = "point", Head(x.steps).dir \in Dirs
  PROVE  doc[Head(x.steps).dir] # Gone /\ Reached(Head(x.steps).channel, doc[Head(x.steps).dir])
<1>0. x.snap \in Dirs /\ x.steps \in Seq(FileChange) /\ <<>> \in Seq(FileChange) /\ x.rel \in Release
  BY DEF CommandRun
<1>1. Naming(x, doc) \/ Ending(x, doc, tgt) \/ Leaving(x, doc, tgt, ever) \/ Retreating(x, doc, tgt)
  BY StageIs DEF Fits
<1>2. CASE Naming(x, doc)
  <2>1. PICK b \in FileChange : /\ doc[x.snap] # Gone /\ b.channel = "edge" /\ b.dir = x.snap
                            /\ x.steps = Then(b, <<>>)
    BY <1>2 DEF Naming
  <2>2. Head(x.steps) = b
    BY <2>1, TwoAre
  <2> QED BY <2>1, <2>2 DEF Reached
<1>3. CASE Ending(x, doc, tgt)
  <2>1. PICK a \in FileChange : /\ Changes(x, doc) /\ Ends(x, tgt, a)
                            /\ x.steps = Then(a, <<>>) /\ doc[x.snap] = x.rel
    BY <1>3 DEF Ending
  <2>2. Head(x.steps) = a
    BY <2>1, TwoAre
  <2> QED BY <2>1, <2>2 DEF Ends, Changes
<1>4. CASE Leaving(x, doc, tgt, ever)
  <2>1. PICK a \in FileChange, i \in Dirs : Leaves(x, doc, tgt, a) /\ x.steps = Then(a, ToWrite(i, <<>>))
    BY <1>0, <1>4 DEF Leaving
  <2>2. ToWrite(i, <<>>) \in Seq(FileChange)
    BY <1>0, ToWriteIs
  <2>3. Head(x.steps) = a
    BY <2>1, <2>2, ThenIs
  <2> QED BY <2>1, <2>3 DEF Leaves, Refuge
<1>5. CASE Retreating(x, doc, tgt)
  <2>1. Head(x.steps) = x.steps[1] /\ 1 \in 1 .. Len(x.steps)
    BY <1>0
  <2>2. Leaves(x, doc, tgt, Head(x.steps))
    BY <1>5, <2>1 DEF Retreating
  <2> QED BY <2>2 DEF Leaves, Refuge
<1> QED BY <1>1, <1>2, <1>3, <1>4, <1>5

\* The rest of a retreat, when its first channel has gone.
LEMMA RetreatGoesOn ==
  ASSUME NEW x \in CommandRun, NEW y \in CommandRun, NEW doc, NEW tgt \in [Pointers -> Dirs \cup {Nowhere}],
         NEW to \in [Pointers -> Dirs \cup {Nowhere}],
         Retreating(x, doc, tgt), y.steps = Tail(x.steps), y.steps # <<>>,
         y.cmd = x.cmd, y.snap = x.snap,
         \A c \in Pointers : c # Head(x.steps).channel => to[c] = tgt[c]
  PROVE  Retreating(y, doc, to)
<1>1. x.steps \in Seq(FileChange) /\ x.steps # <<>> /\ y.steps \in Seq(FileChange)
  BY DEF Retreating, CommandRun
<1>2. /\ Len(y.steps) \in Nat /\ Len(x.steps) = Len(y.steps) + 1
      /\ \A k \in 1 .. Len(y.steps) : y.steps[k] = x.steps[k + 1] /\ x.steps[k + 1] \in FileChange
  BY <1>1
<1>3. Head(x.steps) = x.steps[1] /\ Head(y.steps) = y.steps[1] /\ 1 \in 1 .. Len(y.steps)
  BY <1>1
<1>4. ASSUME NEW k \in 1 .. Len(y.steps)
      PROVE  /\ y.steps[k].do = "retreat" /\ Leaves(y, doc, to, y.steps[k])
             /\ \A j \in 1 .. Len(y.steps) : y.steps[j].channel = y.steps[k].channel => j = k
  <2>1. k + 1 \in 2 .. Len(x.steps) /\ k + 1 \in 1 .. Len(x.steps) /\ 1 \in 1 .. Len(x.steps) /\ k + 1 # 1
    BY <1>2
  <2>2. y.steps[k].do = "retreat" /\ Leaves(x, doc, tgt, y.steps[k])
    BY <1>2, <2>1 DEF Retreating
  <2>3. y.steps[k].channel # Head(x.steps).channel
    BY <1>2, <1>3, <2>1 DEF Retreating
  <2>4. Leaves(y, doc, to, y.steps[k])
    BY <1>2, <2>2, <2>3 DEF Leaves, FileChange
  <2>5. ASSUME NEW j \in 1 .. Len(y.steps), y.steps[j].channel = y.steps[k].channel PROVE j = k
    <3>1. j + 1 \in 1 .. Len(x.steps) /\ x.steps[j + 1].channel = x.steps[k + 1].channel
      BY <1>2, <2>5
    <3>2. j + 1 = k + 1
      BY <2>1, <3>1 DEF Retreating
    <3> QED BY <3>2
  <2> QED BY <2>2, <2>4, <2>5
<1>5. \A k \in 2 .. Len(y.steps) : k \in 1 .. Len(y.steps)
  BY <1>2
<1>6. y.cmd = "hold" /\ Changes(y, doc)
  BY DEF Retreating, Changes
<1> QED BY <1>1, <1>3, <1>4, <1>5, <1>6 DEF Retreating

\* The next step is made and no other is put before the rest.
LEMMA DoneIs ==
  ASSUME StoreType, NEW p \in Operators, NEW kind, Due(p, kind), Done(p)
  PROVE  /\ command'[p] \in CommandRun
         /\ \/ Tail(command[p].steps) = <<>> /\ command'[p] = Waiting
            \/ /\ command'[p].steps = Tail(command[p].steps) /\ Tail(command[p].steps) # <<>>
               /\ command'[p].rel = command[p].rel
               /\ command'[p].cmd = command[p].cmd /\ command'[p].snap = command[p].snap /\ command'[p].at = command[p].at
<1>1. /\ Advance(p, <<>>, command[p].rel) /\ <<>> \in Seq(FileChange)
      /\ Tail(command[p].steps) \in Seq(FileChange) /\ command[p].steps # <<>> /\ command[p].rel \in Release
  BY DueIs DEF Done
<1>2. PICK none \in Seq(FileChange) : none = <<>>
  BY <1>1
<1>3. none \o Tail(command[p].steps) = Tail(command[p].steps)
  BY <1>1, <1>2, NothingFirst
<1>4. PICK r \in Release : r = command[p].rel
  BY <1>1
<1>5. Advance(p, none, r)
  BY <1>1, <1>2, <1>4
<1>6. /\ command'[p] \in CommandRun
      /\ \/ none \o Tail(command[p].steps) = <<>> /\ command'[p] = Waiting
         \/ /\ command'[p].steps = none \o Tail(command[p].steps) /\ command'[p].steps # <<>>
            /\ command'[p].rel = r
            /\ command'[p].cmd = command[p].cmd /\ command'[p].snap = command[p].snap /\ command'[p].at = command[p].at
  BY <1>1, <1>5, AdvanceIs
<1>7. PICK y : y = command'[p]
  OBVIOUS
<1> QED BY <1>3, <1>4, <1>6, <1>7

\* A failed re-test has taken rc off the snapshot: its manifest can say so.
LEMMA LeftIs ==
  ASSUME NEW x \in CommandRun, NEW y \in CommandRun, NEW doc \in [Dirs -> Release \cup {Gone}],
         NEW tgt, NEW to, NEW ever, NEW a \in FileChange,
         x.cmd = "test", Changes(x, doc),
         x.rel.held = doc[x.snap].held, x.snap \in ever => x.rel.stable,
         x.steps = Then(a, ToWrite(x.snap, <<>>)),
         y.steps = Tail(x.steps), y.rel = x.rel, y.cmd = x.cmd, y.snap = x.snap,
         to["rc"] # x.snap
  PROVE  Writing(y, doc, to, ever)
<1>1. x.snap \in Dirs /\ x.rel \in Release /\ <<>> \in Seq(FileChange)
  BY DEF CommandRun
<1>2. PICK i \in Dirs : i = x.snap
  BY <1>1
<1>3. ToWrite(i, <<>>) \in Seq(FileChange) /\ x.steps = Then(a, ToWrite(i, <<>>))
  BY <1>1, <1>2, ToWriteIs
<1>4. y.steps = ToWrite(i, <<>>)
  BY <1>3, ThenIs
<1>5. Changes(y, doc) /\ Rest(y, to, <<>>) /\ <<>> \in Rests
  BY DEF Changes, Rest, Rests
<1>6. Stands(i, y.rel, to, ever) /\ Follows(y, y.rel, doc[i])
  BY <1>1, <1>2 DEF Stands, Follows
<1> QED BY <1>2, <1>4, <1>5, <1>6 DEF Writing

\* A channel is pointed at a snapshot, or is taken off.
LEMMA PointStep ==
  ASSUME StoreType, NEW p \in Operators, Holds(p), PointChannel(p) \/ ClearChannel(p)
  PROVE  Holds(p)'
<1> USE DirsAre
<1>0. /\ document \in [Dirs -> Release \cup {Gone}] /\ everStable \in SUBSET Dirs
      /\ target \in [Pointers -> Dirs \cup {Nowhere}]
      /\ Sound(content, document, target, everStable)
      /\ command \in [Operators -> CommandRun] /\ clock \in Times
  BY DEF StoreType, Holds
<1>1. PICK x \in CommandRun : x = command[p]
  BY <1>0
<1>2. Fits(x, clock, content, document, target, everStable)
  BY <1>1 DEF Holds
<1>3. /\ x.steps \in Seq(FileChange) /\ x.steps # <<>> /\ x.snap \in Dirs
      /\ Head(x.steps).channel \in Pointers /\ Head(x.steps).dir \in Dirs
      /\ PointChannel(p) => Head(x.steps).do = "point"
      /\ ClearChannel(p) => Head(x.steps).do = "clear"
  BY <1>1, DueIs DEF PointChannel, ClearChannel
<1>4. /\ command'[p] \in CommandRun
      /\ \/ Tail(x.steps) = <<>> /\ command'[p] = Waiting
         \/ /\ command'[p].steps = Tail(x.steps) /\ Tail(x.steps) # <<>> /\ command'[p].rel = x.rel
            /\ command'[p].cmd = x.cmd /\ command'[p].snap = x.snap /\ command'[p].at = x.at
  BY <1>1, DoneIs DEF PointChannel, ClearChannel
<1>5. PICK y \in CommandRun : y = command'[p]
  BY <1>4
<1>6. PICK c \in Pointers, d \in Dirs : c = Head(x.steps).channel /\ d = Head(x.steps).dir
  BY <1>3
<1>7. UNCHANGED <<clock, content, document>>
  BY DEF PointChannel, ClearChannel
<1>8. /\ target' \in [Pointers -> Dirs \cup {Nowhere}]
      /\ \A e \in Pointers : e # c => target'[e] = target[e]
      /\ PointChannel(p) => target'[c] = d
      /\ ClearChannel(p) => target'[c] = Nowhere
  BY <1>0, <1>1, <1>6 DEF PointChannel, ClearChannel
<1>9. Sound(content', document', target', everStable')
  <2>1. CASE PointChannel(p)
    <3>1. /\ content[d] # "none" /\ target' = [target EXCEPT ![c] = d]
          /\ everStable' = IF c = "stable" THEN everStable \cup {d} ELSE everStable
      BY <1>1, <1>6, <2>1 DEF PointChannel
    <3>2. document[d] # Gone /\ Reached(c, document[d])
      BY <1>0, <1>2, <1>3, <1>6, <2>1, TargetIs
    <3> QED BY <1>0, <1>7, <3>1, <3>2, PointingIsSound
  <2>2. CASE ClearChannel(p)
    <3>1. target' = [target EXCEPT ![c] = Nowhere] /\ everStable' = everStable
      BY <1>1, <1>6, <2>2 DEF ClearChannel
    <3> QED BY <1>0, <1>7, <3>1, ClearingIsSound
  <2> QED BY <2>1, <2>2
<1>10. CASE y = Waiting
  BY <1>0, <1>5, <1>7, <1>9, <1>10, IdleFits DEF Holds
<1>11. CASE y # Waiting
  <2>1. /\ y.steps = Tail(x.steps) /\ y.steps # <<>> /\ y.rel = x.rel
        /\ y.cmd = x.cmd /\ y.snap = x.snap /\ y.at = x.at
    BY <1>4, <1>5, <1>11
  <2>2. ~Naming(x, document) /\ ~Ending(x, document, target)
    BY <2>1, TwoAre DEF Naming, Ending
  <2>3. Leaving(x, document, target, everStable) \/ Retreating(x, document, target)
    BY <1>2, <1>3, <2>2, StageIs DEF Fits
  <2>4. CASE Leaving(x, document, target, everStable)
    <3>1. PICK a \in FileChange :
            /\ x.cmd = "test" /\ Changes(x, document)
            /\ x.rel.held = document[x.snap].held
            /\ x.snap \in everStable => x.rel.stable
            /\ x.steps = Then(a, ToWrite(x.snap, <<>>))
            /\ a.channel = "rc" /\ Leaves(x, document, target, a)
      BY <2>4 DEF Leaving
    <3>2. PICK i \in Dirs : i = x.snap
      BY <1>3
    <3>3. ToWrite(i, <<>>) \in Seq(FileChange) /\ x.steps = Then(a, ToWrite(i, <<>>))
      <4>1. <<>> \in Seq(FileChange)
        OBVIOUS
      <4> QED BY <3>1, <3>2, <4>1, ToWriteIs
    <3>4. Head(x.steps) = a
      BY <3>3, ThenIs
    <3>5. c = "rc" /\ target'["rc"] # i /\ everStable' = everStable
      <4>1. c = "rc"
        BY <1>6, <3>1, <3>4
      <4>2. CASE PointChannel(p)
        <5>1. d < i
          BY <1>3, <1>6, <3>1, <3>2, <3>4, <4>2 DEF Leaves, Refuge
        <5>2. d # i
          BY <5>1
        <5> QED BY <1>1, <1>6, <1>8, <4>1, <4>2, <5>2 DEF PointChannel
      <4>3. CASE ClearChannel(p)
        BY <1>8, <4>1, <4>3, NothingIsNot DEF ClearChannel
      <4> QED BY <4>1, <4>2, <4>3
    <3>6. Writing(y, document, target', everStable)
      BY <1>0, <2>1, <3>1, <3>2, <3>5, LeftIs
    <3> QED BY <1>2, <1>5, <1>7, <1>9, <2>1, <3>5, <3>6 DEF Holds, Fits
  <2>5. CASE Retreating(x, document, target)
    <3>1. \A e \in Pointers : e # Head(x.steps).channel => target'[e] = target[e]
      BY <1>6, <1>8
    <3>2. PICK to \in [Pointers -> Dirs \cup {Nowhere}] : to = target'
      BY <1>8
    <3>3. Retreating(y, document, to)
      BY <1>0, <2>1, <2>5, <3>1, <3>2, RetreatGoesOn
    <3> QED BY <1>2, <1>5, <1>7, <1>9, <2>1, <3>2, <3>3 DEF Holds, Fits
  <2> QED BY <2>3, <2>4, <2>5
<1> QED BY <1>10, <1>11

\* The suite passed or failed.
LEMMA SuiteStep ==
  ASSUME StoreType, NEW p \in Operators, Holds(p), SuitePasses(p) \/ SuiteFails(p)
  PROVE  Holds(p)'
<1> USE DirsAre
<1>0. /\ document \in [Dirs -> Release \cup {Gone}] /\ everStable \in SUBSET Dirs
      /\ target \in [Pointers -> Dirs \cup {Nowhere}]
      /\ Sound(content, document, target, everStable)
      /\ command \in [Operators -> CommandRun] /\ clock \in Times /\ <<>> \in Seq(FileChange)
  BY DEF StoreType, Holds
<1>1. PICK x \in CommandRun : x = command[p]
  BY <1>0
<1>2. Fits(x, clock, content, document, target, everStable)
  BY <1>1 DEF Holds
<1>3. /\ x.steps \in Seq(FileChange) /\ x.steps # <<>> /\ Head(x.steps).do = "suite"
      /\ x.rel \in Release /\ x.snap \in Dirs /\ x.at \in Times
  BY <1>1, DueIs DEF SuitePasses, SuiteFails
<1>4. Testing(x, document)
  BY <1>2, <1>3, StageIs DEF Fits
<1>5. PICK i \in Dirs : i = x.snap
  BY <1>3
<1>6. /\ x.cmd = "test" /\ Changes(x, document) /\ document[i] = x.rel /\ Tail(x.steps) = <<>>
  BY <1>4, <1>5, TwoAre DEF Testing
<1>7. UNCHANGED <<clock, content, document, target, everStable>>
  BY DEF SuitePasses, SuiteFails, store
<1>8. Stands(i, x.rel, target, everStable)
  BY <1>0, <1>3, <1>6, NothingIsNot, StandingIsSound
<1>9. ASSUME NEW more \in Seq(FileChange), NEW r \in Release, Advance(p, more, r), more # <<>>
      PROVE  \E y \in CommandRun : /\ y = command'[p] /\ y.steps = more /\ y.rel = r /\ y.cmd = "test"
                            /\ y.snap = x.snap /\ y.at = x.at
  <2>1. more \o Tail(x.steps) = more
    BY <1>6, NothingFirst
  <2>2. command[p].steps # <<>>
    BY <1>1, <1>3
  <2>3. /\ command'[p] \in CommandRun
        /\ \/ more \o Tail(command[p].steps) = <<>> /\ command'[p] = Waiting
           \/ /\ command'[p].steps = more \o Tail(command[p].steps) /\ command'[p].rel = r
              /\ command'[p].cmd = command[p].cmd /\ command'[p].snap = command[p].snap /\ command'[p].at = command[p].at
    BY <1>9, <2>2, AdvanceIs
  <2>4. PICK y \in CommandRun : y = command'[p]
    BY <2>3
  <2> QED BY <1>1, <1>6, <1>9, <2>1, <2>3, <2>4
<1>10. ASSUME NEW y \in CommandRun, y.cmd = "test", y.snap = x.snap,
              NEW rest \in Rests, Rest(y, target, rest), y.steps = ToWrite(i, rest),
              Stands(i, y.rel, target, everStable), y.rel.held = x.rel.held
       PROVE  Writing(y, document, target, everStable)
  BY <1>5, <1>6, <1>10 DEF Writing, Changes, Follows
<1>11. ASSUME NEW y \in CommandRun, y = command'[p], y.at = x.at,
              Writing(y, document, target, everStable) \/ Leaving(y, document, target, everStable)
       PROVE  Holds(p)'
  BY <1>0, <1>2, <1>7, <1>11 DEF Holds, Fits
<1>12. WriteSigned(i) = ToWrite(i, <<>>) /\ ToWrite(i, <<>>) \in Seq(FileChange) /\ ToWrite(i, <<>>) # <<>>
  <2>1. PICK c \in Pointers : TRUE
    BY DEF Pointers
  <2> QED BY <1>0, <2>1, StepsAre, ToWriteIs
<1>13. <<>> \in Rests
  BY DEF Rests
<1>14. ASSUME NEW r \in Release, r.held = x.rel.held, Advance(p, WriteSigned(i), r),
              Stands(i, r, target, everStable)
       PROVE  Holds(p)'
  <2>1. PICK y \in CommandRun : /\ y = command'[p] /\ y.steps = ToWrite(i, <<>>) /\ y.rel = r /\ y.cmd = "test"
                         /\ y.snap = x.snap /\ y.at = x.at
    BY <1>9, <1>12, <1>14
  <2>2. Rest(y, target, <<>>)
    BY <2>1 DEF Rest
  <2>3. Writing(y, document, target, everStable)
    BY <1>10, <1>13, <1>14, <2>1, <2>2
  <2> QED BY <1>11, <2>1, <2>3
<1>15. CASE SuitePasses(p)
  <2>1. PICK r \in Release : r = [x.rel EXCEPT !.tests = "pass"]
    BY <1>3, ChangedIs DEF StoreType
  <2>2. r.rc = x.rel.rc /\ r.stable = x.rel.stable /\ r.held = x.rel.held /\ r.tests = "pass"
    BY <1>3, <2>1 DEF Release
  <2>3. PICK s \in Release : s = [r EXCEPT !.rc = Stamped(@, x.at)]
    BY <1>3, ChangedIs
  <2>4. s.rc # Never /\ s.stable = x.rel.stable /\ s.held = x.rel.held /\ s.tests = "pass"
    BY <1>3, <2>2, <2>3, ChangedIs
  <2>5. Stands(i, r, target, everStable) /\ Stands(i, s, target, everStable)
    BY <1>8, <2>2, <2>4 DEF Stands
  <2>6. \/ Advance(p, WriteSigned(i), r)
        \/ Advance(p, WriteSigned(i) \o <<>>, s)
        \/ Advance(p, WriteSigned(i) \o Point("rc", i), s)
    BY <1>1, <1>5, <1>15, <2>1, <2>3 DEF SuitePasses
  <2>7. CASE Advance(p, WriteSigned(i), r) \/ Advance(p, WriteSigned(i) \o <<>>, s)
    <3>1. WriteSigned(i) \o <<>> = WriteSigned(i)
      BY <1>12, NothingFirst
    <3> QED BY <1>14, <2>2, <2>4, <2>5, <2>7, <3>1
  <2>8. CASE Advance(p, WriteSigned(i) \o Point("rc", i), s)
    <3>1. PICK c \in Pointers : c = "rc"
      BY DEF Pointers
    <3>2. PICK a \in FileChange : a = ToDo("point", c, i) /\ a.do = "point" /\ a.channel = c /\ a.dir = i
      <4>1. ToDo("point", c, i) \in FileChange
        BY DEF ToDo, FileChange, Kinds
      <4> QED BY <4>1 DEF ToDo
    <3>3. Then(a, <<>>) \in Seq(FileChange) /\ Then(a, <<>>) \in Rests /\ Point(c, i) = Then(a, <<>>)
      BY <3>2, TwoAre DEF Rests, Point, Then
    <3>4. WriteSigned(i) \o Point(c, i) = ToWrite(i, Then(a, <<>>))
      BY <3>3, StepsAre
    <3>5. ToWrite(i, Then(a, <<>>)) \in Seq(FileChange) /\ ToWrite(i, Then(a, <<>>)) # <<>>
      BY <3>3, ToWriteIs
    <3>6. Advance(p, ToWrite(i, Then(a, <<>>)), s)
      BY <2>8, <3>1, <3>4
    <3>7. PICK y \in CommandRun : /\ y = command'[p] /\ y.steps = ToWrite(i, Then(a, <<>>)) /\ y.rel = s
                           /\ y.cmd = "test" /\ y.snap = x.snap /\ y.at = x.at
      BY <1>9, <3>5, <3>6
    <3>8. Rest(y, target, Then(a, <<>>))
      BY <1>5, <2>4, <3>1, <3>2, <3>7 DEF Rest, Ends, Reached
    <3>9. Writing(y, document, target, everStable)
      BY <1>10, <2>4, <2>5, <3>3, <3>7, <3>8
    <3> QED BY <1>11, <3>7, <3>9
  <2> QED BY <2>6, <2>7, <2>8
<1>16. CASE SuiteFails(p)
  <2>1. PICK r \in Release : r = [x.rel EXCEPT !.tests = "fail"]
    BY <1>3, ChangedIs DEF StoreType
  <2>2. r.rc = x.rel.rc /\ r.stable = x.rel.stable /\ r.held = x.rel.held /\ r.tests = "fail"
    BY <1>3, <2>1 DEF Release
  <2>3. PICK s \in Release : s = [r EXCEPT !.rc = Never]
    BY <1>3, ChangedIs
  <2>4. s.rc = Never /\ s.stable = x.rel.stable /\ s.held = x.rel.held /\ s.tests = "fail"
    BY <2>2, <2>3 DEF Release
  <2>5. CASE target["rc"] = i
    <3>1. PICK a \in FileChange : /\ a = ToDo("retreat", "rc", i)
                              /\ a.do = "retreat" /\ a.channel = "rc" /\ a.dir = i
      <4>1. ToDo("retreat", "rc", i) \in FileChange
        BY DEF ToDo, FileChange, Kinds, Pointers
      <4> QED BY <4>1 DEF ToDo
    <3>2. <<ToDo("retreat", "rc", i)>> \o WriteSigned(i) = Then(a, ToWrite(i, <<>>))
      BY <1>12, <3>1 DEF Then
    <3>3. Then(a, ToWrite(i, <<>>)) \in Seq(FileChange) /\ Then(a, ToWrite(i, <<>>)) # <<>>
      BY <1>12, ThenIs
    <3>4. Advance(p, <<ToDo("retreat", "rc", i)>> \o WriteSigned(i), s)
      BY <1>1, <1>5, <1>16, <2>1, <2>3, <2>5 DEF SuiteFails
    <3>5. PICK y \in CommandRun : /\ y = command'[p] /\ y.steps = Then(a, ToWrite(i, <<>>)) /\ y.rel = s
                           /\ y.cmd = "test" /\ y.snap = x.snap /\ y.at = x.at
      <4>1. PICK more \in Seq(FileChange) : more = Then(a, ToWrite(i, <<>>)) /\ more # <<>>
        BY <3>3
      <4>2. Advance(p, more, s)
        BY <3>2, <3>4, <4>1
      <4> QED BY <1>9, <4>1, <4>2
    <3>6. Leaves(y, document, target, a)
      BY <1>5, <2>5, <3>1, <3>5 DEF Leaves
    <3>7. i \in everStable => s.stable
      BY <1>8, <2>4 DEF Stands
    <3>8. Leaving(y, document, target, everStable)
      BY <1>5, <1>6, <2>4, <3>1, <3>5, <3>6, <3>7 DEF Leaving, Changes
    <3> QED BY <1>11, <3>5, <3>8
  <2>6. CASE target["rc"] # i
    <3>1. Advance(p, WriteSigned(i), r)
      BY <1>1, <1>5, <1>16, <2>1, <2>6 DEF SuiteFails
    <3>2. Stands(i, r, target, everStable)
      BY <1>8, <2>2 DEF Stands
    <3> QED BY <1>14, <2>2, <3>1, <3>2
  <2> QED BY <2>5, <2>6
<1> QED BY <1>15, <1>16

\* Steps that each take a channel of C, no two the same one, off snapshot i.
OnceEach(s, C, i, tgt) ==
  /\ s \in Seq(FileChange)
  /\ \A k \in 1 .. Len(s) : s[k].do = "retreat" /\ s[k].channel \in C /\ tgt[s[k].channel] = i
  /\ \A j, k \in 1 .. Len(s) : s[j].channel = s[k].channel => j = k

\* Two such lists about different channels make one.
LEMMA OnceEachJoined ==
  ASSUME NEW s, NEW t, NEW C, NEW D, NEW i, NEW tgt,
         OnceEach(s, C, i, tgt), OnceEach(t, D, i, tgt), C \cap D = {}
  PROVE  OnceEach(s \o t, C \cup D, i, tgt)
<1>1. s \in Seq(FileChange) /\ t \in Seq(FileChange) /\ s \o t \in Seq(FileChange)
  BY DEF OnceEach
<1>2. /\ Len(s) \in Nat /\ Len(t) \in Nat /\ Len(s \o t) = Len(s) + Len(t)
      /\ \A k \in 1 .. Len(s) : (s \o t)[k] = s[k]
      /\ \A k \in 1 .. Len(t) : (s \o t)[Len(s) + k] = t[k]
  BY <1>1
<1>3. ASSUME NEW k \in 1 .. Len(s \o t)
      PROVE  \/ k \in 1 .. Len(s) /\ (s \o t)[k] = s[k]
             \/ k - Len(s) \in 1 .. Len(t) /\ (s \o t)[k] = t[k - Len(s)]
  <2>1. CASE k <= Len(s)
    BY <1>2, <2>1
  <2>2. CASE k > Len(s)
    <3>1. k - Len(s) \in 1 .. Len(t) /\ Len(s) + (k - Len(s)) = k
      BY <1>2, <2>2
    <3> QED BY <1>2, <3>1
  <2> QED BY <1>2, <2>1, <2>2
<1>4. ASSUME NEW k \in 1 .. Len(s \o t)
      PROVE  /\ (s \o t)[k].do = "retreat" /\ (s \o t)[k].channel \in C \cup D
             /\ tgt[(s \o t)[k].channel] = i
  BY <1>3 DEF OnceEach
<1>5. ASSUME NEW j \in 1 .. Len(s \o t), NEW k \in 1 .. Len(s \o t),
             (s \o t)[j].channel = (s \o t)[k].channel
      PROVE  j = k
  <2>1. CASE j \in 1 .. Len(s) /\ (s \o t)[j] = s[j] /\ k \in 1 .. Len(s) /\ (s \o t)[k] = s[k]
    BY <1>5, <2>1 DEF OnceEach
  <2>2. CASE /\ j - Len(s) \in 1 .. Len(t) /\ (s \o t)[j] = t[j - Len(s)]
             /\ k - Len(s) \in 1 .. Len(t) /\ (s \o t)[k] = t[k - Len(s)]
    <3>1. j - Len(s) = k - Len(s)
      BY <1>5, <2>2 DEF OnceEach
    <3> QED BY <1>2, <3>1
  <2>3. CASE j \in 1 .. Len(s) /\ (s \o t)[j] = s[j] /\ k - Len(s) \in 1 .. Len(t) /\ (s \o t)[k] = t[k - Len(s)]
    BY <1>5, <2>3 DEF OnceEach
  <2>4. CASE k \in 1 .. Len(s) /\ (s \o t)[k] = s[k] /\ j - Len(s) \in 1 .. Len(t) /\ (s \o t)[j] = t[j - Len(s)]
    BY <1>5, <2>4 DEF OnceEach
  <2> QED BY <1>3, <2>1, <2>2, <2>3, <2>4
<1> QED BY <1>1, <1>4, <1>5 DEF OnceEach

\* A hold sees which channels name its snapshot.
LEMMA SurveyStep ==
  ASSUME StoreType, NEW p \in Operators, Holds(p), Survey(p)
  PROVE  Holds(p)'
<1> USE DirsAre
<1>0. /\ command \in [Operators -> CommandRun] /\ clock \in Times /\ <<>> \in Seq(FileChange)
      /\ Sound(content, document, target, everStable)
  BY DEF StoreType, Holds
<1>1. PICK x \in CommandRun : x = command[p]
  BY <1>0
<1>2. Fits(x, clock, content, document, target, everStable)
  BY <1>1 DEF Holds
<1>3. /\ x.steps \in Seq(FileChange) /\ x.steps # <<>> /\ Head(x.steps).do = "survey"
      /\ x.rel \in Release /\ x.snap \in Dirs /\ x.at \in Times
  BY <1>1, DueIs DEF Survey
<1>4. Ending(x, document, target)
  BY <1>2, <1>3, StageIs DEF Fits
<1>5. x.cmd = "hold" /\ Changes(x, document) /\ Tail(x.steps) = <<>>
  <2>1. PICK a \in FileChange : Changes(x, document) /\ Ends(x, target, a) /\ x.steps = Then(a, <<>>)
    BY <1>4 DEF Ending
  <2>2. Head(x.steps) = a /\ Tail(x.steps) = <<>>
    BY <2>1, TwoAre
  <2> QED BY <1>3, <2>1, <2>2 DEF Ends
<1>6. PICK i \in Dirs : i = x.snap
  BY <1>3
<1> DEFINE back(c) == IF target[c] = i THEN <<ToDo("retreat", c, i)>> ELSE <<>>
<1>7. ASSUME NEW c \in Pointers PROVE OnceEach(back(c), {c}, i, target)
  <2>1. ToDo("retreat", c, i) \in FileChange /\ ToDo("retreat", c, i).do = "retreat" /\ ToDo("retreat", c, i).channel = c
    BY DEF ToDo, FileChange, Kinds
  <2>2. PICK a \in FileChange : a = ToDo("retreat", c, i) /\ a.do = "retreat" /\ a.channel = c
    BY <2>1
  <2>3. CASE target[c] = i
    <3>1. back(c) = <<a>>
      BY <2>2, <2>3
    <3>2. OnceEach(<<a>>, {c}, i, target)
      BY <2>2, <2>3 DEF OnceEach
    <3> QED BY <3>1, <3>2
  <2>4. CASE target[c] # i
    <3>1. back(c) = <<>>
      BY <2>4
    <3>2. OnceEach(<<>>, {c}, i, target)
      BY DEF OnceEach
    <3> QED BY <3>1, <3>2
  <2> QED BY <2>3, <2>4
<1>8. Advance(p, back("edge") \o back("rc") \o back("stable"), x.rel)
  BY <1>1, <1>6 DEF Survey
<1>9. UNCHANGED <<clock, content, document, target, everStable>>
  BY DEF Survey, store
<1> HIDE DEF back
<1>10. OnceEach(back("edge"), {"edge"}, i, target)
  BY <1>7 DEF Pointers
<1>11. OnceEach(back("rc"), {"rc"}, i, target)
  BY <1>7 DEF Pointers
<1>12. OnceEach(back("stable"), {"stable"}, i, target)
  BY <1>7 DEF Pointers
<1>13. OnceEach(back("edge") \o back("rc"), {"edge"} \cup {"rc"}, i, target)
  BY <1>10, <1>11, OnceEachJoined
<1>14. OnceEach((back("edge") \o back("rc")) \o back("stable"), ({"edge"} \cup {"rc"}) \cup {"stable"}, i, target)
  BY <1>12, <1>13, OnceEachJoined
<1>15. PICK more \in Seq(FileChange) :
         Advance(p, more, x.rel) /\ OnceEach(more, ({"edge"} \cup {"rc"}) \cup {"stable"}, i, target)
  BY <1>8, <1>14 DEF OnceEach
<1>16. /\ command'[p] \in CommandRun
       /\ \/ command'[p] = Waiting
          \/ /\ command'[p].steps = more /\ more # <<>> /\ command'[p].rel = x.rel
             /\ command'[p].cmd = x.cmd /\ command'[p].snap = x.snap /\ command'[p].at = x.at
  <2>1. more \o Tail(x.steps) = more
    BY <1>5, NothingFirst
  <2>2. command[p].steps # <<>>
    BY <1>1, <1>3
  <2>3. /\ command'[p] \in CommandRun
        /\ \/ more \o Tail(command[p].steps) = <<>> /\ command'[p] = Waiting
           \/ /\ command'[p].steps = more \o Tail(command[p].steps) /\ command'[p].steps # <<>>
              /\ command'[p].rel = x.rel
              /\ command'[p].cmd = command[p].cmd /\ command'[p].snap = command[p].snap /\ command'[p].at = command[p].at
    BY <1>3, <1>15, <2>2, AdvanceIs
  <2>4. PICK y \in CommandRun : y = command'[p]
    BY <2>3
  <2> QED BY <1>1, <2>1, <2>3, <2>4
<1>17. CASE command'[p] = Waiting
  BY <1>0, <1>9, <1>17, IdleFits DEF Holds
<1>18. CASE command'[p] # Waiting
  <2>1. PICK y \in CommandRun : y = command'[p]
    BY <1>16
  <2>2. /\ y.steps = more /\ more # <<>>
        /\ y.cmd = x.cmd /\ y.snap = i /\ y.at = x.at
    BY <1>6, <1>16, <1>18, <2>1
  <2>3. /\ Len(more) \in Nat /\ 1 \in 1 .. Len(more) /\ Head(more) = more[1]
        /\ \A k \in 2 .. Len(more) : k \in 1 .. Len(more)
    BY <2>2
  <2>4. \A k \in 1 .. Len(more) : more[k].do = "retreat" /\ Leaves(y, document, target, more[k])
    BY <1>15, <2>2 DEF OnceEach, Leaves
  <2>5. Changes(y, document) /\ y.cmd = "hold"
    BY <1>5, <1>6, <2>2 DEF Changes
  <2>6. \A j, k \in 1 .. Len(more) : more[j].channel = more[k].channel => j = k
    BY <1>15 DEF OnceEach
  <2>7. Retreating(y, document, target)
    BY <2>2, <2>3, <2>4, <2>5, <2>6 DEF Retreating
  <2> QED BY <1>0, <1>2, <1>9, <2>1, <2>2, <2>7 DEF Holds, Fits
<1> QED BY <1>17, <1>18

\* A channel is taken off a snapshot: it gets an older one, if there is one.
LEMMA RetreatStep ==
  ASSUME StoreType, NEW p \in Operators, Holds(p), Retreat(p)
  PROVE  Holds(p)'
<1> USE DirsAre
<1>0. /\ command \in [Operators -> CommandRun] /\ clock \in Times /\ <<>> \in Seq(FileChange)
      /\ Sound(content, document, target, everStable)
  BY DEF StoreType, Holds
<1>1. PICK x \in CommandRun : x = command[p]
  BY <1>0
<1>2. Fits(x, clock, content, document, target, everStable)
  BY <1>1 DEF Holds
<1>3. /\ x.steps \in Seq(FileChange) /\ x.steps # <<>> /\ Head(x.steps).do = "retreat"
      /\ Head(x.steps).channel \in Pointers /\ Tail(x.steps) \in Seq(FileChange)
      /\ x.rel \in Release /\ x.snap \in Dirs /\ x.at \in Times
  BY <1>1, DueIs DEF Retreat
<1>4. PICK i \in Dirs, c \in Pointers : i = x.snap /\ c = Head(x.steps).channel
  BY <1>3
<1>5. UNCHANGED <<clock, content, document, target, everStable>>
  BY DEF Retreat, store
<1>6. CASE command'[p] = Waiting
  BY <1>0, <1>5, <1>6, IdleFits DEF Holds
<1>7. ASSUME NEW more \in Seq(FileChange), Advance(p, more, x.rel), command'[p] # Waiting
      PROVE  \E y \in CommandRun : /\ y = command'[p] /\ y.steps = more \o Tail(x.steps) /\ y.steps # <<>>
                            /\ y.rel = x.rel /\ y.cmd = x.cmd /\ y.snap = x.snap /\ y.at = x.at
  <2>1. command[p].steps # <<>>
    BY <1>1, <1>3
  <2>2. /\ command'[p] \in CommandRun
        /\ \/ more \o Tail(command[p].steps) = <<>> /\ command'[p] = Waiting
           \/ /\ command'[p].steps = more \o Tail(command[p].steps) /\ command'[p].steps # <<>>
              /\ command'[p].rel = x.rel
              /\ command'[p].cmd = command[p].cmd /\ command'[p].snap = command[p].snap /\ command'[p].at = command[p].at
    BY <1>3, <1>7, <2>1, AdvanceIs
  <2>3. PICK y \in CommandRun : y = command'[p]
    BY <2>2
  <2> QED BY <1>1, <1>7, <2>2, <2>3
<1>8. ASSUME NEW y \in CommandRun, y = command'[p], y.at = x.at,
             Leaving(y, document, target, everStable) \/ Retreating(y, document, target)
      PROVE  Holds(p)'
  BY <1>0, <1>2, <1>5, <1>8 DEF Holds, Fits
<1>9. ASSUME Fallback(c, i) # Nowhere, Fallback(c, i) # Unreadable
      PROVE  Fallback(c, i) \in Dirs /\ Refuge(x, document, c, Fallback(c, i))
  <2>1. PICK f \in Dirs : /\ f = Fallback(c, i) /\ f < i /\ document[f] # Gone /\ EligibleFor(c, f)
    BY <1>9, FallbackIs
  <2> QED BY <1>4, <2>1 DEF Refuge, Reached, EligibleFor, Pointers
<1>10. \/ Fallback(c, i) = Unreadable /\ command' = [command EXCEPT ![p] = Waiting]
       \/ /\ Fallback(c, i) # Unreadable /\ Fallback(c, i) # Nowhere
          /\ Advance(p, Point(c, Fallback(c, i)), x.rel)
       \/ x.cmd = "test" /\ Advance(p, <<ToDo("clear", c, i)>>, x.rel)
       \/ x.cmd # "test" /\ Advance(p, <<>>, x.rel)
  BY <1>1, <1>4 DEF Retreat, Finishes
<1>11. Leaving(x, document, target, everStable) \/ Retreating(x, document, target)
  BY <1>2, <1>3, StageIs DEF Fits
<1>12. CASE Leaving(x, document, target, everStable) /\ command'[p] # Waiting
  <2>1. PICK a \in FileChange :
          /\ x.cmd = "test" /\ Changes(x, document)
          /\ x.rel.rc = Never /\ x.rel.tests = "fail" /\ x.rel.held = document[x.snap].held
          /\ x.snap \in everStable => x.rel.stable
          /\ x.steps = Then(a, ToWrite(i, <<>>))
          /\ a.channel = "rc" /\ Leaves(x, document, target, a)
    BY <1>4, <1>12 DEF Leaving
  <2>2. ToWrite(i, <<>>) \in Seq(FileChange)
    BY <1>0, ToWriteIs
  <2>3. Head(x.steps) = a /\ Tail(x.steps) = ToWrite(i, <<>>) /\ c = "rc" /\ target["rc"] = x.snap
    BY <1>4, <2>1, <2>2, ThenIs DEF Leaves
  <2>4. ASSUME NEW b \in FileChange, b.channel = "rc", b.do \in {"clear", "point"},
               b.do = "point" => Refuge(x, document, "rc", b.dir), Advance(p, <<b>>, x.rel)
        PROVE  Holds(p)'
    <3>1. PICK more \in Seq(FileChange) : more = <<b>> /\ more \o Tail(x.steps) = Then(b, ToWrite(i, <<>>))
      <4>1. <<b>> \in Seq(FileChange)
        OBVIOUS
      <4>2. <<b>> \o Tail(x.steps) = Then(b, ToWrite(i, <<>>))
        BY <2>3 DEF Then
      <4> QED BY <4>1, <4>2
    <3>2. Advance(p, more, x.rel)
      BY <2>4, <3>1
    <3>3. PICK y \in CommandRun : /\ y = command'[p] /\ y.steps = Then(b, ToWrite(i, <<>>))
                           /\ y.rel = x.rel /\ y.cmd = x.cmd /\ y.snap = x.snap /\ y.at = x.at
      BY <1>7, <1>12, <3>1, <3>2
    <3>4. Leaves(y, document, target, b)
      BY <2>3, <2>4, <3>3 DEF Leaves, Refuge
    <3>5. Leaving(y, document, target, everStable)
      BY <1>4, <2>1, <2>4, <3>3, <3>4 DEF Leaving, Changes
    <3> QED BY <1>8, <3>3, <3>5
  <2>5. CASE /\ Fallback(c, i) # Unreadable /\ Fallback(c, i) # Nowhere
             /\ Advance(p, Point(c, Fallback(c, i)), x.rel)
    <3>1. PICK f \in Dirs : f = Fallback(c, i) /\ Refuge(x, document, c, f)
      BY <1>9, <2>5
    <3>2. ToDo("point", c, f) \in FileChange
      BY DEF ToDo, FileChange, Kinds
    <3>3. PICK b \in FileChange : /\ b = ToDo("point", c, f) /\ b.do = "point" /\ b.channel = c /\ b.dir = f
      BY <3>2 DEF ToDo
    <3>4. Advance(p, <<b>>, x.rel)
      BY <2>5, <3>1, <3>3 DEF Point
    <3> QED BY <2>3, <2>4, <3>1, <3>3, <3>4
  <2>6. CASE Advance(p, <<ToDo("clear", c, i)>>, x.rel)
    <3>1. ToDo("clear", c, i) \in FileChange
      BY DEF ToDo, FileChange, Kinds
    <3>2. PICK b \in FileChange : b = ToDo("clear", c, i) /\ b.do = "clear" /\ b.channel = c
      BY <3>1 DEF ToDo
    <3>3. Advance(p, <<b>>, x.rel)
      BY <2>6, <3>2
    <3> QED BY <2>3, <2>4, <3>2, <3>3
  <2> QED BY <1>0, <1>10, <1>12, <2>1, <2>5, <2>6
<1>13. CASE Retreating(x, document, target) /\ command'[p] # Waiting
  <2>1. x.cmd = "hold" /\ Changes(x, document)
    BY <1>13 DEF Retreating
  <2>2. CASE /\ Fallback(c, i) # Unreadable /\ Fallback(c, i) # Nowhere
             /\ Advance(p, Point(c, Fallback(c, i)), x.rel)
    <3>1. PICK f \in Dirs : f = Fallback(c, i) /\ Refuge(x, document, c, f)
      BY <1>9, <2>2
    <3>2. ToDo("point", c, f) \in FileChange
      BY DEF ToDo, FileChange, Kinds
    <3>3. PICK b \in FileChange : /\ b = ToDo("point", c, f) /\ b.do = "point" /\ b.channel = c /\ b.dir = f
      BY <3>2 DEF ToDo
    <3>4. PICK more \in Seq(FileChange) : more = <<b>> /\ Advance(p, more, x.rel)
      <4>1. <<b>> \in Seq(FileChange)
        OBVIOUS
      <4>2. Advance(p, <<b>>, x.rel)
        BY <2>2, <3>1, <3>3 DEF Point
      <4> QED BY <4>1, <4>2
    <3>5. PICK y \in CommandRun : /\ y = command'[p] /\ y.steps = more \o Tail(x.steps)
                           /\ y.rel = x.rel /\ y.cmd = x.cmd /\ y.snap = x.snap /\ y.at = x.at
      BY <1>7, <1>13, <3>4
    <3>6. /\ Len(y.steps) = Len(x.steps) /\ y.steps # <<>> /\ Head(y.steps) = b /\ y.steps[1] = b
          /\ \A k \in 2 .. Len(x.steps) : y.steps[k] = x.steps[k]
          /\ 1 \in 1 .. Len(x.steps) /\ Head(x.steps) = x.steps[1]
          /\ \A k \in 1 .. Len(x.steps) : k = 1 \/ k \in 2 .. Len(x.steps)
          /\ \A k \in 2 .. Len(x.steps) : k \in 1 .. Len(x.steps)
      BY <1>3, <3>4, <3>5
    <3>7. target[c] = x.snap
      BY <1>4, <1>13, <3>6 DEF Retreating, Leaves
    <3>8. \A k \in 1 .. Len(x.steps) : y.steps[k].channel = x.steps[k].channel
      BY <1>4, <3>3, <3>6
    <3>9. Leaves(y, document, target, b)
      BY <3>1, <3>3, <3>5, <3>7 DEF Leaves, Refuge
    <3>10. \A k \in 2 .. Len(x.steps) :
             x.steps[k].do = "retreat" /\ Leaves(y, document, target, x.steps[k])
      BY <1>13, <3>5, <3>6 DEF Retreating, Leaves
    <3>11. \A j, k \in 1 .. Len(x.steps) : y.steps[j].channel = y.steps[k].channel => j = k
      BY <1>13, <3>8 DEF Retreating
    <3>12. /\ \A k \in 1 .. Len(y.steps) : Leaves(y, document, target, y.steps[k])
           /\ \A k \in 2 .. Len(y.steps) : y.steps[k].do = "retreat"
      BY <3>6, <3>9, <3>10
    <3>13. Changes(y, document) /\ y.cmd = "hold"
      BY <2>1, <3>5 DEF Changes
    <3>14. Retreating(y, document, target)
      BY <3>3, <3>6, <3>11, <3>12, <3>13 DEF Retreating
    <3> QED BY <1>8, <3>5, <3>14
  <2>3. CASE Advance(p, <<>>, x.rel)
    <3>1. PICK more \in Seq(FileChange) : more = <<>> /\ Advance(p, more, x.rel) /\ more \o Tail(x.steps) = Tail(x.steps)
      BY <1>0, <1>3, <2>3, NothingFirst
    <3>2. PICK y \in CommandRun : /\ y = command'[p] /\ y.steps = Tail(x.steps) /\ y.steps # <<>>
                           /\ y.cmd = x.cmd /\ y.snap = x.snap /\ y.at = x.at
      BY <1>7, <1>13, <3>1
    <3>3. PICK to \in [Pointers -> Dirs \cup {Nowhere}] : to = target
      BY DEF StoreType
    <3>4. Retreating(y, document, to)
      BY <1>13, <3>2, <3>3, RetreatGoesOn
    <3> QED BY <1>8, <3>2, <3>3, <3>4
  <2> QED BY <1>0, <1>10, <1>13, <2>1, <2>2, <2>3
<1> QED BY <1>6, <1>11, <1>12, <1>13

\* A command starts: what it read is so.
LEMMA StartStep ==
  ASSUME StoreType, NEW p \in Operators, Holds(p),
         TestBegin(p) \/ Promote(p) \/ PromoteSoaked(p) \/ Hold(p) \/ Unhold(p)
  PROVE  Holds(p)'
<1> USE DirsAre
<1>0. /\ document \in [Dirs -> Release \cup {Gone}] /\ everStable \in SUBSET Dirs
      /\ target \in [Pointers -> Dirs \cup {Nowhere}]
      /\ Sound(content, document, target, everStable)
      /\ command \in [Operators -> CommandRun] /\ clock \in Times /\ <<>> \in Seq(FileChange)
  BY DEF StoreType, Holds
<1>1. UNCHANGED <<clock, content, document, target, everStable>>
  BY DEF TestBegin, Promote, PromoteSoaked, Hold, Unhold, Start
<1>2. ASSUME NEW name \in {"test", "promote", "auto", "hold", "unhold"}, NEW i \in SnapshotIds,
             NEW r \in Release, NEW steps \in Seq(FileChange), Start(p, name, i, r, steps)
      PROVE  \E y \in CommandRun : /\ y = command'[p] /\ y.cmd = name /\ y.snap = i /\ y.rel = r
                            /\ y.steps = steps /\ y.at <= clock
  <2>1. name \in Commands /\ i \in Dirs
    BY DEF Commands
  <2>2. /\ command'[p] \in CommandRun /\ command'[p].cmd = name /\ command'[p].snap = i /\ command'[p].at = clock
        /\ command'[p].rel = r /\ command'[p].steps = steps
    BY <1>2, <2>1, StartIs
  <2>3. clock <= clock
    BY <1>0, StoreBoundsAreNat DEF Times
  <2> QED BY <2>2, <2>3
<1>3. ASSUME NEW name \in {"test", "promote", "auto", "hold", "unhold"}, NEW i \in SnapshotIds,
             NEW r \in Release, NEW rest \in Rests, Start(p, name, i, r, ToWrite(i, rest)),
             document[i] # Gone, Stands(i, r, target, everStable),
             name \notin {"hold", "unhold"} => r.held = document[i].held,
             \A y \in CommandRun : y.cmd = name /\ y.snap = i /\ y.rel = r => Rest(y, target, rest)
      PROVE  Holds(p)'
  <2>1. ToWrite(i, rest) \in Seq(FileChange)
    BY RestIs, ToWriteIs
  <2>2. PICK y \in CommandRun : /\ y = command'[p] /\ y.cmd = name /\ y.snap = i /\ y.rel = r
                         /\ y.steps = ToWrite(i, rest) /\ y.at <= clock
    BY <1>2, <1>3, <2>1
  <2>3. Changes(y, document) /\ Rest(y, target, rest) /\ Follows(y, y.rel, document[i])
    BY <1>3, <2>2 DEF Changes, Follows
  <2>4. Writing(y, document, target, everStable)
    BY <1>3, <2>2, <2>3 DEF Writing
  <2> QED BY <1>0, <1>1, <2>2, <2>4 DEF Holds, Fits
<1>4. ASSUME NEW i \in SnapshotIds, Readable(i)
      PROVE  /\ document[i] \in Release /\ document[i] # Gone
             /\ Stands(i, document[i], target, everStable)
  BY <1>0, <1>4, ReadableIs, StandingIsSound
<1>5. ASSUME NEW i \in SnapshotIds, NEW c \in {"rc", "stable"}, Readable(i)
      PROVE  /\ PromotedTo(c, document[i], clock) \in Release
             /\ Stands(i, PromotedTo(c, document[i], clock), target, everStable)
             /\ Reached(c, PromotedTo(c, document[i], clock))
             /\ PromotedTo(c, document[i], clock).held = document[i].held
  BY <1>0, <1>4, <1>5, PromotedIs DEF Stands
<1>6. ASSUME NEW kind \in Kinds, NEW i \in SnapshotIds, NEW c \in Pointers
      PROVE  \E a \in FileChange : /\ a = ToDo(kind, c, i) /\ a.do = kind /\ a.channel = c /\ a.dir = i
                               /\ Then(a, <<>>) \in Rests
                               /\ WriteSigned(i) \o <<ToDo(kind, c, i)>> = ToWrite(i, Then(a, <<>>))
  <2>1. ToDo(kind, c, i) \in FileChange
    BY DEF ToDo, FileChange, Kinds
  <2>2. PICK a \in FileChange : a = ToDo(kind, c, i) /\ a.do = kind /\ a.channel = c /\ a.dir = i
    BY <2>1 DEF ToDo
  <2>3. <<ToDo(kind, c, i)>> = Then(a, <<>>) /\ Then(a, <<>>) \in Rests
    BY <2>2 DEF Then, Rests
  <2>4. Then(a, <<>>) \in Seq(FileChange)
    BY <2>3, RestIs
  <2>5. WriteSigned(i) \o Then(a, <<>>) = ToWrite(i, Then(a, <<>>))
    BY <2>4, StepsAre
  <2> QED BY <2>2, <2>3, <2>5
<1>7. CASE TestBegin(p)
  <2>1. PICK name \in {"test", "promote", "auto", "hold", "unhold"} : name = "test"
    OBVIOUS
  <2>2. PICK i \in SnapshotIds :
          Readable(i) /\ Start(p, name, i, document[i], <<ToDo("suite", "rc", i)>>)
    BY <1>7, <2>1 DEF TestBegin
  <2>3. ToDo("suite", "rc", i) \in FileChange
    BY DEF ToDo, FileChange, Kinds, Pointers
  <2>4. PICK a \in FileChange : a = ToDo("suite", "rc", i) /\ a.do = "suite"
    BY <2>3 DEF ToDo
  <2>5. <<ToDo("suite", "rc", i)>> = Then(a, <<>>) /\ Then(a, <<>>) \in Seq(FileChange)
    BY <2>4, TwoAre DEF Then
  <2>6. PICK r \in Release : r = document[i]
    BY <1>4, <2>2
  <2>7. PICK y \in CommandRun : /\ y = command'[p] /\ y.cmd = name /\ y.snap = i /\ y.rel = r
                         /\ y.steps = Then(a, <<>>) /\ y.at <= clock
    BY <1>2, <2>2, <2>5, <2>6
  <2>8. Testing(y, document)
    BY <1>4, <2>1, <2>2, <2>4, <2>6, <2>7 DEF Testing, Changes
  <2> QED BY <1>0, <1>1, <2>7, <2>8 DEF Holds, Fits
<1>8. CASE Promote(p)
  <2>1. PICK name \in {"test", "promote", "auto", "hold", "unhold"} : name = "promote"
    OBVIOUS
  <2>2. PICK i \in SnapshotIds, c \in {"rc", "stable"} :
          Readable(i) /\ Start(p, name, i, PromotedTo(c, document[i], clock), WriteSigned(i) \o Point(c, i))
    BY <1>8, <2>1 DEF Promote
  <2>3. PICK r \in Release :
          /\ r = PromotedTo(c, document[i], clock)
          /\ Stands(i, r, target, everStable) /\ Reached(c, r) /\ r.held = document[i].held
    BY <1>5, <2>2
  <2>4. PICK a \in FileChange : /\ a.do = "point" /\ a.channel = c /\ a.dir = i
                            /\ Then(a, <<>>) \in Rests
                            /\ WriteSigned(i) \o Point(c, i) = ToWrite(i, Then(a, <<>>))
    <3>1. PICK kind \in Kinds, e \in Pointers : kind = "point" /\ e = c
      BY DEF Pointers, Kinds
    <3>2. PICK a \in FileChange : /\ a = ToDo(kind, e, i) /\ a.do = kind /\ a.channel = e /\ a.dir = i
                              /\ Then(a, <<>>) \in Rests
                              /\ WriteSigned(i) \o <<ToDo(kind, e, i)>> = ToWrite(i, Then(a, <<>>))
      BY <1>6
    <3>3. <<ToDo(kind, e, i)>> = Point(c, i)
      BY <3>1 DEF Point
    <3> QED BY <3>1, <3>2, <3>3
  <2>5. \A y \in CommandRun : y.cmd = name /\ y.snap = i /\ y.rel = r => Rest(y, target, Then(a, <<>>))
    BY <2>1, <2>3, <2>4 DEF Rest, Ends
  <2>6. Start(p, name, i, r, ToWrite(i, Then(a, <<>>)))
    BY <2>2, <2>3, <2>4
  <2>7. document[i] # Gone
    BY <1>4, <2>2
  <2> QED BY <1>3, <2>3, <2>4, <2>5, <2>6, <2>7
<1>9. CASE PromoteSoaked(p)
  <2>1. PICK name \in {"test", "promote", "auto", "hold", "unhold"} : name = "auto"
    OBVIOUS
  <2>2. PICK c \in {"rc", "stable"} : c = "stable"
    OBVIOUS
  <2>3. PICK i \in Dirs :
          /\ i = target["rc"] /\ i # Nowhere
          /\ target["stable"] # Nowhere => target["stable"] < i
          /\ Readable(i)
          /\ Start(p, name, i, PromotedTo(c, document[i], clock), WriteSigned(i) \o Point(c, i))
    BY <1>0, <1>9, <2>1, <2>2 DEF PromoteSoaked, Soaked, Pointers
  <2>4. i \in SnapshotIds
    <3>1. i # Partial
      BY <1>0, <2>3 DEF Sound, Readable
    <3> QED BY <3>1, StoreBoundsAreNat DEF Dirs
  <2>5. PICK r \in Release :
          /\ r = PromotedTo(c, document[i], clock)
          /\ Stands(i, r, target, everStable) /\ Reached(c, r) /\ r.held = document[i].held
    BY <1>5, <2>3, <2>4
  <2>6. PICK a \in FileChange : /\ a.do = "point" /\ a.channel = c /\ a.dir = i
                            /\ Then(a, <<>>) \in Rests
                            /\ WriteSigned(i) \o Point(c, i) = ToWrite(i, Then(a, <<>>))
    <3>1. PICK kind \in Kinds, e \in Pointers : kind = "point" /\ e = c
      BY DEF Pointers, Kinds
    <3>2. PICK a \in FileChange : /\ a = ToDo(kind, e, i) /\ a.do = kind /\ a.channel = e /\ a.dir = i
                              /\ Then(a, <<>>) \in Rests
                              /\ WriteSigned(i) \o <<ToDo(kind, e, i)>> = ToWrite(i, Then(a, <<>>))
      BY <1>6, <2>4
    <3>3. <<ToDo(kind, e, i)>> = Point(c, i)
      BY <3>1 DEF Point
    <3> QED BY <3>1, <3>2, <3>3
  <2>7. \A y \in CommandRun : y.cmd = name /\ y.snap = i /\ y.rel = r => Rest(y, target, Then(a, <<>>))
    BY <2>1, <2>3, <2>5, <2>6 DEF Rest, Ends
  <2>8. Start(p, name, i, r, ToWrite(i, Then(a, <<>>)))
    BY <2>3, <2>5, <2>6
  <2>9. document[i] # Gone
    BY <1>4, <2>3, <2>4
  <2> QED BY <1>3, <2>4, <2>5, <2>6, <2>7, <2>8, <2>9
<1>10. CASE Hold(p)
  <2>1. PICK name \in {"test", "promote", "auto", "hold", "unhold"} : name = "hold"
    OBVIOUS
  <2>2. PICK i \in SnapshotIds :
          /\ Readable(i)
          /\ Start(p, name, i, [document[i] EXCEPT !.held = TRUE],
                   WriteSigned(i) \o <<ToDo("survey", "edge", i)>>)
    BY <1>10, <2>1 DEF Hold
  <2>3. PICK s \in Release : s = document[i] /\ s # Gone /\ Stands(i, s, target, everStable)
    BY <1>4, <2>2
  <2>4. PICK r \in Release : r = [s EXCEPT !.held = TRUE]
    BY <1>0, ChangedIs
  <2>5. Stands(i, r, target, everStable)
    BY <2>3, <2>4 DEF Stands, Release
  <2>6. PICK a \in FileChange : /\ a.do = "survey" /\ Then(a, <<>>) \in Rests
                            /\ WriteSigned(i) \o <<ToDo("survey", "edge", i)>> = ToWrite(i, Then(a, <<>>))
    <3>1. PICK kind \in Kinds, e \in Pointers : kind = "survey" /\ e = "edge"
      BY DEF Pointers, Kinds
    <3>2. PICK a \in FileChange : /\ a = ToDo(kind, e, i) /\ a.do = kind /\ a.channel = e /\ a.dir = i
                              /\ Then(a, <<>>) \in Rests
                              /\ WriteSigned(i) \o <<ToDo(kind, e, i)>> = ToWrite(i, Then(a, <<>>))
      BY <1>6
    <3> QED BY <3>1, <3>2
  <2>7. \A y \in CommandRun : y.cmd = name /\ y.snap = i /\ y.rel = r => Rest(y, target, Then(a, <<>>))
    BY <2>1, <2>6 DEF Rest, Ends
  <2>8. Start(p, name, i, r, ToWrite(i, Then(a, <<>>)))
    BY <2>2, <2>3, <2>4, <2>6
  <2> QED BY <1>3, <2>1, <2>3, <2>5, <2>6, <2>7, <2>8
<1>11. CASE Unhold(p)
  <2>1. PICK name \in {"test", "promote", "auto", "hold", "unhold"} : name = "unhold"
    OBVIOUS
  <2>2. PICK i \in SnapshotIds :
          Readable(i) /\ Start(p, name, i, [document[i] EXCEPT !.held = FALSE], WriteSigned(i))
    BY <1>11, <2>1 DEF Unhold
  <2>3. PICK s \in Release : s = document[i] /\ s # Gone /\ Stands(i, s, target, everStable)
    BY <1>4, <2>2
  <2>4. PICK r \in Release : r = [s EXCEPT !.held = FALSE]
    BY <1>0, ChangedIs
  <2>5. Stands(i, r, target, everStable)
    BY <2>3, <2>4 DEF Stands, Release
  <2>6. PICK c \in Pointers : TRUE
    BY DEF Pointers
  <2>7. WriteSigned(i) = ToWrite(i, <<>>) /\ <<>> \in Rests
    BY <1>0, <2>6, StepsAre DEF Rests
  <2>8. \A y \in CommandRun : y.cmd = name /\ y.snap = i /\ y.rel = r => Rest(y, target, <<>>)
    BY <2>1 DEF Rest
  <2>9. Start(p, name, i, r, ToWrite(i, <<>>))
    BY <2>2, <2>3, <2>4, <2>7
  <2> QED BY <1>3, <2>1, <2>3, <2>5, <2>7, <2>8, <2>9
<1> QED BY <1>7, <1>8, <1>9, <1>10, <1>11

\* A snapshot is assembled beside the others.
LEMMA CutBegins ==
  ASSUME StoreType, NEW p \in Operators, Holds(p), CutBegin(p)
  PROVE  Holds(p)'
<1> USE DirsAre
<1>0. /\ document \in [Dirs -> Release \cup {Gone}] /\ everStable \in SUBSET Dirs
      /\ target \in [Pointers -> Dirs \cup {Nowhere}]
      /\ content \in [Dirs -> {"none", "whole", "part"}]
      /\ Sound(content, document, target, everStable)
      /\ clock \in Times /\ <<>> \in Seq(FileChange)
  BY DEF StoreType, Holds
<1>1. PICK name \in Commands : name = "cut"
  BY DEF Commands
<1>2. PICK i \in SnapshotIds :
        Start(p, name, i, NewRelease(clock),
              WriteSigned(Partial) \o <<ToDo("commit", "edge", i)>> \o Point("edge", i))
  BY <1>1 DEF CutBegin
<1>3. ToDo("commit", "edge", i) \in FileChange /\ ToDo("point", "edge", i) \in FileChange
  BY DEF ToDo, FileChange, Kinds, Pointers
<1>4. PICK a \in FileChange, b \in FileChange :
        /\ a = ToDo("commit", "edge", i) /\ b = ToDo("point", "edge", i)
        /\ a.do = "commit" /\ b.do = "point" /\ b.channel = "edge" /\ b.dir = i
  BY <1>3 DEF ToDo
<1>5. WriteSigned(Partial) \o <<ToDo("commit", "edge", i)>> \o Point("edge", i)
      = ToWrite(Partial, Then(a, Then(b, <<>>)))
  BY <1>4, PairIs DEF WriteSigned, Point, ToWrite, ToSign, Then, Document, Signature
<1>6. PICK steps \in Seq(FileChange) : steps = ToWrite(Partial, Then(a, Then(b, <<>>)))
  <2>1. Then(a, Then(b, <<>>)) \in Seq(FileChange)
    BY TwoAre
  <2> QED BY <2>1, ToWriteIs
<1>7. PICK r \in Release : r = NewRelease(clock) /\ r.rc = Never /\ ~r.stable
  <2>1. NewRelease(clock) \in Release
    BY <1>0 DEF NewRelease, Release
  <2> QED BY <2>1 DEF NewRelease
<1>8. Start(p, name, i, r, steps)
  BY <1>2, <1>5, <1>6, <1>7
<1>9. PICK y \in CommandRun : /\ y = command'[p] /\ y.cmd = name /\ y.snap = i /\ y.at = clock
                       /\ y.rel = r /\ y.steps = steps
  BY <1>8, StartIs
<1>10. /\ content[Partial] = "none" /\ content' = [content EXCEPT ![Partial] = "whole"]
       /\ UNCHANGED <<clock, document, target, everStable>>
  BY <1>8 DEF CutBegin, Start
<1>11. \A c \in Pointers : target[c] # Partial
  BY <1>0, <1>10, NothingIsNot DEF Sound
<1>12. Sound(content', document', target', everStable')
  BY <1>0, <1>10 DEF Sound
<1>13. Making(y, content', target, a, b)
  BY <1>0, <1>1, <1>4, <1>7, <1>9, <1>10, <1>11 DEF Making
<1>14. Assembling(y, content', target)
  BY <1>6, <1>9, <1>13 DEF Assembling
<1>15. clock <= clock
  BY <1>0, StoreBoundsAreNat DEF Times
<1> QED BY <1>9, <1>10, <1>12, <1>14, <1>15 DEF Holds, Fits

\* A prune spares what the channels name, and removes the rest or stops.
LEMMA PruneStep ==
  ASSUME StoreType, NEW p \in Operators, Holds(p),
         Prune(p) \/ PruneKeeps(p) \/ PruneRemoves(p) \/ PruneIsInterrupted(p) \/ PruneEnds(p)
  PROVE  Holds(p)'
<1> USE DirsAre
<1>0. /\ document \in [Dirs -> Release \cup {Gone}] /\ everStable \in SUBSET Dirs
      /\ target \in [Pointers -> Dirs \cup {Nowhere}]
      /\ content \in [Dirs -> {"none", "whole", "part"}]
      /\ Sound(content, document, target, everStable)
      /\ command \in [Operators -> CommandRun] /\ clock \in Times
  BY DEF StoreType, Holds
<1>1. PICK x \in CommandRun : x = command[p]
  BY <1>0
<1>2. Fits(x, clock, content, document, target, everStable)
  BY <1>1 DEF Holds
<1>3. x.todo \subseteq Dirs
  BY DEF CommandRun
<1>4. CASE Prune(p)
  <2>1. ToDo("prune", "edge", Partial) \in FileChange
    BY DEF ToDo, FileChange, Kinds, Pointers
  <2>2. PICK a \in FileChange : a = ToDo("prune", "edge", Partial) /\ a.do = "prune"
    BY <2>1 DEF ToDo
  <2>3. PICK z \in CommandRun : z = Waiting
    BY IdleIsARun
  <2>4. PICK spared \in SUBSET Dirs : /\ spared = {target[c] : c \in Pointers} \ {Nowhere}
                                      /\ PruneBegin(p, spared)
    BY <1>0, <1>4 DEF Prune
  <2>5. /\ command' = [command EXCEPT ![p] = [z EXCEPT !.cmd = "prune", !.at = clock, !.steps = <<a>>,
                                               !.todo = InStore, !.spared = spared]]
        /\ UNCHANGED <<clock, content, document, target, everStable>>
    BY <2>2, <2>3, <2>4 DEF PruneBegin, store
  <2>6. command'[p] = [z EXCEPT !.cmd = "prune", !.at = clock, !.steps = <<a>>,
                            !.todo = InStore, !.spared = spared]
    BY <1>0, <2>5
  <2>7. /\ command'[p].cmd = "prune" /\ command'[p].at = clock /\ command'[p].steps = <<a>>
        /\ command'[p].spared = spared
    BY <2>6 DEF CommandRun
  <2>8. <<a>> = Then(a, <<>>)
    BY DEF Then
  <2>9. \A c \in Pointers : target[c] # Nowhere => target[c] \in spared
    BY <2>4
  <2>10. Pruning(command'[p], target)
    BY <2>2, <2>7, <2>8, <2>9 DEF Pruning
  <2>11. clock <= clock
    BY <1>0, StoreBoundsAreNat DEF Times
  <2> QED BY <1>0, <2>5, <2>7, <2>10, <2>11 DEF Holds, Fits
<1>5. CASE PruneEnds(p)
  <2>1. command'[p] = Waiting /\ UNCHANGED <<clock, content, document, target, everStable>>
    BY <1>0, <1>5 DEF PruneEnds, Finishes, store
  <2> QED BY <1>0, <2>1, IdleFits DEF Holds
<1>6. ASSUME PruneKeeps(p) \/ PruneRemoves(p) \/ PruneIsInterrupted(p)
      PROVE  Pruning(x, target)
  <2>1. x.steps # <<>> /\ Head(x.steps).do = "prune"
    BY <1>1, <1>6 DEF PruneKeeps, PruneRemoves, PruneIsInterrupted, Due
  <2> QED BY <1>2, <2>1, StageIs DEF Fits
<1>7. ASSUME NEW d, Pruning(x, target), command' = [command EXCEPT ![p].todo = @ \ {d}], clock' = clock, target' = target
      PROVE  Fits(command'[p], clock', content', document', target', everStable')
  <2>1. command'[p] = [x EXCEPT !.todo = @ \ {d}]
    BY <1>0, <1>1, <1>7
  <2>2. /\ command'[p].cmd = x.cmd /\ command'[p].at = x.at /\ command'[p].steps = x.steps
        /\ command'[p].spared = x.spared
    BY <2>1 DEF CommandRun
  <2>3. Pruning(command'[p], target')
    BY <1>7, <2>2 DEF Pruning
  <2> QED BY <1>2, <1>7, <2>2, <2>3 DEF Fits
<1>8. CASE PruneKeeps(p)
  <2>1. /\ UNCHANGED <<clock, content, document, target, everStable>>
        /\ \E d : command' = [command EXCEPT ![p].todo = @ \ {d}]
    BY <1>8 DEF PruneKeeps, store
  <2> QED BY <1>0, <1>6, <1>7, <1>8, <2>1 DEF Holds
<1>9. CASE PruneRemoves(p)
  <2>1. PICK d \in Dirs :
          /\ d \notin x.spared
          /\ command' = [command EXCEPT ![p].todo = @ \ {d}]
          /\ content' = [content EXCEPT ![d] = "none"]
          /\ document' = [document EXCEPT ![d] = Gone]
          /\ everStable' = everStable \ {d}
          /\ UNCHANGED <<clock, target>>
    BY <1>1, <1>3, <1>9 DEF PruneRemoves, Doomed
  <2>2. \A c \in Pointers : target[c] # d
    BY <1>6, <1>9, <2>1, NothingIsNot DEF Pruning
  <2>3. Sound(content', document', target', everStable')
    BY <1>0, <2>1, <2>2 DEF Sound, Pointers
  <2> QED BY <1>6, <1>7, <1>9, <2>1, <2>3 DEF Holds
<1>10. CASE PruneIsInterrupted(p)
  <2>1. PICK d \in Dirs :
          /\ d \notin x.spared
          /\ content' = [content EXCEPT ![d] = "part"]
          /\ \E r \in {document[d], Gone} : document' = [document EXCEPT ![d] = r]
          /\ UNCHANGED <<clock, target, everStable>>
    BY <1>1, <1>3, <1>10 DEF PruneIsInterrupted, Doomed
  <2>2. \A c \in Pointers : target[c] # d
    BY <1>6, <1>10, <2>1, NothingIsNot DEF Pruning
  <2>3. Sound(content', document', target', everStable')
    BY <1>0, <2>1, <2>2 DEF Sound, Pointers
  <2>4. command'[p] = Waiting
    BY <1>0, <1>10 DEF PruneIsInterrupted, Dies, Finishes
  <2> QED BY <1>0, <2>1, <2>3, <2>4, IdleFits DEF Holds
<1> QED BY <1>4, <1>5, <1>8, <1>9, <1>10

\* A kill leaves the store as it is.
LEMMA StopStep ==
  ASSUME StoreType, NEW p \in Operators, Holds(p), Killed(p)
  PROVE  Holds(p)'
<1>1. command'[p] = Waiting /\ UNCHANGED <<clock, content, document, target, everStable>> /\ clock \in Times
  BY DEF Killed, Dies, Finishes, store, StoreType
<1> QED BY <1>1, IdleFits DEF Holds

\* Time passes.
LEMMA TickStep ==
  ASSUME StoreType, NEW p \in Operators, Holds(p), ClockTicks
  PROVE  Holds(p)'
<1>1. PICK x \in CommandRun : x = command[p]
  BY DEF StoreType
<1>2. UNCHANGED <<content, document, target, command, everStable>> /\ clock' = clock + 1 /\ clock \in Nat
  BY StoreBoundsAreNat DEF ClockTicks, store, StoreType, Times
<1>3. x.at \in Nat
  BY StoreBoundsAreNat DEF CommandRun, Times
<1>4. x.at <= clock => x.at <= clock'
  BY <1>2, <1>3
<1> QED BY <1>1, <1>2, <1>4 DEF Holds, Fits
-----------------------------------------------------------------------------
\* With one command at a time, each step keeps the store sound and the command
\* at one of its stages.
LEMMA StepHolds ==
  ASSUME OneCommand, StoreInv, [StoreNext]_storeVars
  PROVE  StoreInv'
<1>0. StoreType /\ StoreType'
  BY StepTypes DEF StoreInv
<1>1. ASSUME NEW p \in Operators, StoreStep(p) PROVE Holds(p)'
  <2>1. Holds(p)
    BY DEF StoreInv
  <2>2. CASE CutBegin(p)
    BY <1>0, <2>1, <2>2, CutBegins
  <2>3. CASE TestBegin(p) \/ Promote(p) \/ PromoteSoaked(p) \/ Hold(p) \/ Unhold(p)
    BY <1>0, <2>1, <2>3, StartStep
  <2>4. CASE SuitePasses(p) \/ SuiteFails(p)
    BY <1>0, <2>1, <2>4, SuiteStep
  <2>5. CASE Survey(p)
    BY <1>0, <2>1, <2>5, SurveyStep
  <2>6. CASE Retreat(p)
    BY <1>0, <2>1, <2>6, RetreatStep
  <2>7. CASE WriteDocument(p)
    BY <1>0, <2>1, <2>7, DocumentStep
  <2>8. CASE WriteSignature(p) \/ SignatureFails(p)
    BY <1>0, <2>1, <2>8, SignatureStep
  <2>9. CASE Commit(p) \/ CutFails(p)
    BY <1>0, <2>1, <2>9, CutStep
  <2>10. CASE PointChannel(p) \/ ClearChannel(p)
    BY <1>0, <2>1, <2>10, PointStep
  <2>11. CASE Prune(p) \/ PruneKeeps(p) \/ PruneRemoves(p) \/ PruneIsInterrupted(p) \/ PruneEnds(p)
    BY <1>0, <2>1, <2>11, PruneStep
  <2>12. CASE Killed(p)
    BY <1>0, <2>1, <2>12, StopStep
  <2> QED BY <1>1, <2>2, <2>3, <2>4, <2>5, <2>6, <2>7, <2>8, <2>9, <2>10, <2>11, <2>12 DEF StoreStep
<1>2. ASSUME NEW p \in Operators, ClockTicks PROVE Holds(p)'
  BY <1>0, <1>2, TickStep DEF StoreInv
<1>3. ASSUME NEW p \in Operators, UNCHANGED storeVars PROVE Holds(p)'
  BY <1>3 DEF StoreInv, Holds, storeVars, store
<1>4. \A p \in Operators : Holds(p)'
  <2>1. SUFFICES ASSUME NEW p \in Operators PROVE Holds(p)'
    OBVIOUS
  <2>2. ASSUME NEW q \in Operators, StoreStep(q) PROVE Holds(p)'
    <3>1. p = q
      BY DEF OneCommand
    <3> QED BY <1>1, <2>2, <3>1
  <2> QED BY <1>2, <1>3, <2>2 DEF StoreNext
<1>5. Sound(content', document', target', everStable')
  <2>1. CASE Operators = {}
    BY <2>1 DEF StoreInv, StoreNext, ClockTicks, storeVars, store
  <2>2. CASE Operators # {}
    BY <1>4, <2>2 DEF Holds
  <2> QED BY <2>1, <2>2
<1> QED BY <1>0, <1>4, <1>5 DEF StoreInv

\* The store starts sound and without a command.
LEMMA InitHolds == StoreInit => StoreInv
<1> SUFFICES ASSUME StoreInit PROVE StoreInv
  OBVIOUS
<1>1. StoreType
  BY InitTypes
<1>2. Sound(content, document, target, everStable)
  BY DirsAre DEF StoreInit, Sound, Pointers
<1>3. \A p \in Operators : command[p] = Waiting
  BY DEF StoreInit
<1> QED BY <1>1, <1>2, <1>3, IdleFits DEF StoreInv, Holds, StoreType

\* The store keeps its types, whatever the number of processes that change it.
THEOREM StoreTyping == StoreSpec => []StoreType
BY InitTypes, StepTypes, PTL DEF StoreSpec

\* The invariant from which the rest follows.
LEMMA StoreIsSound == ASSUME OneCommand PROVE StoreSpec => []StoreInv
<1>1. StoreInv /\ [StoreNext]_storeVars => StoreInv'
  BY StepHolds
<1> QED BY <1>1, InitHolds, PTL DEF StoreSpec

\* What a channel names is a directory with a manifest, whatever step a command
\* was killed at and whatever a prune removed.
THEOREM TargetsStay == ASSUME OneCommand PROVE StoreSpec => []TargetsAreKept
<1>1. StoreInv => TargetsAreKept
  BY DEF StoreInv, Sound, TargetsAreKept
<1> QED BY <1>1, StoreIsSound, PTL

\* What rc or stable names has a manifest that records that it got there,
\* whatever step a command was killed at.
THEOREM ManifestsComeFirst == ASSUME OneCommand PROVE StoreSpec => []ManifestSaysFirst
<1>1. StoreInv => ManifestSaysFirst
  BY DEF StoreInv, Sound, ManifestSaysFirst, Pointers
<1> QED BY <1>1, StoreIsSound, PTL
-----------------------------------------------------------------------------
\* A channel that moves by itself moves one way.
LEMMA MovesStep ==
  ASSUME StoreType, NEW p \in Operators, Holds(p), PointChannel(p),
         NEW c \in {"rc", "stable"}, target'[c] # target[c]
  PROVE  /\ command[p].cmd = "hold" \/ (command[p].cmd = "test" /\ command[p].rel.tests = "fail")
            => /\ target[c] # Nowhere /\ target'[c] < target[c]
               /\ document[target'[c]].tests = "pass" /\ ~document[target'[c]].held
         /\ command[p].cmd = "auto" /\ c = "stable" /\ target[c] # Nowhere => target'[c] > target[c]
<1> USE DirsAre
<1>0. /\ target \in [Pointers -> Dirs \cup {Nowhere}] /\ <<>> \in Seq(FileChange)
      /\ command \in [Operators -> CommandRun] /\ c \in Pointers
  BY DEF StoreType, Pointers
<1>1. PICK x \in CommandRun : x = command[p]
  BY <1>0
<1>2. Fits(x, clock, content, document, target, everStable)
  BY <1>1 DEF Holds
<1>3. /\ x.steps \in Seq(FileChange) /\ x.steps # <<>> /\ x.snap \in Dirs
      /\ Head(x.steps) \in FileChange /\ Head(x.steps).do = "point"
      /\ Head(x.steps).channel \in Pointers /\ Head(x.steps).dir \in Dirs
  BY <1>1, DueIs DEF PointChannel
<1>4. PICK a \in FileChange, d \in Dirs, i \in Dirs :
        a = Head(x.steps) /\ d = a.dir /\ i = x.snap /\ a.do = "point" /\ a.channel = c
  BY <1>0, <1>1, <1>3 DEF PointChannel
<1>5. target'[c] = d
  BY <1>0, <1>1, <1>4 DEF PointChannel
<1>6. Naming(x, document) \/ Ending(x, document, target) \/ Leaving(x, document, target, everStable)
      \/ Retreating(x, document, target)
  BY <1>2, <1>3, StageIs DEF Fits
<1>7. CASE Naming(x, document)
  BY <1>1, <1>7 DEF Naming
<1>8. CASE Ending(x, document, target)
  <2>1. Ends(x, target, a)
    BY <1>4, <1>8, TwoAre DEF Ending
  <2>2. d = x.snap /\ (x.cmd = "test" => x.rel.tests = "pass") /\ x.cmd # "hold"
    BY <1>4, <2>1 DEF Ends
  <2>3. x.cmd = "auto" /\ c = "stable" /\ target[c] # Nowhere => target[c] < d
    BY <1>4, <2>1, <2>2 DEF Ends
  <2>4. target[c] # Nowhere => target[c] \in Nat
    BY <1>0
  <2>5. x.cmd = "auto" /\ c = "stable" /\ target[c] # Nowhere => d > target[c]
    BY <2>3, <2>4
  <2>6. ~(x.cmd = "hold" \/ (x.cmd = "test" /\ x.rel.tests = "fail"))
    BY <2>2
  <2> QED BY <1>1, <1>5, <2>5, <2>6
<1>9. ASSUME Leaves(x, document, target, a), x.cmd # "auto"
      PROVE  /\ x.cmd # "auto" /\ target[c] # Nowhere /\ target'[c] < target[c]
             /\ document[target'[c]].tests = "pass" /\ ~document[target'[c]].held
  <2>1. target[c] = i /\ d < i /\ document[d].tests = "pass" /\ ~document[d].held
    BY <1>4, <1>9 DEF Leaves, Refuge
  <2> QED BY <1>5, <1>9, <2>1, NothingIsNot
<1>10. CASE Leaving(x, document, target, everStable)
  <2>1. PICK b \in FileChange : /\ x.cmd = "test" /\ x.steps = Then(b, ToWrite(i, <<>>))
                            /\ Leaves(x, document, target, b)
    BY <1>4, <1>10 DEF Leaving
  <2>2. ToWrite(i, <<>>) \in Seq(FileChange)
    BY <1>0, ToWriteIs
  <2>3. a = b
    BY <1>4, <2>1, <2>2, ThenIs
  <2> QED BY <1>1, <1>9, <2>1, <2>3
<1>11. CASE Retreating(x, document, target)
  <2>1. a = x.steps[1] /\ 1 \in 1 .. Len(x.steps)
    BY <1>3, <1>4
  <2>2. Leaves(x, document, target, a) /\ x.cmd = "hold"
    BY <1>11, <2>1 DEF Retreating
  <2> QED BY <1>1, <1>9, <2>2
<1> QED BY <1>6, <1>7, <1>8, <1>10, <1>11

\* No other step moves a channel to a snapshot.
LEMMA OnlyPointMoves ==
  ASSUME NEW p \in Operators, StoreStep(p), ~PointChannel(p), StoreType,
         NEW c \in {"rc", "stable"}, target'[c] # target[c]
  PROVE  target'[c] = Nowhere
<1>1. ClearChannel(p)
  BY DEF StoreStep, CutBegin, TestBegin, Promote, PromoteSoaked, Hold, Unhold, Prune, PruneBegin, Start,
     SuitePasses, SuiteFails, Survey, Retreat, WriteDocument, WriteSignature, SignatureFails,
     Commit, CutFails, PruneKeeps, PruneRemoves, PruneIsInterrupted, PruneEnds, Killed, store
<1>2. Head(command[p].steps).channel \in Pointers /\ target \in [Pointers -> Dirs \cup {Nowhere}] /\ c \in Pointers
  BY <1>1, DueIs DEF ClearChannel, StoreType, Pointers
<1> QED BY <1>1, <1>2 DEF ClearChannel

\* What moves rc or stable without being told a snapshot moves it one way: back
\* to an older snapshot that passed and is not held, or, promoted, forward.
THEOREM MovesStayOneWay == ASSUME OneCommand PROVE StoreSpec => MovesAreOneWay
<1> DEFINE Moves(c, p) ==
      /\ command[p].cmd = "hold" \/ (command[p].cmd = "test" /\ command[p].rel.tests = "fail")
         => /\ target[c] # Nowhere /\ target'[c] < target[c]
            /\ document[target'[c]].tests = "pass" /\ ~document[target'[c]].held
      /\ command[p].cmd = "auto" /\ c = "stable" /\ target[c] # Nowhere => target'[c] > target[c]
<1>1. ASSUME StoreInv, [StoreNext]_storeVars, NEW c \in {"rc", "stable"}, NEW p \in Operators,
             target'[c] # target[c], target'[c] # Nowhere
      PROVE  Moves(c, p)
  <2>1. StoreType /\ Holds(p)
    BY <1>1 DEF StoreInv
  <2>2. PICK q \in Operators : StoreStep(q)
    BY <1>1 DEF StoreNext, ClockTicks, storeVars, store
  <2>3. PointChannel(q) /\ p = q
    BY <1>1, <2>1, <2>2, OnlyPointMoves DEF OneCommand
  <2> QED BY <1>1, <2>1, <2>3, MovesStep
<1>2. StoreInv /\ [StoreNext]_storeVars =>
        [ \A c \in {"rc", "stable"} : \A p \in Operators :
            ( target'[c] # target[c] /\ target'[c] # Nowhere ) => Moves(c, p) ]_storeVars
  BY <1>1
<1> QED BY <1>2, StoreIsSound, PTL DEF StoreSpec, MovesAreOneWay

\* Which steps take files away.
LEMMA OnlyTheseRemove ==
  ASSUME NEW p \in Operators, StoreStep(p), content' # content
  PROVE  CutBegin(p) \/ Commit(p) \/ CutFails(p) \/ PruneRemoves(p) \/ PruneIsInterrupted(p)
BY DEF StoreStep, TestBegin, Promote, PromoteSoaked, Hold, Unhold, Prune, PruneBegin, Start,
   SuitePasses, SuiteFails, Survey, Retreat, WriteDocument, WriteSignature, SignatureFails,
   PointChannel, ClearChannel, PruneKeeps, PruneEnds, Killed, store

\* A snapshot that stable named is removed only when its own retention is over.
LEMMA RemovalStep ==
  ASSUME StoreType, NEW p \in Operators, Holds(p), StoreStep(p), NEW d \in everStable,
         content[d] = "whole", content'[d] # "whole"
  PROVE  clock > document[d].created + StableRetain
<1> USE DirsAre
<1>0. /\ document \in [Dirs -> Release \cup {Gone}] /\ command \in [Operators -> CommandRun]
      /\ content \in [Dirs -> {"none", "whole", "part"}] /\ d \in Dirs
      /\ Sound(content, document, target, everStable) /\ clock \in Times
  BY DEF StoreType, Holds
<1>1. PICK x \in CommandRun : x = command[p]
  BY <1>0
<1>2. x.at <= clock /\ x.at \in Times /\ x.todo \subseteq Dirs
  BY <1>1 DEF Holds, Fits, CommandRun
<1>3. CutBegin(p) \/ Commit(p) \/ CutFails(p) \/ PruneRemoves(p) \/ PruneIsInterrupted(p)
  BY OnlyTheseRemove
<1>4. d # Partial
  BY <1>0 DEF Sound
<1>5. ~CutBegin(p) /\ ~CutFails(p)
  BY <1>0, <1>4 DEF CutBegin, CutFails
<1>6. ~Commit(p)
  <2>1. SUFFICES ASSUME Commit(p) PROVE FALSE
    OBVIOUS
  <2>2. /\ command[p].snap \in Dirs /\ content[command[p].snap] = "none"
        /\ content' = [content EXCEPT ![command[p].snap] = content[Partial], ![Partial] = "none"]
    BY <2>1, DueIs DEF Commit
  <2> QED BY <1>0, <1>4, <2>2
<1>7. d \in x.todo /\ Doomed(p, d)
  BY <1>0, <1>1, <1>2, <1>3, <1>5, <1>6 DEF PruneRemoves, PruneIsInterrupted
<1>8. document[d] # Gone /\ PastRetention(d, x.at)
  BY <1>1, <1>7 DEF Doomed
<1>9. document[d].stable /\ document[d] \in Release
  BY <1>0, <1>8 DEF Sound
<1>10. x.at > document[d].created + StableRetain
  BY <1>8, <1>9 DEF PastRetention
<1>11. document[d].created \in Nat /\ x.at \in Nat /\ clock \in Nat /\ StableRetain \in Nat
  BY <1>0, <1>2, <1>9, StoreBoundsAreNat DEF Release, Times
<1> QED BY <1>2, <1>10, <1>11

\* Prune keeps what stable ever named for the longer period.
THEOREM StableIsKept == ASSUME OneCommand PROVE StoreSpec => StableIsKeptLonger
<1>1. ASSUME StoreInv, [StoreNext]_storeVars, NEW d \in everStable, content[d] = "whole", content'[d] # "whole"
      PROVE  clock > document[d].created + StableRetain
  <2>1. PICK p \in Operators : StoreStep(p)
    BY <1>1 DEF StoreNext, ClockTicks, storeVars, store
  <2> QED BY <1>1, <2>1, RemovalStep DEF StoreInv
<1>2. StoreInv /\ [StoreNext]_storeVars =>
        [ \A d \in everStable :
            (content[d] = "whole" /\ content'[d] # "whole") => clock > document[d].created + StableRetain ]_storeVars
  BY <1>1
<1> QED BY <1>2, StoreIsSound, PTL DEF StoreSpec, StableIsKeptLonger
=============================================================================
