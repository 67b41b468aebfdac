---------------------------- MODULE RegistryProofs ----------------------------
(***************************************************************************)
(* Theorems about Registry: evidence for what a PKGBUILD builds never      *)
(* weakens silently, lists are not replayed, what the tool channel has     *)
(* published stays, what the gate merges was seeded by a human and has a   *)
(* passing verdict, proofs of inclusion are of the leaf they are about, and *)
(* the evidence behind a signature is judged right.                        *)
(***************************************************************************)
EXTENDS Registry, SequenceTheorems, FiniteSetTheorems, WellFoundedInduction, TLAPS

-----------------------------------------------------------------------------
(* The vendor.                                                             *)

UpstreamTyped ==
  /\ signed \in BOOLEAN /\ release \in [Versions -> Packslips \cup {None}]
  /\ \A v \in Versions : release[v] # None => release[v].version = v
  /\ lists \in Seq(Lists) /\ lists # <<>> /\ Len(lists) <= MaxLists /\ now \in 0..MaxTime /\ pin \in Signers

\* The value for nothing is no value.
LEMMA NothingIsNone ==
  /\ None \notin Packslips /\ None \notin Kept /\ Unpublished \notin Offers
  /\ None.version = 0 /\ Unpublished.upload = 0
BY UpstreamAssumption DEF None, Packslips, Kept, Versions, Unpublished, Offers

\* A set of numbers up to n has a largest, and Max is it.
LEMMA MaxIsThere ==
  ASSUME NEW n \in Nat, NEW S \in SUBSET (0..n), S # {}
  PROVE  Max(S) \in S /\ \A y \in S : Max(S) >= y
<1> DEFINE T == {n - v : v \in S}
<1>1. IsWellFoundedOn(OpToRel(<, Nat), Nat)
  BY NatLessThanWellFounded
<1>2. T \subseteq Nat /\ T # {}
  <2>1. ASSUME NEW v \in S PROVE n - v \in Nat
    <3>1. v \in Nat /\ v <= n
      OBVIOUS
    <3> QED BY <3>1
  <2> QED BY <2>1
<1>3. PICK x \in T : \A y \in T : ~(<<y, x>> \in OpToRel(<, Nat))
  <2> HIDE DEF T
  <2> QED BY <1>1, <1>2, WFMin
<1>4. \A y \in T : ~(y < x)
  BY <1>2, <1>3 DEF OpToRel
<1>5. PICK v \in S : x = n - v
  OBVIOUS
<1>6. \A y \in S : v >= y
  <2> SUFFICES ASSUME NEW y \in S PROVE v >= y
    OBVIOUS
  <2>1. n - y \in T
    OBVIOUS
  <2> HIDE DEF T
  <2>2. ~(n - y < n - v)
    BY <1>4, <1>5, <2>1
  <2> QED BY <2>2
<1>7. Max(S) = CHOOSE z \in S : \A y \in S : z >= y
  BY DEF Max
<1> QED BY <1>6, <1>7

\* The vendor keeps its releases and lists in shape.
LEMMA VendorKeepsShape == UpstreamTyped /\ VendorActs => UpstreamTyped'
<1> SUFFICES ASSUME UpstreamTyped, VendorActs PROVE UpstreamTyped'
  OBVIOUS
<1> PICK last : last = lists[Len(lists)]
  OBVIOUS
<1>0. last.yanked \in SUBSET Versions
  <2>1. lists \in Seq(Lists) /\ lists # <<>>
    BY DEF UpstreamTyped
  <2>2. Len(lists) \in 1..Len(lists)
    BY <2>1
  <2>3. last \in Lists
    BY <2>1, <2>2
  <2> QED BY <2>3 DEF Lists
<1>1. ASSUME NEW slip \in [Versions -> Packslips \cup {None}], NEW yanked \in SUBSET Versions,
             NEW latest \in Versions \cup {0}, NewList(slip, yanked, latest)
      PROVE  lists' \in Seq(Lists) /\ lists' # <<>> /\ Len(lists') <= MaxLists
  <2> PICK l : l = [slip |-> slip, yanked |-> yanked, latest |-> latest]
    OBVIOUS
  <2>1. l \in Lists
    BY DEF Lists
  <2>2. lists' = Append(lists, l) /\ Len(lists) < MaxLists
    BY <1>1 DEF NewList
  <2> QED BY <2>1, <2>2, AppendProperties, UpstreamAssumption DEF UpstreamTyped
<1>2. ASSUME NEW v \in Versions, NEW s \in Signers, NEW document \in Documents,
             Upload(v, s, document)
      PROVE  UpstreamTyped'
  <2> PICK evidence : evidence = IF document.proven THEN {"vendor-signature"} ELSE {}
    OBVIOUS
  <2> PICK slip : slip = [version |-> v, signer |-> s, attestor |-> document.attestor,
                          level |-> LevelFor(document.attestor, evidence, document.proven),
                          at |-> now, upload |-> IF release[v] = None THEN 1 ELSE 2]
    OBVIOUS
  <2>0. document.attestor \in Attestors
    BY UpstreamAssumption
  <2>a. LevelFor(document.attestor, evidence, document.proven) \in 0..3
    BY DEF LevelFor
  <2>1. slip \in Packslips /\ slip.version = v
    BY <2>0, <2>a DEF Packslips, UpstreamTyped
  <2>2. release' = [release EXCEPT ![v] = slip] /\ NewList(release', last.yanked, v)
        /\ UNCHANGED <<signed, pin, now>>
    BY <1>2 DEF Upload
  <2>3. release' \in [Versions -> Packslips \cup {None}]
    BY <2>1, <2>2 DEF UpstreamTyped
  <2>4. \A w \in Versions : release'[w] # None => release'[w].version = w
    BY <2>1, <2>2 DEF UpstreamTyped
  <2>5. lists' \in Seq(Lists) /\ lists' # <<>> /\ Len(lists') <= MaxLists
    BY <1>0, <1>1, <2>2, <2>3
  <2> QED BY <2>2, <2>3, <2>4, <2>5 DEF UpstreamTyped
<1>3. ASSUME NEW v \in Versions, Yank(v) PROVE UpstreamTyped'
  <2>1. NewList(release, last.yanked \cup {v}, 0) /\ UNCHANGED <<signed, release, pin, now>>
    BY <1>3 DEF Yank
  <2>2. lists' \in Seq(Lists) /\ lists' # <<>> /\ Len(lists') <= MaxLists
    BY <1>0, <1>1, <2>1 DEF UpstreamTyped
  <2> QED BY <2>1, <2>2 DEF UpstreamTyped
<1>4. ASSUME NEW s \in Signers, Repin(s) PROVE UpstreamTyped'
  BY <1>4 DEF Repin, UpstreamTyped
<1>5. CASE Relist
  BY <1>5 DEF Relist, UpstreamTyped
<1>6. CASE Tick
  BY <1>6, UpstreamAssumption DEF Tick, UpstreamTyped
<1> QED BY <1>2, <1>3, <1>4, <1>5, <1>6 DEF VendorActs

\* What a listing says is eligible and chosen is a release that the vendor has,
\* and none that the rules forbid.
LEMMA ResolvedIsReleased ==
  ASSUME UpstreamTyped, NEW previous, NEW listing \in Listings,
         NEW requested, NEW allow \in BOOLEAN,
         NEW slip \in Resolved(previous, listing, requested, allow)
  PROVE  /\ slip \in Packslips /\ release[slip.version] = slip
         /\ NotReplayed(previous, listing) \/ allow
         /\ NoDowngrade(previous, Accepted(slip, previous, listing)) \/ allow
<1> PICK list : list = ListOf(listing)
  OBVIOUS
<1> PICK eligible : eligible = Eligible(list, requested)
  OBVIOUS
<1> PICK v : v = Choice(list, requested, eligible)
  OBVIOUS
<1>1. /\ slip = release[v] /\ eligible # {}
      /\ signed => slip = list.slip[v]
      /\ NotReplayed(previous, listing) \/ allow
      /\ NoDowngrade(previous, Accepted(slip, previous, listing)) \/ allow
  BY DEF Resolved
<1>2. eligible \in SUBSET (0..MaxVersion) /\ eligible \subseteq Versions /\ \A w \in eligible : list.slip[w] # None
  BY DEF Eligible, Versions
<1>3. v \in eligible
  BY <1>1, <1>2, MaxIsThere, UpstreamAssumption DEF Choice
<1>4. v \in Versions /\ list.slip[v] # None
  BY <1>2, <1>3 DEF Versions
<1>5. slip # None
  <2>1. CASE signed
    BY <1>1, <1>4, <2>1
  <2>2. CASE ~signed
    <3>1. list.slip = [w \in Versions |-> IF release[w] = None THEN None
                                          ELSE [release[w] EXCEPT !.at = 0]]
      BY <2>2 DEF ListOf, GithubListing, EmptyList
    <3> QED BY <1>1, <1>4, <3>1
  <2> QED BY <2>1, <2>2
<1>6. slip \in Packslips /\ slip.version = v
  BY <1>1, <1>4, <1>5 DEF UpstreamTyped
<1> QED BY <1>1, <1>6
-----------------------------------------------------------------------------
(* What the vendor offers and what is written of it.                       *)

Good(l) == l # None => l \in Kept

\* Whatever a human allowed is what the PKGBUILD has not had yet.
Climbs(from, to) == NoDowngrade(from, to) \/ pardon

\* What stands in the PKGBUILD may give way to this.
Follows(to) == Climbs(pkgbuild, to) \/ pkgbuild.signer = Nobody

\* What the repository's own key signs, it signs as a repackager.
Ours(l) == l # None /\ l.signer = Repackager => l.attestor = "repackager"

Stages == {<<"lock", "pkgbuild">>, <<"lock">>, <<"pkgbuild">>}

Underway ==
  writing # Idle =>
    /\ writing \in [files : Stages, new : Kept, allowed : BOOLEAN]
    /\ Ours(writing.new)
    /\ writing.files # <<"lock">> => writing.new.signer \in Signers
    /\ writing.files = <<"pkgbuild">> => lock = writing.new /\ ~writing.allowed
    /\ writing.files = <<"lock">> => pkgbuild # None
    /\ writing.files # <<"pkgbuild">> =>
         /\ Climbs(lock, writing.new)
         /\ lock # None /\ writing.new.seq < lock.seq =>
              writing.allowed /\ writing.new.signer \in Signers

PackageInv ==
  /\ UpstreamTyped
  /\ Good(lock) /\ Ours(lock) /\ Ours(pkgbuild) /\ pardon \in BOOLEAN
  /\ pkgbuild # None => pkgbuild \in Built
  /\ pkgbuild # None /\ pkgbuild.signer = Repackager => pkgbuild.level = 0
  /\ pkgbuild # None /\ lock # None => Follows(lock)
  /\ pkgbuild # None /\ lock = None => pkgbuild.signer = Nobody
  /\ Underway

PackageSpec ==
  /\ UpstreamInit /\ PackageInit
  /\ [][PackageNext \/ (VendorActs /\ UNCHANGED package)]_<<upstream, package>>

\* What is no downgrade of what was none is none.
LEMMA DowngradesAddUp ==
  ASSUME NEW a \in Kept \cup Built, NEW b \in Kept, NEW c \in Kept, NoDowngrade(a, b), NoDowngrade(b, c)
  PROVE  NoDowngrade(a, c)
<1>1. a # None /\ b # None /\ c # None
  BY NothingIsNone DEF None, Built, Versions
<1>2. /\ a.level \in Nat /\ b.level \in Nat /\ c.level \in Nat
      /\ a.attestor \in {"vendor", "repackager"} /\ b.attestor \in {"vendor", "repackager"}
      /\ c.attestor \in {"vendor", "repackager"}
  BY DEF Kept, Built, Attestors
<1> QED BY <1>1, <1>2 DEF NoDowngrade, KeepsLevel, KeepsSigner

\* What is accepted of a release that was resolved.
LEMMA AcceptedIsKept ==
  ASSUME PackageInv, NEW listing \in Listings, NEW requested, NEW allow \in BOOLEAN,
         NEW slip \in Resolved(lock, listing, requested, allow)
  PROVE  /\ Accepted(slip, lock, listing) \in Kept
         /\ Accepted(slip, lock, listing).signer \in Signers
         /\ NoDowngrade(lock, Accepted(slip, lock, listing)) \/ allow
         /\ lock # None /\ Accepted(slip, lock, listing).seq < lock.seq => allow
<1> PICK new : new = Accepted(slip, lock, listing)
  OBVIOUS
<1>1. slip \in Packslips /\ (NotReplayed(lock, listing) \/ allow) /\ (NoDowngrade(lock, new) \/ allow)
  BY ResolvedIsReleased DEF PackageInv
<1>2. signed => listing.seq \in 0..MaxLists
  <2>1. Len(lists) \in Nat /\ Len(lists) <= MaxLists
    BY DEF PackageInv, UpstreamTyped
  <2> QED BY <2>1, UpstreamAssumption DEF Listings
<1>3. KeptSequence(lock) \in 0..MaxLists
  BY UpstreamAssumption DEF KeptSequence, PackageInv, Good, Kept
<1>4. /\ new.version = slip.version /\ new.level = slip.level /\ new.signer = slip.signer
      /\ new.attestor = slip.attestor /\ new.upload = slip.upload
      /\ new.seq = IF signed THEN listing.seq ELSE KeptSequence(lock)
  BY DEF Accepted
<1>5. new \in Kept
  <2>1. /\ slip.version \in Versions /\ slip.level \in 0..3 /\ slip.attestor \in Attestors
        /\ slip.signer \in Signers /\ slip.upload \in 1..2
    BY <1>1 DEF Packslips
  <2>2. (IF signed THEN listing.seq ELSE KeptSequence(lock)) \in 0..MaxLists
    BY <1>2, <1>3
  <2> QED BY <2>1, <2>2 DEF Accepted, Kept
<1>6. lock # None /\ new.seq < lock.seq => allow
  <2> SUFFICES ASSUME lock # None, new.seq < lock.seq PROVE allow
    OBVIOUS
  <2>1. KeptSequence(lock) = lock.seq /\ lock.seq \in 0..MaxLists
    BY <1>3 DEF KeptSequence
  <2>2. signed /\ ~(listing.seq >= lock.seq)
    BY <1>2, <1>4, <2>1
  <2> QED BY <1>1, <2>1, <2>2 DEF NotReplayed
<1>7. new.signer \in Signers
  BY <1>1, <1>4 DEF Packslips
<1> QED BY <1>1, <1>4, <1>5, <1>6, <1>7

\* A command that starts to write what it may write.
LEMMA BeginHolds ==
  ASSUME PackageInv, NEW stages \in {<<"lock", "pkgbuild">>, <<"lock">>}, NEW new \in Kept,
         NEW allow \in BOOLEAN, Begin(stages, new, allow), Ours(new),
         stages = <<"lock", "pkgbuild">> => new.signer \in Signers,
         stages = <<"lock">> => pkgbuild # None,
         NoDowngrade(lock, new) \/ allow,
         lock # None /\ new.seq < lock.seq => allow /\ new.signer \in Signers
  PROVE  PackageInv'
<1>1. /\ writing' = [files |-> stages, new |-> new, allowed |-> allow]
      /\ pardon' = (pardon \/ allow) /\ UNCHANGED <<lock, pkgbuild>>
      /\ UNCHANGED <<signed, release, lists, pin, now>>
  BY DEF Begin, upstream
<1>2. writing'.files = stages /\ writing'.new = new /\ writing'.allowed = allow
  BY <1>1
<1>3. stages # <<"pkgbuild">> /\ stages \in Stages
  <2>1. <<"lock">>[1] # <<"pkgbuild">>[1] /\ <<"lock", "pkgbuild">>[1] # <<"pkgbuild">>[1]
    OBVIOUS
  <2> QED BY <2>1 DEF Stages
<1>4. pardon' \in BOOLEAN /\ (pardon => pardon') /\ (allow => pardon')
  BY <1>1 DEF PackageInv
<1>5. Underway'
  BY <1>1, <1>2, <1>3, <1>4 DEF Underway, Climbs, Ours
<1>6. pkgbuild # None /\ lock # None => Follows(lock)'
  BY <1>1, <1>4 DEF PackageInv, Follows, Climbs
<1>7. UpstreamTyped'
  BY <1>1 DEF PackageInv, UpstreamTyped
<1> QED BY <1>1, <1>4, <1>5, <1>6, <1>7 DEF PackageInv, Good, Ours

\* Vendoring accepts a weaker release only with the override.
LEMMA VendorStep ==
  ASSUME PackageInv, NEW listing \in Listings, NEW requested, NEW allow \in BOOLEAN,
         Vendor(listing, requested, allow)
  PROVE  PackageInv'
<1> PICK slip \in Resolved(lock, listing, requested, allow) :
      Begin(<<"lock", "pkgbuild">>, Accepted(slip, lock, listing), allow)
  BY DEF Vendor
<1> PICK new : new = Accepted(slip, lock, listing)
  OBVIOUS
<1>1. /\ new \in Kept /\ new.signer \in Signers /\ (NoDowngrade(lock, new) \/ allow)
      /\ lock # None /\ new.seq < lock.seq => allow
  BY AcceptedIsKept
<1>2. Ours(new)
  BY <1>1, UpstreamAssumption DEF Ours
<1>3. <<"lock", "pkgbuild">> # <<"lock">>
  <2>1. Len(<<"lock", "pkgbuild">>) = 2 /\ Len(<<"lock">>) = 1
    OBVIOUS
  <2> QED BY <2>1
<1> QED BY <1>1, <1>2, <1>3, BeginHolds

\* Repackaging keeps the sequence of the lock it replaces.
LEMMA RepackStep ==
  ASSUME PackageInv, NEW evidence, NEW allow \in BOOLEAN, Repack(evidence, allow)
  PROVE  PackageInv'
<1> PICK new : new = [version |-> pkgbuild.version, level |-> LevelFor("repackager", evidence, FALSE),
                signer |-> Repackager, attestor |-> "repackager", upload |-> pkgbuild.upload,
                seq |-> KeptSequence(lock)]
  OBVIOUS
<1>1. pkgbuild # None /\ (NoDowngrade(lock, new) \/ allow) /\ Begin(<<"lock">>, new, allow)
  BY DEF Repack
<1>2. KeptSequence(lock) \in 0..MaxLists /\ (lock # None => KeptSequence(lock) = lock.seq)
  BY UpstreamAssumption DEF KeptSequence, PackageInv, Good, Kept
<1>3. pkgbuild \in Built
  BY <1>1 DEF PackageInv
<1>4. LevelFor("repackager", evidence, FALSE) \in 0..3
  BY DEF LevelFor
<1>5. new \in Kept
  BY <1>2, <1>3, <1>4 DEF Kept, Built, Attestors
<1>6. Ours(new) /\ new.seq = KeptSequence(lock)
  BY DEF Ours
<1>7. ~(lock # None /\ new.seq < lock.seq)
  BY <1>2, <1>6
<1>8. <<"lock", "pkgbuild">> # <<"lock">>
  <2>1. Len(<<"lock", "pkgbuild">>) = 2 /\ Len(<<"lock">>) = 1
    OBVIOUS
  <2> QED BY <2>1
<1> QED BY <1>1, <1>5, <1>6, <1>7, <1>8, BeginHolds

\* A bump keeps the invariant, and weakens evidence only with the override.
LEMMA BumpStep ==
  ASSUME PackageInv, NEW v \in Versions, Bump(v)
  PROVE  PackageInv' /\ Follows(pkgbuild')
<1> PICK signer : signer = IF lock = None THEN Nobody ELSE Repackager
  OBVIOUS
<1> PICK bumped : bumped = [version |-> v, level |-> 0, attestor |-> "repackager", signer |-> signer,
                            upload |-> release[v].upload, seq |-> 0]
  OBVIOUS
<1>1. /\ writing = Idle /\ release[v] # None /\ (lock # None => lock.signer = Repackager)
      /\ pkgbuild' = bumped /\ UNCHANGED <<lock, writing, pardon>>
      /\ UNCHANGED <<signed, release, lists, pin, now>>
  BY DEF Bump, Hooked, upstream
<1>2. release[v].upload \in 1..2
  BY <1>1 DEF PackageInv, UpstreamTyped, Packslips
<1>3. bumped \in Built
  BY <1>2 DEF Built, Attestors
<1>4. /\ bumped # None /\ bumped.level = 0 /\ bumped.attestor = "repackager"
      /\ bumped.signer = signer
  BY <1>3 DEF None, Built, Versions
<1>a. lock # None => lock \in Kept /\ lock.attestor = "repackager" /\ lock.signer = Repackager
  BY <1>1 DEF PackageInv, Good, Ours
<1>5. lock # None => NoDowngrade(bumped, lock)
  <2> SUFFICES ASSUME lock # None PROVE NoDowngrade(bumped, lock)
    OBVIOUS
  <2>2. lock.level >= 0
    BY <1>a DEF Kept
  <2> QED BY <1>4, <1>a, <2>2 DEF NoDowngrade, KeepsLevel, KeepsSigner
<1>6. Follows(bumped)
  <2> SUFFICES ASSUME pkgbuild # None, ~pardon, pkgbuild.signer # Nobody
               PROVE  NoDowngrade(pkgbuild, bumped)
    BY DEF Follows, Climbs, NoDowngrade
  <2>1. pkgbuild \in Built /\ lock # None
    BY DEF PackageInv
  <2>2. NoDowngrade(pkgbuild, lock)
    BY <2>1 DEF PackageInv, Follows, Climbs
  <2>3. pkgbuild.attestor = "repackager"
    BY <1>a, <2>1, <2>2 DEF NoDowngrade, Built, Attestors
  <2>4. pkgbuild.signer = Repackager
    BY <1>a, <2>1, <2>2, <2>3 DEF NoDowngrade, KeepsSigner
  <2>5. pkgbuild.level = 0 /\ bumped.signer = Repackager
    BY <1>4, <2>1, <2>4 DEF PackageInv
  <2> QED BY <1>4, <2>3, <2>4, <2>5 DEF NoDowngrade, KeepsLevel, KeepsSigner
<1>7. UpstreamTyped' /\ Underway'
  BY <1>1 DEF PackageInv, UpstreamTyped, Underway
<1>b. pkgbuild' \in Built /\ pkgbuild' # None /\ pkgbuild'.level = 0
      /\ pkgbuild'.attestor = "repackager" /\ (lock = None => pkgbuild'.signer = Nobody)
  BY <1>1, <1>3, <1>4
<1>c. (pkgbuild # None /\ lock # None => Follows(lock))'
  BY <1>1, <1>5 DEF Follows, Climbs
<1>8. PackageInv'
  BY <1>1, <1>7, <1>b, <1>c DEF PackageInv, Good, Ours
<1> QED BY <1>1, <1>6, <1>8

\* What each file to be written does to the package.
LEMMA WriteStep ==
  ASSUME PackageInv, Write
  PROVE  /\ PackageInv'
         /\ pkgbuild' # pkgbuild => Follows(pkgbuild')
         /\ lock # None /\ lock' # lock /\ lock'.seq < lock.seq
              => writing.allowed /\ lock'.signer \in Signers
<1> PICK w : w = writing
  OBVIOUS
<1> PICK new : new = writing.new
  OBVIOUS
<1>0. /\ w # Idle /\ Underway
      /\ lock' = IF Head(w.files) = "lock" THEN new ELSE lock
      /\ pkgbuild' = IF Head(w.files) = "pkgbuild" THEN [new EXCEPT !.seq = 0] ELSE pkgbuild
      /\ pardon' = (pardon /\ Head(w.files) # "pkgbuild")
      /\ writing' = IF Len(w.files) = 1 THEN Idle
                    ELSE [w EXCEPT !.files = Tail(@), !.allowed = FALSE]
      /\ UNCHANGED <<signed, release, lists, pin, now>>
  BY DEF Write, upstream, PackageInv
<1>1. /\ w.files \in Stages /\ new \in Kept /\ w.allowed \in BOOLEAN /\ Ours(new)
  BY <1>0 DEF Underway
<1>2. UpstreamTyped'
  BY <1>0 DEF PackageInv, UpstreamTyped
<1>3. new # None /\ \A l \in Kept : l # None
  BY <1>1, NothingIsNone
<1>d. /\ <<"lock", "pkgbuild">> # <<"lock">> /\ <<"lock", "pkgbuild">> # <<"pkgbuild">>
      /\ <<"lock">> # <<"pkgbuild">>
  <2>1. /\ Len(<<"lock", "pkgbuild">>) = 2 /\ Len(<<"lock">>) = 1 /\ Len(<<"pkgbuild">>) = 1
        /\ <<"lock">>[1] # <<"pkgbuild">>[1]
    OBVIOUS
  <2> QED BY <2>1
<1>4. ASSUME w.files # <<"pkgbuild">>, pardon' = pardon, lock' = new, pkgbuild' = pkgbuild,
             Underway', pkgbuild = None \/ lock # None \/ w.files = <<"lock">> \/ w.files = <<"lock", "pkgbuild">>
      PROVE  PackageInv' /\ (lock # None /\ lock' # lock /\ lock'.seq < lock.seq
                               => writing.allowed /\ lock'.signer \in Signers)
  <2>1. /\ NoDowngrade(lock, new) \/ pardon
        /\ lock # None /\ new.seq < lock.seq => w.allowed /\ new.signer \in Signers
    BY <1>0, <1>4 DEF Underway, Climbs
  <2>2. pkgbuild # None => Follows(new)
    <3> SUFFICES ASSUME pkgbuild # None, ~pardon, pkgbuild.signer # Nobody
                 PROVE  NoDowngrade(pkgbuild, new)
      BY DEF Follows, Climbs
    <3>1. lock # None /\ lock \in Kept /\ pkgbuild \in Built
      BY DEF PackageInv, Good
    <3>2. NoDowngrade(pkgbuild, lock)
      BY <3>1 DEF PackageInv, Follows, Climbs
    <3> QED BY <1>1, <2>1, <3>1, <3>2, DowngradesAddUp
  <2>3. (pkgbuild # None => Follows(lock))'
    BY <1>4, <2>2 DEF Follows, Climbs
  <2> QED BY <1>1, <1>2, <1>3, <1>4, <2>1, <2>3 DEF PackageInv, Good, Ours
<1>5. CASE w.files = <<"lock">>
  <2>1. Head(w.files) = "lock" /\ Len(w.files) = 1
    BY <1>5
  <2>2. writing' = Idle
    BY <1>0, <2>1
  <2>3. Underway'
    BY <2>2 DEF Underway
  <2> QED BY <1>0, <1>4, <1>5, <1>d, <2>1, <2>3 DEF PackageInv
<1>6. CASE w.files = <<"lock", "pkgbuild">>
  <2>1. Head(w.files) = "lock" /\ Len(w.files) = 2 /\ Tail(w.files) = <<"pkgbuild">>
    BY <1>6
  <2>3. w \in [files : Stages, new : Kept, allowed : BOOLEAN] /\ w.new = new
    BY <1>0 DEF Underway
  <2>a. writing' = [w EXCEPT !.files = Tail(@), !.allowed = FALSE]
    BY <1>0, <2>1
  <2>2. writing' = [w EXCEPT !.files = <<"pkgbuild">>, !.allowed = FALSE]
        /\ lock' = new /\ pkgbuild' = pkgbuild /\ pardon' = pardon
    <3>1. [w EXCEPT !.files = Tail(@), !.allowed = FALSE]
            = [w EXCEPT !.files = <<"pkgbuild">>, !.allowed = FALSE]
      BY <2>1, <2>3
    <3> QED BY <1>0, <2>1, <2>a, <3>1 DEF PackageInv
  <2>4. writing'.files = <<"pkgbuild">> /\ writing'.new = new /\ writing'.allowed = FALSE
        /\ writing' \in [files : Stages, new : Kept, allowed : BOOLEAN]
    BY <2>2, <2>3 DEF Stages
  <2>5. new.signer \in Signers
    BY <1>0, <1>6, <1>d DEF Underway
  <2>6. Underway'
    BY <1>1, <1>d, <2>2, <2>4, <2>5 DEF Underway, Ours
  <2> QED BY <1>4, <1>6, <1>d, <2>2, <2>1, <2>6
<1>7. CASE w.files = <<"pkgbuild">>
  <2>1. Head(w.files) = "pkgbuild" /\ Len(w.files) = 1
    BY <1>7
  <2> PICK built : built = [new EXCEPT !.seq = 0]
    OBVIOUS
  <2>2. writing' = Idle /\ lock' = lock /\ pkgbuild' = built /\ pardon' = FALSE
    BY <1>0, <2>1
  <2>3. lock = new /\ new.signer \in Signers
    BY <1>0, <1>7, <1>d DEF Underway
  <2>4. /\ built \in Built /\ built.attestor = new.attestor /\ built.level = new.level
        /\ built.signer = new.signer /\ built # None
    BY <1>1, <2>3 DEF Kept, Built, None, Versions
  <2>5. NoDowngrade(built, lock)
    <3>1. new.level \in Nat /\ new.attestor \in Attestors
      BY <1>1 DEF Kept
    <3> QED BY <2>3, <2>4, <3>1 DEF NoDowngrade, KeepsLevel, KeepsSigner, Attestors
  <2>6. Follows(built)
    <3> SUFFICES ASSUME pkgbuild # None, ~pardon, pkgbuild.signer # Nobody
                 PROVE  NoDowngrade(pkgbuild, built)
      BY DEF Follows, Climbs, NoDowngrade
    <3>1. NoDowngrade(pkgbuild, new)
      BY <1>3, <2>3 DEF PackageInv, Follows, Climbs
    <3> QED BY <2>3, <2>4, <3>1 DEF NoDowngrade, KeepsLevel, KeepsSigner
  <2>7. /\ (pkgbuild # None /\ lock # None => Follows(lock))' /\ Underway'
        /\ Ours(pkgbuild)' /\ (pkgbuild # None /\ pkgbuild.signer = Repackager => pkgbuild.level = 0)'
        /\ lock' # None /\ lock' = lock
    BY <1>3, <2>2, <2>3, <2>4, <2>5, UpstreamAssumption DEF Follows, Climbs, Underway, Ours
  <2>8. PackageInv'
    BY <1>2, <2>2, <2>4, <2>7 DEF PackageInv, Good, Ours
  <2> QED BY <2>2, <2>6, <2>8
<1> QED BY <1>1, <1>5, <1>6, <1>7 DEF Stages

\* Every step keeps PackageInv, and what the package's properties say of steps.
LEMMA PackageStep ==
  ASSUME PackageInv, [PackageNext \/ (VendorActs /\ UNCHANGED package)]_<<upstream, package>>
  PROVE  /\ PackageInv'
         /\ pkgbuild' # pkgbuild => Follows(pkgbuild')
         /\ lock # None /\ lock' # lock /\ lock'.seq < lock.seq
              => writing.allowed /\ lock'.signer \in Signers
<1> DEFINE Goal == /\ PackageInv'
                   /\ pkgbuild' # pkgbuild => Follows(pkgbuild')
                   /\ lock # None /\ lock' # lock /\ lock'.seq < lock.seq
                        => writing.allowed /\ lock'.signer \in Signers
<1>1. CASE UNCHANGED <<upstream, package>>
  <2>1. UpstreamTyped' /\ Underway'
    BY <1>1 DEF upstream, package, PackageInv, UpstreamTyped, Underway, Climbs
  <2> QED BY <1>1, <2>1 DEF upstream, package, PackageInv, Good, Ours, Follows, Climbs
<1>2. CASE VendorActs /\ UNCHANGED package
  <2>1. UpstreamTyped'
    BY <1>2, VendorKeepsShape DEF PackageInv
  <2>2. Underway'
    BY <1>2 DEF package, PackageInv, Underway, Climbs
  <2> QED BY <1>2, <2>1, <2>2 DEF package, PackageInv, Good, Ours, Follows, Climbs
<1>3. ASSUME NEW listing \in Listings, NEW requested \in Versions \cup {0}, NEW allow \in BOOLEAN,
             Vendor(listing, requested, allow)
      PROVE  Goal
  <2>1. PackageInv'
    BY <1>3, VendorStep
  <2>2. lock' = lock /\ pkgbuild' = pkgbuild
    BY <1>3 DEF Vendor, Begin
  <2> QED BY <2>1, <2>2
<1>4. ASSUME NEW evidence \in {{}, {"vendor-signature"}}, NEW allow \in BOOLEAN,
             Repack(evidence, allow)
      PROVE  Goal
  <2>1. PackageInv'
    BY <1>4, RepackStep
  <2>2. lock' = lock /\ pkgbuild' = pkgbuild
    BY <1>4 DEF Repack, Begin
  <2> QED BY <2>1, <2>2
<1>5. ASSUME NEW v \in Versions, Bump(v) PROVE Goal
  <2>1. lock' = lock
    BY <1>5 DEF Bump
  <2> QED BY <1>5, <2>1, BumpStep
<1>6. CASE Write
  BY <1>6, WriteStep
<1>7. CASE Die
  <2>1. /\ writing' = Idle /\ UNCHANGED <<signed, release, lists, pin, now>>
        /\ UNCHANGED <<lock, pkgbuild, pardon>>
    BY <1>7 DEF Die, upstream
  <2>2. UpstreamTyped' /\ Underway'
    BY <2>1 DEF PackageInv, UpstreamTyped, Underway
  <2> QED BY <2>1, <2>2 DEF PackageInv, Good, Ours, Follows, Climbs
<1> QED BY <1>1, <1>2, <1>3, <1>4, <1>5, <1>6, <1>7 DEF PackageNext

\* A vendor that has released nothing yet.
LEMMA UpstreamStarts == UpstreamInit => UpstreamTyped
<1> SUFFICES ASSUME UpstreamInit PROVE UpstreamTyped
  OBVIOUS
<1>1. pin \in Signers
  BY UpstreamAssumption DEF UpstreamInit
<1>2. EmptyList \in Lists
  BY DEF EmptyList, Lists
<1>3. lists \in Seq(Lists) /\ lists # <<>> /\ Len(lists) = 1
  BY <1>2 DEF UpstreamInit
<1> QED BY <1>1, <1>3, UpstreamAssumption DEF UpstreamInit, UpstreamTyped

\* The invariant of vendored packages holds throughout.
LEMMA PackageHolds == PackageSpec => []PackageInv
<1>1. UpstreamInit /\ PackageInit => PackageInv
  BY UpstreamStarts DEF PackageInit, PackageInv, Good, Ours, Underway
<1>2. PackageInv /\ [PackageNext \/ (VendorActs /\ UNCHANGED package)]_<<upstream, package>>
        => PackageInv'
  BY PackageStep
<1> QED BY <1>1, <1>2, PTL DEF PackageSpec

\* Whatever dies, and whatever a human has allowed before, what the PKGBUILD
\* builds has no weaker evidence and no other signer than before, if anyone
\* had signed that (vendor.rs, repack.rs).
THEOREM DowngradesAreAllowed == PackageSpec => NoSilentDowngrade
<1>1. PackageInv /\ [PackageNext \/ (VendorActs /\ UNCHANGED package)]_<<upstream, package>>
        => [pkgbuild' # pkgbuild =>
              \/ NoDowngrade(pkgbuild, pkgbuild') \/ pkgbuild.signer = Nobody
              \/ pardon]_package
  BY PackageStep DEF Follows, Climbs
<1> QED BY <1>1, PackageHolds, PTL DEF PackageSpec, NoSilentDowngrade

\* The lock goes back to an older list only where a human allows just that.
THEOREM ReplaysAreAllowed == PackageSpec => ListsAreNotReplayed
<1>1. PackageInv /\ [PackageNext \/ (VendorActs /\ UNCHANGED package)]_<<upstream, package>>
        => [lock # None /\ lock' # lock /\ lock'.seq < lock.seq =>
              writing.allowed /\ lock'.signer \in Signers]_package
  BY PackageStep
<1> QED BY <1>1, PackageHolds, PTL DEF PackageSpec, ListsAreNotReplayed
-----------------------------------------------------------------------------
(* The tool channel.                                                       *)

Underpublication ==
  publishing # None =>
    /\ publishing \in [slip : Packslips, version : Versions, upload : 1..2, seq : 0..MaxLists,
                       mirrored : BOOLEAN]
    /\ publishing.version \notin Published
    /\ publishing.mirrored => mirror[publishing.version] = publishing.upload

Index == [Versions -> Offers \cup {Unpublished}]

\* An index that follows another has all of its artifacts, which are mirrored.
Extends(new, old) == \A v \in Versions : old[v] # Unpublished =>
  new[v] # Unpublished /\ new[v].upload = old[v].upload

Mirrored(index) == \A v \in Versions : index[v] # Unpublished => mirror[v] = index[v].upload

ChannelInv ==
  /\ UpstreamTyped
  /\ tools \in Index /\ mirror \in [Versions -> 0..2] /\ Mirrored(tools)
  /\ torn # None => /\ torn \in [tools : Index, alive : BOOLEAN] /\ Extends(tools, torn.tools)
                    /\ publishing = None
  /\ Underpublication

\* What every step keeps of the index that is signed.
Stays == \A v \in Versions : SignedTools[v] # Unpublished =>
  SignedTools'[v].upload = SignedTools[v].upload /\ mirror'[v] = SignedTools[v].upload

ChannelSpec ==
  /\ UpstreamInit /\ ChannelInit
  /\ [][ChannelNext \/ (VendorActs /\ UNCHANGED channel)]_<<upstream, channel>>

\* A version is published as long as its offer is one.
LEMMA PublishedOffers ==
  ASSUME ChannelInv
  PROVE  \A v \in Versions : v \in Published <=> tools[v] \in Offers
BY NothingIsNone DEF ChannelInv, Index, Published

\* The sequence that stands in for vendor.lock's.
LEMMA PreviousSequence ==
  ASSUME ChannelInv, NEW previous \in Previous
  PROVE  KeptSequence(previous) \in 0..MaxLists
<1>1. CASE Published = {}
  BY <1>1, UpstreamAssumption DEF Previous, KeptSequence
<1>2. CASE Published # {}
  <2> PICK S : S = {tools[w].seq : w \in Published}
    OBVIOUS
  <2>1. S \in SUBSET (0..MaxLists) /\ S # {}
    BY <1>2, PublishedOffers DEF Published, Offers
  <2>2. Max(S) \in 0..MaxLists
    BY <2>1, MaxIsThere, UpstreamAssumption
  <2>3. PICK v \in Published : previous = [version |-> v, level |-> tools[v].level,
                                 signer |-> tools[v].signer, attestor |-> "vendor",
                                 seq |-> Max(S)]
    BY <1>2 DEF Previous
  <2>4. previous.seq = Max(S)
    BY <2>3
  <2> QED BY <2>2, <2>4, UpstreamAssumption DEF KeptSequence
<1> QED BY <1>1, <1>2

\* No index is torn whose writer has nothing to do.
LEMMA TornIsTyped == [tools |-> tools, alive |-> TRUE] # None
BY DEF None

\* What a step keeps that leaves the index and its signature alone, and the
\* artifacts of what is published.
LEMMA QuietStep ==
  ASSUME ChannelInv, UNCHANGED <<tools, torn>>,
         \A v \in Published : mirror'[v] = mirror[v]
  PROVE  Stays /\ Mirrored(tools)'
<1>1. \A v \in Versions : tools[v] # Unpublished => mirror'[v] = tools[v].upload
  BY DEF ChannelInv, Mirrored, Published
<1>2. torn # None => Extends(tools, torn.tools)
  BY DEF ChannelInv
<1>3. SignedTools' = SignedTools
  BY DEF SignedTools
<1> QED BY <1>1, <1>2, <1>3 DEF Stays, Mirrored, SignedTools, Extends

\* An index with everything the one before has takes its place, unsigned.
LEMMA RenameStep ==
  ASSUME ChannelInv, NEW new \in Index, torn = None, RenameIndex(new), publishing' = None,
         Extends(new, tools), Mirrored(new), UNCHANGED <<signed, release, lists, pin, now, mirror>>
  PROVE  ChannelInv' /\ Stays
<1>1. /\ tools' = new /\ torn' = [tools |-> tools, alive |-> TRUE]
      /\ torn' # None /\ torn'.tools = tools
  BY TornIsTyped DEF RenameIndex
<1>2. torn' \in [tools : Index, alive : BOOLEAN]
  BY <1>1 DEF ChannelInv
<1>3. SignedTools = tools /\ SignedTools' = tools
  BY <1>1 DEF SignedTools
<1>4. Stays
  BY <1>3 DEF Stays, ChannelInv, Mirrored
<1>5. Mirrored(tools)' /\ Extends(tools, torn.tools)'
  BY <1>1 DEF Mirrored, Extends
<1>6. UpstreamTyped' /\ Underpublication'
  BY DEF ChannelInv, UpstreamTyped, Underpublication
<1> QED BY <1>1, <1>2, <1>4, <1>5, <1>6 DEF ChannelInv

\* A step that changes one offer for one with the same upload.
LEMMA ChangeHolds ==
  ASSUME ChannelInv, NEW v \in Published, NEW new \in Offers, Change(v, new),
         new.upload = tools[v].upload
  PROVE  ChannelInv' /\ Stays
<1> PICK index : index = [tools EXCEPT ![v] = new]
  OBVIOUS
<1>1. /\ publishing = None /\ torn = None /\ RenameIndex(index)
      /\ UNCHANGED <<signed, release, lists, pin, now, mirror, publishing>>
  BY DEF Change, Loads, upstream
<1>2. v \in Versions /\ tools[v] # Unpublished /\ tools \in Index /\ Mirrored(tools)
  BY DEF ChannelInv, Published
<1>3. /\ index \in Index
      /\ \A w \in Versions : index[w] = IF w = v THEN new ELSE tools[w]
  BY <1>2 DEF Index
<1>4. Extends(index, tools) /\ Mirrored(index)
  BY <1>2, <1>3, NothingIsNone DEF Extends, Mirrored
<1> QED BY <1>1, <1>3, <1>4, RenameStep

\* Preparing a tool publishes nothing yet.
LEMMA PublishStep ==
  ASSUME ChannelInv, NEW listing \in Listings, NEW requested, NEW allow \in BOOLEAN,
         Publish(listing, requested, allow)
  PROVE  ChannelInv' /\ Stays
<1> PICK previous \in Previous : \E slip \in Resolved(previous, listing, requested, allow) :
      /\ slip.version \notin Published
      /\ publishing' = [slip |-> slip, version |-> slip.version, upload |-> slip.upload,
                        seq |-> Accepted(slip, previous, listing).seq, mirrored |-> FALSE]
  BY DEF Publish
<1> PICK slip \in Resolved(previous, listing, requested, allow) :
      /\ slip.version \notin Published
      /\ publishing' = [slip |-> slip, version |-> slip.version, upload |-> slip.upload,
                        seq |-> Accepted(slip, previous, listing).seq, mirrored |-> FALSE]
  OBVIOUS
<1>1. UNCHANGED <<signed, release, lists, pin, now, tools, mirror, torn>> /\ torn = None
  BY DEF Publish, Loads, upstream
<1>2. slip \in Packslips
  BY ResolvedIsReleased DEF ChannelInv
<1>3. Accepted(slip, previous, listing).seq \in 0..MaxLists
  <2>1. signed => listing.seq \in 0..MaxLists
    <3>1. Len(lists) \in Nat /\ Len(lists) <= MaxLists
      BY DEF ChannelInv, UpstreamTyped
    <3> QED BY <3>1, UpstreamAssumption DEF Listings
  <2> QED BY <2>1, PreviousSequence DEF Accepted
<1>4. slip.version \in Versions /\ slip.upload \in 1..2
  BY <1>2 DEF Packslips
<1>5. Underpublication'
  BY <1>1, <1>2, <1>3, <1>4 DEF Underpublication, Published
<1>6. UpstreamTyped' /\ Published' = Published
  BY <1>1 DEF ChannelInv, UpstreamTyped, Published
<1>7. Stays /\ Mirrored(tools)'
  BY <1>1, QuietStep
<1> QED BY <1>1, <1>5, <1>6, <1>7 DEF ChannelInv

\* The artifact of a version that is not published yet may be replaced.
LEMMA MirrorStep ==
  ASSUME ChannelInv, Mirror
  PROVE  ChannelInv' /\ Stays
<1> PICK p : p = publishing
  OBVIOUS
<1>1. /\ p # None /\ publishing' = [p EXCEPT !.mirrored = TRUE]
      /\ mirror' = [mirror EXCEPT ![p.version] = p.upload]
      /\ UNCHANGED <<signed, release, lists, pin, now, tools, torn>>
  BY DEF Mirror, upstream
<1>2. /\ p \in [slip : Packslips, version : Versions, upload : 1..2, seq : 0..MaxLists,
                mirrored : BOOLEAN]
      /\ p.version \notin Published
  BY <1>1 DEF ChannelInv, Underpublication
<1>3. /\ publishing' \in [slip : Packslips, version : Versions, upload : 1..2, seq : 0..MaxLists,
                          mirrored : BOOLEAN]
      /\ publishing'.version = p.version /\ publishing'.upload = p.upload
  BY <1>1, <1>2
<1>4. /\ mirror' \in [Versions -> 0..2] /\ mirror'[p.version] = p.upload
      /\ \A w \in Published : mirror'[w] = mirror[w]
  BY <1>1, <1>2 DEF ChannelInv, Published
<1>5. UpstreamTyped' /\ Published' = Published
  BY <1>1 DEF ChannelInv, UpstreamTyped, Published
<1>6. Underpublication'
  BY <1>2, <1>3, <1>4, <1>5 DEF Underpublication
<1>7. Stays /\ Mirrored(tools)'
  BY <1>1, <1>4, QuietStep
<1>8. torn = None
  BY <1>1 DEF ChannelInv
<1> QED BY <1>1, <1>4, <1>5, <1>6, <1>7, <1>8 DEF ChannelInv

\* The index that is renamed names a tool that is already mirrored.
LEMMA WriteIndexStep ==
  ASSUME ChannelInv, WriteIndex
  PROVE  ChannelInv' /\ Stays
<1> PICK p : p = publishing
  OBVIOUS
<1> PICK entry : entry = Entry(p)
  OBVIOUS
<1> PICK index : index = [tools EXCEPT ![p.version] = entry]
  OBVIOUS
<1>1. /\ p # None /\ p.mirrored /\ publishing' = None /\ RenameIndex(index)
      /\ UNCHANGED <<signed, release, lists, pin, now, mirror>>
  BY DEF WriteIndex, upstream
<1>2. /\ p \in [slip : Packslips, version : Versions, upload : 1..2, seq : 0..MaxLists,
                mirrored : BOOLEAN]
      /\ p.version \notin Published /\ mirror[p.version] = p.upload /\ torn = None
      /\ tools \in Index /\ Mirrored(tools)
  BY <1>1 DEF ChannelInv, Underpublication
<1>3. p.slip.level \in 0..3 /\ p.slip.signer \in Signers /\ p.slip.at \in 0..MaxTime
      /\ now \in 0..MaxTime
  BY <1>2 DEF Packslips, ChannelInv, UpstreamTyped
<1>4. entry \in Offers /\ entry.upload = p.upload
  BY <1>2, <1>3 DEF Entry, Offers
<1>5. /\ index \in Index
      /\ \A w \in Versions : index[w] = IF w = p.version THEN entry ELSE tools[w]
  BY <1>2, <1>4 DEF Index
<1>6. Extends(index, tools)
  BY <1>2, <1>5 DEF Extends, Published
<1>7. Mirrored(index)
  BY <1>2, <1>4, <1>5 DEF Mirrored
<1> QED BY <1>1, <1>2, <1>5, <1>6, <1>7, RenameStep

\* The signature follows its index, or the index before comes back.
LEMMA SignatureStep ==
  ASSUME ChannelInv, WriteSignature \/ SignatureFails
  PROVE  ChannelInv' /\ Stays
<1>1. /\ torn # None /\ torn' = None /\ tools' \in {tools, torn.tools}
      /\ UNCHANGED <<signed, release, lists, pin, now, mirror, publishing>>
  BY DEF WriteSignature, SignatureFails, upstream
<1>2. torn.tools \in Index /\ Extends(tools, torn.tools) /\ publishing = None /\ Mirrored(tools)
  BY <1>1 DEF ChannelInv
<1>3. Mirrored(torn.tools)
  BY <1>2 DEF Mirrored, Extends
<1>4. SignedTools = torn.tools /\ SignedTools' = tools'
  BY <1>1 DEF SignedTools
<1>5. Stays
  BY <1>1, <1>2, <1>3, <1>4 DEF Stays, Mirrored, Extends
<1>6. tools' \in Index /\ Mirrored(tools)'
  BY <1>1, <1>2, <1>3 DEF ChannelInv, Mirrored
<1>7. UpstreamTyped' /\ Underpublication'
  BY <1>1, <1>2 DEF ChannelInv, UpstreamTyped, Underpublication
<1> QED BY <1>1, <1>5, <1>6, <1>7 DEF ChannelInv

\* A command that dies, or a verdict that is added, leaves the index alone.
LEMMA DeathStep ==
  ASSUME ChannelInv, PublisherDies \/ \E v \in Versions, upload \in 1..2 : Block(v, upload)
  PROVE  ChannelInv' /\ Stays
<1>1. /\ UNCHANGED <<signed, release, lists, pin, now, tools, mirror>>
      /\ publishing' \in {None, publishing}
      /\ torn' # torn => torn # None /\ torn' = [torn EXCEPT !.alive = FALSE]
  BY DEF PublisherDies, Block, upstream
<1>2. torn # None => torn \in [tools : Index, alive : BOOLEAN] /\ publishing = None
  BY DEF ChannelInv
<1>3. torn # None =>
        torn' # None /\ torn' \in [tools : Index, alive : BOOLEAN] /\ torn'.tools = torn.tools
  BY <1>1, <1>2 DEF None
<1>4. SignedTools' = SignedTools
  BY <1>1, <1>3 DEF SignedTools
<1>5. Stays
  <2>1. \A v \in Versions : SignedTools[v] # Unpublished => mirror[v] = SignedTools[v].upload
    BY DEF ChannelInv, Mirrored, Extends, SignedTools
  <2> QED BY <1>1, <1>4, <2>1 DEF Stays
<1>6. UpstreamTyped' /\ Underpublication'
  BY <1>1 DEF ChannelInv, UpstreamTyped, Underpublication, Published
<1>7. (torn # None => /\ torn \in [tools : Index, alive : BOOLEAN] /\ Extends(tools, torn.tools)
                     /\ publishing = None)'
  BY <1>1, <1>2, <1>3 DEF ChannelInv, Extends
<1> QED BY <1>1, <1>5, <1>6, <1>7 DEF ChannelInv, Mirrored

\* Every step keeps the channel's invariant, and what is published.
LEMMA ChannelStep ==
  ASSUME ChannelInv, [ChannelNext \/ (VendorActs /\ UNCHANGED channel)]_<<upstream, channel>>
  PROVE  ChannelInv' /\ Stays
<1>1. CASE UNCHANGED <<upstream, channel>>
  <2>1. UNCHANGED <<signed, release, lists, pin, now, tools, mirror, torn, publishing>>
    BY <1>1 DEF upstream, channel
  <2>2. UpstreamTyped' /\ Underpublication'
    BY <2>1 DEF ChannelInv, UpstreamTyped, Underpublication, Published
  <2>3. Stays /\ Mirrored(tools)'
    BY <2>1, QuietStep
  <2> QED BY <2>1, <2>2, <2>3 DEF ChannelInv
<1>2. CASE VendorActs /\ UNCHANGED channel
  <2>1. UNCHANGED <<tools, mirror, torn, publishing>>
    BY <1>2 DEF channel
  <2>2. UpstreamTyped' /\ Underpublication'
    BY <1>2, <2>1, VendorKeepsShape DEF ChannelInv, Underpublication, Published
  <2>3. Stays /\ Mirrored(tools)'
    BY <2>1, QuietStep
  <2> QED BY <2>1, <2>2, <2>3 DEF ChannelInv
<1>3. ASSUME NEW listing \in Listings, NEW requested \in Versions \cup {0}, NEW allow \in BOOLEAN,
             Publish(listing, requested, allow)
      PROVE  ChannelInv' /\ Stays
  BY <1>3, PublishStep
<1>4. CASE Mirror
  BY <1>4, MirrorStep
<1>5. CASE WriteIndex
  BY <1>5, WriteIndexStep
<1>6. ASSUME NEW v \in Versions, NEW to \in Channels, PromoteTool(v, to)
      PROVE  ChannelInv' /\ Stays
  <2> PICK new : new = [tools[v] EXCEPT !.channels = @ \cup {to}]
    OBVIOUS
  <2>1. v \in Published /\ tools[v] \in Offers /\ Change(v, new)
    BY <1>6, PublishedOffers DEF PromoteTool
  <2>2. new \in Offers /\ new.upload = tools[v].upload
    BY <2>1 DEF Offers
  <2> QED BY <2>1, <2>2, ChangeHolds
<1>7. ASSUME NEW v \in Versions, HoldTool(v) \/ UnholdTool(v) PROVE ChannelInv' /\ Stays
  <2>1. PICK held \in BOOLEAN : v \in Published /\ Change(v, [tools[v] EXCEPT !.held = held])
    BY <1>7 DEF HoldTool, UnholdTool
  <2> PICK new : new = [tools[v] EXCEPT !.held = held]
    OBVIOUS
  <2>2. tools[v] \in Offers /\ Change(v, new)
    BY <2>1, PublishedOffers DEF Published
  <2>3. new \in Offers /\ new.upload = tools[v].upload
    BY <2>2 DEF Offers
  <2> QED BY <2>1, <2>2, <2>3, ChangeHolds
<1>8. CASE WriteSignature \/ SignatureFails
  BY <1>8, SignatureStep
<1>9. CASE PublisherDies \/ \E v \in Versions, upload \in 1..2 : Block(v, upload)
  BY <1>9, DeathStep
<1> QED BY <1>1, <1>2, <1>3, <1>4, <1>5, <1>6, <1>7, <1>8, <1>9 DEF ChannelNext

\* The invariant of the tool channel holds throughout.
LEMMA ChannelHolds == ChannelSpec => []ChannelInv
<1>1. UpstreamInit /\ ChannelInit => ChannelInv
  BY UpstreamStarts DEF ChannelInit, ChannelInv, Index, Mirrored, Underpublication
<1>2. ChannelInv /\ [ChannelNext \/ (VendorActs /\ UNCHANGED channel)]_<<upstream, channel>>
        => ChannelInv'
  BY ChannelStep
<1> QED BY <1>1, <1>2, PTL DEF ChannelSpec

\* Whatever the vendor uploads again, and whatever change died in its writes,
\* the mirror has the artifact the signed index names, and the name stays
\* (tool_channel.rs).
THEOREM PublishedStays == ChannelSpec => PublishedIsImmutable
<1>1. ChannelInv /\ [ChannelNext \/ (VendorActs /\ UNCHANGED channel)]_<<upstream, channel>>
        => [\A v \in Versions :
              SignedTools[v] # Unpublished =>
                 /\ SignedTools'[v].upload = SignedTools[v].upload
                 /\ mirror'[v] = SignedTools[v].upload]_channel
  BY ChannelStep DEF Stays
<1> QED BY <1>1, ChannelHolds, PTL DEF ChannelSpec, PublishedIsImmutable
-----------------------------------------------------------------------------
(* The gate of the AUR mirror.                                             *)

Feeds == {f \in Seq(Verdicts) : Len(f) <= MaxVerdicts}
Reviewed == [at : {"reviewed", "loaded"}, verdict : Verdicts, feed : Feeds, auto : BOOLEAN,
             state : Merges \cup {Unmerged}]
Recorded == [at : {"logged"}, auto : BOOLEAN, state : Merges \cup {Unmerged}]

GateTyped ==
  /\ commits \in Seq(CommitType) /\ head \in 1..Len(commits) /\ Len(commits) <= MaxCommits
  /\ merged \in Merges \cup {Unmerged}
  /\ feed \in Feeds
  /\ run \in [Runs -> Reviewed \cup Recorded \cup {NoRun}]
  /\ seeded \subseteq Commits

\* What a human merged, or what was merged or is about to be with a recipe that
\* a human merged.
HasCommit(state) ==
  state # Unmerged => /\ state.commit \in 1..Len(commits)
                      /\ commits[state.commit].recipe \in seeded

GateInv ==
  /\ GateTyped
  /\ HasCommit(merged)
  /\ \A r \in Runs : run[r] # NoRun => HasCommit(run[r].state)

\* Only one process runs the gate, or adds verdicts.
OneGate == \A r, s \in Runs : r = s

\* A run that merges by itself has decided to pass the commit, what it has
\* loaded of the feed is still in it, and so is what it has written.
Passing(r) ==
  /\ run[r] \in Reviewed /\ run[r].auto =>
       /\ run[r].verdict.commit = run[r].state.commit
       /\ run[r].verdict.verdict = "pass"
  /\ run[r].at = "loaded" =>
       \A i \in DOMAIN run[r].feed : \E j \in DOMAIN feed : feed[j] = run[r].feed[i]
  /\ run[r] \in Recorded /\ run[r].auto =>
       \E i \in DOMAIN feed : feed[i].commit = run[r].state.commit /\ feed[i].verdict = "pass"

PassInv == GateInv /\ \A r \in Runs : Passing(r)

GateSpec == GateInit /\ [][GateNext]_gate

\* The states of a run are told apart.
LEMMA RunsAreApart ==
  /\ NoRun \notin Reviewed /\ NoRun \notin Recorded
  /\ \A x \in Reviewed : x \notin Recorded /\ x.at # "logged" /\ x.at # "idle"
  /\ \A x \in Recorded : x \notin Reviewed /\ x.at = "logged"
  /\ NoRun.at = "idle"
BY DEF NoRun, Reviewed, Recorded

\* What a review finds has an id.
LEMMA FindingsHaveIds ==
  ASSUME NEW state, NEW c, NEW world
  PROVE  GateReport(state, c, world) \in SUBSET FindingId
<1> PICK e : e = Evidence(state, c, world)
  OBVIOUS
<1>0. e.recipe.hits = {}
  BY DEF Evidence
<1>1. OfRpc(e) \subseteq FindingId
  BY DEF OfRpc, FindingId
<1>2. OfTarget(e) \subseteq FindingId
  BY DEF OfTarget, FindingId
<1>3. OfRecipe(e) \subseteq FindingId
  BY <1>0 DEF OfRecipe, FindingId
<1>4. OfReviewers(e) \subseteq FindingId
  BY DEF OfReviewers, FindingId
<1>5. GateReport(state, c, world) = OfRpc(e) \cup OfTarget(e) \cup OfRecipe(e) \cup OfReviewers(e)
  BY DEF GateReport, Evaluate
<1> QED BY <1>1, <1>2, <1>3, <1>4, <1>5

\* What a review makes of the head: a verdict on it and the state that it will
\* write; when that is the head, the recipe is the one that was merged.
LEMMA ReviewedIsSeeded ==
  ASSUME GateInv, NEW r \in Runs, NEW world \in Worlds, Review(r, world)
  PROVE  \E new \in Reviewed :
           /\ run' = [run EXCEPT ![r] = new] /\ new.at = "reviewed"
           /\ HasCommit(new.state)
           /\ new.auto => new.verdict.commit = new.state.commit /\ new.verdict.verdict = "pass"
<1> PICK report : report = GateReport(merged, head, world)
  OBVIOUS
<1> PICK outcome : outcome = Outcome(merged, head, report, world)
  OBVIOUS
<1> PICK verdict : verdict = StaticVerdict(head, outcome, report)
  OBVIOUS
<1> PICK state : state = IF outcome = "auto-merge"
                         THEN [commit |-> head, maintainer |-> world.maintainer] ELSE merged
  OBVIOUS
<1> PICK new : new = [at |-> "reviewed", verdict |-> verdict, feed |-> <<>>,
                      auto |-> (outcome = "auto-merge"), state |-> state]
  OBVIOUS
<1>1. run' = [run EXCEPT ![r] = new]
  BY DEF Review
<1>a. new.at = "reviewed" /\ new.verdict = verdict /\ new.feed = <<>> /\ new.state = state
  OBVIOUS
<1>b. new.auto \in BOOLEAN /\ (new.auto <=> outcome = "auto-merge")
  BY Zenon
<1>2. head \in Commits /\ head \in 1..Len(commits)
  BY GateAssumption DEF GateInv, GateTyped, Commits
<1>3. /\ verdict \in Verdicts /\ verdict.commit = head
      /\ outcome = "auto-merge" => verdict.verdict = "pass"
  BY <1>2, FindingsHaveIds DEF StaticVerdict, Verdicts
<1>4. state \in Merges \cup {Unmerged}
  BY <1>2 DEF GateInv, GateTyped, Merges, Worlds
<1>5. HasCommit(state) /\ (outcome = "auto-merge" => state.commit = head)
  <2>1. CASE outcome = "auto-merge"
    <3>1. merged # Unmerged /\ commits[merged.commit].recipe = commits[head].recipe
      BY <2>1 DEF Outcome, PureBump, DiffIsBump
    <3>2. commits[head].recipe \in seeded
      BY <3>1 DEF GateInv, HasCommit
    <3> QED BY <1>2, <2>1, <3>2 DEF HasCommit
  <2>2. CASE outcome # "auto-merge"
    BY <2>2 DEF GateInv
  <2> QED BY <2>1, <2>2
<1>6. <<>> \in Feeds
  BY GateAssumption DEF Feeds
<1>7. new \in Reviewed
  BY <1>3, <1>4, <1>6 DEF Reviewed
<1> QED BY <1>1, <1>3, <1>5, <1>7, <1>a, <1>b

\* What is left to show of a step of the gate: commits and seeds only grow.
LEMMA SeededStays ==
  ASSUME GateInv, GateTyped',
         \A i \in 1..Len(commits) : i \in 1..Len(commits') /\ commits'[i] = commits[i],
         seeded \subseteq seeded',
         \/ HasCommit(merged)' \/ merged' = merged
         \/ \E r \in Runs : run[r] # NoRun /\ merged' = run[r].state,
         \A r \in Runs : \/ run'[r] = NoRun \/ HasCommit(run'[r].state)
                         \/ run[r] # NoRun /\ run'[r].state = run[r].state
  PROVE  GateInv'
<1>1. ASSUME NEW state, HasCommit(state)
      PROVE  HasCommit(state)'
  BY <1>1 DEF HasCommit
<1>2. HasCommit(merged)'
  <2> PICK m : m = merged'
    OBVIOUS
  <2>1. HasCommit(m)' => HasCommit(merged)'
    BY DEF HasCommit
  <2> QED BY <1>1, <2>1 DEF GateInv
<1>3. ASSUME NEW r \in Runs, run'[r] # NoRun PROVE HasCommit(run[r].state)'
  <2> PICK s : s = run'[r].state
    OBVIOUS
  <2>1. HasCommit(s)' => HasCommit(run[r].state)'
    BY DEF HasCommit
  <2> QED BY <1>1, <1>3, <2>1 DEF GateInv
<1> QED BY <1>2, <1>3 DEF GateInv

\* A commit is appended: it has what the branch had, with one thing changed.
LEMMA PushStep ==
  ASSUME GateInv, NEW change \in {"bump", "skip", "script", "recipe"}, Push(change)
  PROVE  GateInv'
<1> PICK h \in CommitType : h = commits[head]
  BY DEF GateInv, GateTyped
<1> PICK new : commits' = Append(commits, new) /\ new \in CommitType
  <2> PICK new : new = CASE change = "bump" -> h
           [] change = "skip" -> [h EXCEPT !.skipped = TRUE]
           [] change = "script" -> [h EXCEPT !.scripts = {"install"}]
           [] change = "recipe" -> [h EXCEPT !.recipe = Len(commits) + 1]
    OBVIOUS
  <2>1. Len(commits) + 1 \in Commits
    BY GateAssumption DEF Push, Commits, GateInv, GateTyped
  <2>2. new \in CommitType
    <3>1. CASE change = "bump"
      BY <3>1
    <3>2. CASE change = "skip"
      BY <3>2 DEF CommitType
    <3>3. CASE change = "script"
      BY <3>3 DEF CommitType
    <3>4. CASE change = "recipe"
      BY <2>1, <3>4 DEF CommitType
    <3> QED BY <3>1, <3>2, <3>3, <3>4
  <2>3. commits' = Append(commits, new)
    BY DEF Push
  <2> QED BY <2>2, <2>3
<1>1. /\ commits' \in Seq(CommitType) /\ Len(commits') = Len(commits) + 1
      /\ \A i \in 1..Len(commits) : i \in 1..Len(commits') /\ commits'[i] = commits[i]
  BY AppendProperties DEF GateInv, GateTyped
<1>2. head' = Len(commits') /\ Len(commits) < MaxCommits /\ UNCHANGED <<merged, feed, run, seeded>>
  BY DEF Push, rest
<1>3. GateTyped'
  <2>1. head' \in 1..Len(commits') /\ Len(commits') <= MaxCommits
    BY <1>1, <1>2, GateAssumption DEF GateInv, GateTyped
  <2> QED BY <1>1, <1>2, <2>1 DEF GateInv, GateTyped
<1> QED BY <1>1, <1>2, <1>3, SeededStays DEF GateInv

\* The run of r takes one step, and has the state it had.
LEMMA RunStep ==
  ASSUME GateInv, NEW r \in Runs, NEW new \in Reviewed \cup Recorded \cup {NoRun},
         run' = [run EXCEPT ![r] = new], UNCHANGED <<commits, head, seeded>>,
         feed' \in Feeds,
         \/ merged' = merged
         \/ run[r] # NoRun /\ merged' = run[r].state,
         \/ new = NoRun \/ HasCommit(new.state)
         \/ run[r] # NoRun /\ new.state = run[r].state
  PROVE  GateInv'
<1>1. \A s \in Runs : run'[s] = IF s = r THEN new ELSE run[s]
  BY DEF GateInv, GateTyped
<1>2. merged' \in Merges \cup {Unmerged}
  BY DEF GateInv, GateTyped, Reviewed, Recorded
<1>3. run' \in [Runs -> Reviewed \cup Recorded \cup {NoRun}]
  BY DEF GateInv, GateTyped
<1>4. GateTyped'
  BY <1>2, <1>3 DEF GateInv, GateTyped
<1>5. \A s \in Runs : \/ run'[s] = NoRun \/ HasCommit(run'[s].state)
                      \/ run[s] # NoRun /\ run'[s].state = run[s].state
  BY <1>1
<1> QED BY <1>4, <1>5, SeededStays DEF GateInv

\* What a run has at each step.
LEMMA RunSteps ==
  ASSUME GateInv, NEW r \in Runs
  PROVE  /\ run[r].at = "reviewed" => run[r] \in Reviewed
         /\ run[r].at = "loaded" => run[r] \in Reviewed
         /\ run[r].at = "logged" => run[r] \in Recorded
         /\ run[r] # NoRun => run[r].state \in Merges \cup {Unmerged}
BY RunsAreApart DEF GateInv, GateTyped, Reviewed, Recorded

\* A feed is loaded.
LEMMA LoadedIs ==
  ASSUME GateInv, NEW r \in Runs, LoadFeed(r)
  PROVE  \E new \in Reviewed :
           /\ run[r] \in Reviewed /\ run' = [run EXCEPT ![r] = new]
           /\ new.at = "loaded" /\ new.feed = feed
           /\ new.verdict = run[r].verdict /\ new.auto = run[r].auto /\ new.state = run[r].state
<1> PICK x \in Reviewed : x = run[r] /\ x.at = "reviewed"
  BY RunSteps DEF LoadFeed
<1> PICK new : new = [x EXCEPT !.at = "loaded", !.feed = feed]
  OBVIOUS
<1>1. new \in Reviewed /\ new.at = "loaded" /\ new.feed = feed
      /\ new.verdict = x.verdict /\ new.auto = x.auto /\ new.state = x.state
  BY DEF Reviewed, GateInv, GateTyped
<1>2. run' = [run EXCEPT ![r] = new]
  <2>1. run' = [run EXCEPT ![r].at = "loaded", ![r].feed = feed]
    BY DEF LoadFeed
  <2> QED BY <2>1 DEF GateInv, GateTyped
<1> QED BY <1>1, <1>2

\* A verdict is written, with the feed as it was loaded.
LEMMA AppendedIs ==
  ASSUME GateInv, NEW r \in Runs, AppendVerdict(r)
  PROVE  \E new \in Recorded :
           /\ run[r] \in Reviewed /\ run[r].at = "loaded" /\ run' = [run EXCEPT ![r] = new]
           /\ new.auto = run[r].auto /\ new.state = run[r].state
           /\ \/ feed' = feed /\ \E i \in DOMAIN run[r].feed : run[r].feed[i] = run[r].verdict
              \/ feed' = Append(run[r].feed, run[r].verdict)
           /\ feed' \in Feeds
<1> PICK x \in Reviewed : x = run[r] /\ x.at = "loaded"
  BY RunSteps DEF AppendVerdict
<1> PICK new : new = [at |-> "logged", auto |-> x.auto, state |-> x.state]
  OBVIOUS
<1>1. new \in Recorded /\ run' = [run EXCEPT ![r] = new]
  BY DEF AppendVerdict, Recorded, Reviewed
<1>2. x.feed \in Seq(Verdicts) /\ Len(x.feed) <= MaxVerdicts /\ x.verdict \in Verdicts
  BY DEF Reviewed, Feeds
<1>3. \/ feed' = feed /\ x.verdict \in ToSet(x.feed)
      \/ feed' = Append(x.feed, x.verdict) /\ Len(x.feed) < MaxVerdicts
  BY DEF AppendVerdict
<1>4. x.verdict \in ToSet(x.feed) => \E i \in DOMAIN x.feed : x.feed[i] = x.verdict
  BY DEF ToSet
<1>5. feed' \in Feeds
  <2> PICK f \in Seq(Verdicts), v \in Verdicts : f = x.feed /\ v = x.verdict
    BY <1>2
  <2>1. Append(f, v) \in Seq(Verdicts) /\ Len(Append(f, v)) = Len(f) + 1
    BY AppendProperties
  <2>2. Len(f) < MaxVerdicts => Append(f, v) \in Feeds
    BY <2>1, GateAssumption DEF Feeds
  <2> QED BY <1>3, <2>2 DEF GateInv, GateTyped
<1> QED BY <1>1, <1>3, <1>4, <1>5

\* Every step of the gate keeps the invariant of its runs and its feed.
LEMMA GateStep ==
  ASSUME GateInv, [GateNext]_gate
  PROVE  GateInv'
<1>0. feed \in Feeds
  BY DEF GateInv, GateTyped
<1>1. CASE UNCHANGED gate
  BY <1>1 DEF gate, GateInv, GateTyped, HasCommit
<1>2. ASSUME NEW change \in {"bump", "skip", "script", "recipe"}, Push(change) PROVE GateInv'
  BY <1>2, PushStep
<1>3. ASSUME NEW c \in Commits, PushBack(c) PROVE GateInv'
  BY <1>3, GateAssumption DEF PushBack, rest, GateInv, GateTyped, HasCommit, Commits
<1>4. ASSUME NEW m \in Maintainers, Seed({m}) PROVE GateInv'
  <2>1. /\ merged' = [commit |-> head, maintainer |-> {m}]
        /\ seeded' = seeded \cup {commits[head].recipe}
        /\ UNCHANGED <<commits, head, feed, run>>
    BY <1>4 DEF Seed
  <2>2. head \in 1..Len(commits) /\ head \in Commits
    BY GateAssumption DEF GateInv, GateTyped, Commits
  <2>3. merged' \in Merges
    BY <2>1, <2>2 DEF Merges
  <2>4. commits[head] \in CommitType
    BY <2>2 DEF GateInv, GateTyped
  <2>5. commits[head].recipe \in Commits
    BY <2>4 DEF CommitType
  <2>6. GateTyped' /\ HasCommit(merged)'
    BY <2>1, <2>2, <2>3, <2>5 DEF GateInv, GateTyped, HasCommit
  <2> QED BY <2>1, <2>6, SeededStays
<1>5. ASSUME NEW r \in Runs, NEW world \in Worlds, Review(r, world) PROVE GateInv'
  <2>1. PICK new \in Reviewed : run' = [run EXCEPT ![r] = new] /\ HasCommit(new.state)
    BY <1>5, ReviewedIsSeeded
  <2>2. UNCHANGED <<commits, head, merged, feed, seeded>>
    BY <1>5 DEF Review
  <2> QED BY <1>0, <2>1, <2>2, RunStep
<1>6. ASSUME NEW r \in Runs, LoadFeed(r) PROVE GateInv'
  <2>1. PICK new \in Reviewed : /\ run[r] \in Reviewed /\ run' = [run EXCEPT ![r] = new]
                                /\ new.state = run[r].state
    BY <1>6, LoadedIs
  <2>2. UNCHANGED <<commits, head, merged, feed, seeded>>
    BY <1>6 DEF LoadFeed
  <2> QED BY <1>0, <2>1, <2>2, RunStep, RunsAreApart
<1>7. ASSUME NEW r \in Runs, AppendVerdict(r) PROVE GateInv'
  <2>1. PICK new \in Recorded : /\ run[r] \in Reviewed /\ run' = [run EXCEPT ![r] = new]
                              /\ new.state = run[r].state /\ feed' \in Feeds
    BY <1>7, AppendedIs
  <2>2. UNCHANGED <<commits, head, merged, seeded>>
    BY <1>7 DEF AppendVerdict
  <2> QED BY <2>1, <2>2, RunStep, RunsAreApart
<1>8. ASSUME NEW r \in Runs, WriteState(r) PROVE GateInv'
  <2>1. /\ merged' = run[r].state /\ run' = [run EXCEPT ![r] = NoRun] /\ run[r] # NoRun
        /\ UNCHANGED <<commits, head, feed, seeded>>
    BY <1>8, RunsAreApart DEF WriteState
  <2> QED BY <1>0, <2>1, RunStep
<1>9. ASSUME NEW r \in Runs, GateDies(r) PROVE GateInv'
  BY <1>0, <1>9, RunStep DEF GateDies
<1>10. CASE AddVerdict("block")
  <2> PICK v : v = [commit |-> head, reviewer |-> "human", verdict |-> "block", findings |-> {}]
    OBVIOUS
  <2>1. /\ feed' = Append(feed, v) /\ Len(feed) < MaxVerdicts
        /\ UNCHANGED <<commits, head, merged, run, seeded>>
    BY <1>10 DEF AddVerdict
  <2>2. v \in Verdicts
    BY GateAssumption DEF Verdicts, Commits, GateInv, GateTyped
  <2>3. feed' \in Feeds
    BY <2>1, <2>2, AppendProperties, GateAssumption DEF GateInv, GateTyped, Feeds
  <2>4. GateTyped'
    BY <2>1, <2>3 DEF GateInv, GateTyped
  <2> QED BY <2>1, <2>4, SeededStays DEF GateInv
<1> QED BY <1>1, <1>2, <1>3, <1>4, <1>5, <1>6, <1>7, <1>8, <1>9, <1>10 DEF GateNext

\* The invariant of the gate holds at first.
LEMMA GateStarts == GateInit => GateInv
<1> SUFFICES ASSUME GateInit PROVE GateInv
  OBVIOUS
<1> PICK c : c = [recipe |-> 1, scripts |-> {}, skipped |-> FALSE]
  OBVIOUS
<1>1. c \in CommitType /\ commits = <<c>> /\ head = 1 /\ merged = Unmerged /\ feed = <<>>
      /\ run = [r \in Runs |-> NoRun] /\ seeded = {}
  BY GateAssumption DEF GateInit, CommitType, Commits
<1>2. commits \in Seq(CommitType) /\ Len(commits) = 1
  BY <1>1
<1>3. GateTyped
  BY <1>1, <1>2, GateAssumption DEF GateTyped, Feeds
<1> QED BY <1>1, <1>3 DEF GateInv, HasCommit

\* However many processes run the gate.
THEOREM MergesAreSeeded == GateSpec => []MergedRecipeIsSeeded
<1>1. GateInv /\ [GateNext]_gate => GateInv'
  BY GateStep
<1>2. GateInv => MergedRecipeIsSeeded
  BY DEF GateInv, HasCommit, MergedRecipeIsSeeded
<1> QED BY <1>1, <1>2, GateStarts, PTL DEF GateSpec

\* A verdict stays in the feed when it is what it was and one more.
LEMMA PassingStays ==
  ASSUME PassInv, NEW s \in Runs, run'[s] = run[s],
         \A i \in DOMAIN feed : \E j \in DOMAIN feed' : feed'[j] = feed[i]
  PROVE  Passing(s)'
<1>1. run[s].at = "loaded" => run[s] \in Reviewed
  BY RunSteps DEF PassInv
<1>2. \A i \in DOMAIN feed : \E j \in DOMAIN feed' : feed'[j] = feed[i]
  OBVIOUS
<1>3. Passing(s)
  BY DEF PassInv
<1>4. run'[s].at = "loaded" =>
        \A i \in DOMAIN run[s].feed : \E j \in DOMAIN feed' : feed'[j] = run[s].feed[i]
  BY <1>2, <1>3 DEF Passing
<1>5. run[s] \in Recorded /\ run[s].auto =>
        \E i \in DOMAIN feed' : feed'[i].commit = run[s].state.commit /\ feed'[i].verdict = "pass"
  BY <1>2, <1>3 DEF Passing
<1> QED BY <1>3, <1>4, <1>5 DEF Passing, Reviewed, Recorded

\* With one process, what a run is about to merge was passed.
LEMMA PassStep ==
  ASSUME OneGate, PassInv, [GateNext]_gate
  PROVE  PassInv'
<1>0. GateInv /\ GateInv'
  BY GateStep DEF PassInv
<1>1. ASSUME feed' = feed, run' = run PROVE PassInv'
  <2>1. \A i \in DOMAIN feed : \E j \in DOMAIN feed' : feed'[j] = feed[i]
    BY <1>1
  <2> QED BY <1>0, <1>1, <2>1, PassingStays DEF PassInv
<1>2. ASSUME NEW r \in Runs, NEW world \in Worlds, Review(r, world) PROVE PassInv'
  <2>1. PICK new \in Reviewed :
           /\ run' = [run EXCEPT ![r] = new] /\ new.at = "reviewed"
           /\ new.auto => new.verdict.commit = new.state.commit /\ new.verdict.verdict = "pass"
    BY <1>0, <1>2, ReviewedIsSeeded
  <2>2. run'[r] = new
    BY <1>0, <2>1 DEF GateInv, GateTyped
  <2>3. Passing(r)'
    BY <2>1, <2>2, RunsAreApart DEF Passing, Reviewed, Recorded
  <2> QED BY <1>0, <2>3 DEF PassInv, OneGate
<1>3. ASSUME NEW r \in Runs, LoadFeed(r) PROVE PassInv'
  <2>1. PICK new \in Reviewed :
           /\ run[r] \in Reviewed /\ run' = [run EXCEPT ![r] = new]
           /\ new.at = "loaded" /\ new.feed = feed
           /\ new.verdict = run[r].verdict /\ new.auto = run[r].auto /\ new.state = run[r].state
    BY <1>0, <1>3, LoadedIs
  <2>2. run'[r] = new /\ feed' = feed
    BY <1>0, <1>3, <2>1 DEF GateInv, GateTyped, LoadFeed
  <2>3. Passing(r)
    BY DEF PassInv
  <2>4. new.auto => new.verdict.commit = new.state.commit /\ new.verdict.verdict = "pass"
    BY <2>1, <2>3 DEF Passing
  <2>5. new \notin Recorded
    BY RunsAreApart
  <2>6. \A i \in DOMAIN new.feed : \E j \in DOMAIN feed : feed[j] = new.feed[i]
    BY <2>1
  <2>7. Passing(r)'
    BY <2>2, <2>4, <2>5, <2>6 DEF Passing, Reviewed, Recorded
  <2> QED BY <1>0, <2>7 DEF PassInv, OneGate
<1>4. ASSUME NEW r \in Runs, AppendVerdict(r) PROVE PassInv'
  <2>1. PICK new \in Recorded :
           /\ run[r] \in Reviewed /\ run[r].at = "loaded" /\ run' = [run EXCEPT ![r] = new]
           /\ new.auto = run[r].auto /\ new.state = run[r].state
           /\ \/ feed' = feed /\ \E i \in DOMAIN run[r].feed : run[r].feed[i] = run[r].verdict
              \/ feed' = Append(run[r].feed, run[r].verdict)
    BY <1>0, <1>4, AppendedIs
  <2>2. run'[r] = new
    BY <1>0, <2>1 DEF GateInv, GateTyped
  <2> PICK f \in Seq(Verdicts), v \in Verdicts : f = run[r].feed /\ v = run[r].verdict
    BY <2>1 DEF Reviewed, Feeds
  <2>3. Passing(r)
    BY DEF PassInv
  <2>4. \E j \in DOMAIN feed' : feed'[j] = v
    <3>1. CASE feed' = feed /\ \E i \in DOMAIN f : f[i] = v
      BY <2>1, <2>3, <3>1 DEF Passing
    <3>2. CASE feed' = Append(f, v)
      <4>1. Len(Append(f, v)) \in DOMAIN Append(f, v) /\ Append(f, v)[Len(Append(f, v))] = v
        BY AppendProperties
      <4> QED BY <3>2, <4>1
    <3> QED BY <2>1, <3>1, <3>2
  <2>5. new.auto => v.commit = new.state.commit /\ v.verdict = "pass"
    BY <2>1, <2>3 DEF Passing
  <2>6. new \notin Reviewed /\ new.at # "loaded"
    BY RunsAreApart DEF Recorded
  <2>7. Passing(r)'
    BY <2>2, <2>4, <2>5, <2>6 DEF Passing, Reviewed, Recorded
  <2> QED BY <1>0, <2>7 DEF PassInv, OneGate
<1>5. ASSUME NEW r \in Runs, run' = [run EXCEPT ![r] = NoRun] PROVE PassInv'
  <2>1. run'[r] = NoRun
    BY <1>0, <1>5 DEF GateInv, GateTyped
  <2>2. NoRun \notin Reviewed /\ NoRun \notin Recorded /\ NoRun.at # "loaded"
    BY RunsAreApart
  <2>3. Passing(r)'
    BY <2>1, <2>2 DEF Passing, Reviewed, Recorded
  <2> QED BY <1>0, <2>3 DEF PassInv, OneGate
<1>6. CASE AddVerdict("block")
  <2> PICK v : v = [commit |-> head, reviewer |-> "human", verdict |-> "block", findings |-> {}]
    OBVIOUS
  <2>1. feed' = Append(feed, v) /\ run' = run
    BY <1>6 DEF AddVerdict
  <2>2. v \in Verdicts
    BY <1>0, GateAssumption DEF Verdicts, Commits, GateInv, GateTyped
  <2>3. \A i \in DOMAIN feed : \E j \in DOMAIN feed' : feed'[j] = feed[i]
    <3> PICK f \in Seq(Verdicts) : f = feed
      BY <1>0 DEF GateInv, GateTyped, Feeds
    <3>1. \A i \in 1..Len(f) : i \in 1..Len(Append(f, v)) /\ Append(f, v)[i] = f[i]
      BY <2>2, AppendProperties
    <3>2. DOMAIN f = 1..Len(f) /\ DOMAIN Append(f, v) = 1..Len(Append(f, v))
      BY <2>2, AppendProperties
    <3> QED BY <2>1, <3>1, <3>2
  <2> QED BY <1>0, <2>1, <2>3, PassingStays DEF PassInv
<1>7. CASE UNCHANGED gate
  BY <1>1, <1>7 DEF gate
<1>8. ASSUME NEW change \in {"bump", "skip", "script", "recipe"}, Push(change) PROVE PassInv'
  BY <1>1, <1>8 DEF Push, rest
<1>9. ASSUME NEW c \in Commits, PushBack(c) PROVE PassInv'
  BY <1>1, <1>9 DEF PushBack, rest
<1>10. ASSUME NEW m \in Maintainers, Seed({m}) PROVE PassInv'
  BY <1>1, <1>10 DEF Seed
<1>11. ASSUME NEW r \in Runs, WriteState(r) \/ GateDies(r) PROVE PassInv'
  BY <1>5, <1>11 DEF WriteState, GateDies
<1> QED BY <1>2, <1>3, <1>4, <1>6, <1>7, <1>8, <1>9, <1>10, <1>11 DEF GateNext

\* What the gate merges by itself has a passing verdict that clients can see,
\* wherever the gate dies, as long as one process at a time runs it: the feed
\* has no lock (verdict.rs), and another run's writing takes the verdict away.
THEOREM MergesPass ==
  ASSUME OneGate
  PROVE  GateSpec => MergesWerePassed
<1>1. GateInit => PassInv
  <2>1. GateInit => \A r \in Runs : Passing(r)
    BY RunsAreApart DEF GateInit, Passing, Reviewed, Recorded
  <2> QED BY <2>1, GateStarts DEF PassInv
<1>2. PassInv /\ [GateNext]_gate => PassInv'
  BY PassStep
<1>3. PassInv /\ [GateNext]_gate =>
        [\A r \in Runs :
           run[r] # NoRun /\ run'[r] = NoRun /\ merged' # merged /\ run[r].auto =>
           \E i \in DOMAIN feed : /\ feed[i].commit = merged'.commit
                                  /\ feed[i].verdict = "pass"]_gate
  <2> SUFFICES ASSUME PassInv, GateNext, NEW r \in Runs,
                      run[r] # NoRun, run'[r] = NoRun, merged' # merged, run[r].auto
               PROVE  \E i \in DOMAIN feed : /\ feed[i].commit = merged'.commit
                                             /\ feed[i].verdict = "pass"
    OBVIOUS
  <2>1. PICK s \in Runs : WriteState(s)
    <3>1. ASSUME NEW m \in Maintainers, Seed({m}) PROVE FALSE
      BY <3>1 DEF Seed
    <3> QED BY <3>1 DEF GateNext, Push, PushBack, rest, Review, LoadFeed, AppendVerdict,
                        GateDies, AddVerdict
  <2>2. s = r
    BY DEF OneGate
  <2>3. merged' = run[r].state /\ run[r] \in Recorded
    BY <2>1, <2>2, RunSteps DEF WriteState, PassInv
  <2> QED BY <2>3 DEF PassInv, Passing
<1> QED BY <1>1, <1>2, <1>3, PTL DEF GateSpec, MergesWerePassed
-----------------------------------------------------------------------------
(* Numbers and their bits.                                                 *)

\* Of some natural numbers one is the least.
LEMMA SomeIsLeast ==
  ASSUME NEW S \in SUBSET Nat, S # {}
  PROVE  \E i \in S : \A j \in S : i <= j
<1>1. IsWellFoundedOn(OpToRel(<, Nat), Nat)
  BY NatLessThanWellFounded
<1>2. PICK i \in S : \A j \in S : ~(<<j, i>> \in OpToRel(<, Nat))
  BY <1>1, WFMin, Zenon
<1>3. \A j \in S : ~(j < i)
  BY <1>2 DEF OpToRel
<1> QED BY <1>3

\* A statement about 0 and about each number after one it holds of holds of all
\* numbers up to n: S are those it holds of.
LEMMA UpTo ==
  ASSUME NEW n \in Nat, NEW S, 0 \in S, \A i \in 1..n : i - 1 \in S => i \in S
  PROVE  \A i \in 0..n : i \in S
<1> SUFFICES ASSUME NEW x \in 0..n, x \notin S PROVE FALSE
  OBVIOUS
<1> DEFINE T == {i \in 0..n : i \notin S}
<1>1. PICK i \in T : \A j \in T : i <= j
  <2>1. T \in SUBSET Nat /\ T # {}
    OBVIOUS
  <2> HIDE DEF T
  <2> QED BY <2>1, SomeIsLeast
<1>2. i \in 1..n /\ i - 1 \in 0..n /\ i - 1 \notin T
  BY <1>1
<1> QED BY <1>1, <1>2

\* The powers of two are the function that Power defines.
LEMMA PowerIs == Power = [i \in Bits |-> IF i = 0 THEN 1 ELSE 2 * Power[i - 1]]
<1> DEFINE Is(g, l) == g = [i \in 0..l |-> IF i = 0 THEN 1 ELSE 2 * g[i - 1]]
           S == {l \in Nat : \E g : Is(g, l)}
<1>1. 0 \in S
  <2>1. Is([i \in 0..0 |-> 1], 0)
    OBVIOUS
  <2> QED BY <2>1
<1>2. ASSUME NEW l \in 1..MaxLog, l - 1 \in S PROVE l \in S
  <2>1. PICK g : Is(g, l - 1)
    BY <1>2
  <2> DEFINE h == [i \in 0..l |-> IF i = l THEN 2 * g[l - 1] ELSE g[i]]
  <2>2. ASSUME NEW i \in 0..l PROVE h[i] = IF i = 0 THEN 1 ELSE 2 * h[i - 1]
    <3>1. CASE i = 0
      BY <2>1, <3>1
    <3>2. CASE i = l
      BY <3>2
    <3>3. CASE i # 0 /\ i # l
      <4>1. i \in 0..l - 1 /\ g[i] = 2 * g[i - 1] /\ i - 1 # l /\ i - 1 \in 0..l
        BY <2>1, <3>3
      <4> QED BY <3>3, <4>1
    <3> QED BY <3>1, <3>2, <3>3
  <2>3. Is(h, l)
    BY <2>2
  <2> HIDE DEF h
  <2> QED BY <2>3
<1> HIDE DEF S
<1>3. MaxLog \in S
  BY <1>1, <1>2, UpTo, SigningAssumption
<1>4. \E g : Is(g, MaxLog)
  BY <1>3 DEF S
<1> QED BY <1>4 DEF Power, Bits

\* A power of two is twice the one before it, and more than its exponent.
LEMMA Powers ==
  /\ Power[0] = 1
  /\ \A i \in 1..MaxLog : Power[i] = 2 * Power[i - 1]
  /\ \A i \in Bits : Power[i] \in Nat /\ Power[i] > i
  /\ \A i \in Bits : i + 1 \in Bits => Power[i + 1] = 2 * Power[i]
<1>1. Power[0] = 1 /\ \A i \in 1..MaxLog : Power[i] = 2 * Power[i - 1]
  BY PowerIs, SigningAssumption DEF Bits
<1> DEFINE S == {i \in Nat : Power[i] \in Nat /\ Power[i] > i}
<1>2. 0 \in S /\ \A i \in 1..MaxLog : i - 1 \in S => i \in S
  BY <1>1
<1> HIDE DEF S
<1>3. \A i \in 0..MaxLog : i \in S
  BY <1>2, UpTo, SigningAssumption
<1>4. ASSUME NEW i \in Bits, i + 1 \in Bits PROVE Power[i + 1] = 2 * Power[i]
  <2>1. MaxLog \in Nat
    BY SigningAssumption
  <2>2. i \in Nat /\ i + 1 <= MaxLog
    BY <1>4, <2>1 DEF Bits
  <2>3. i + 1 \in 1..MaxLog /\ (i + 1) - 1 = i
    BY <2>1, <2>2
  <2> QED BY <1>1, <2>3
<1> QED BY <1>1, <1>3, <1>4 DEF S, Bits

\* Shifts are the function that Shifted defines.
LEMMA ShiftedIs ==
  Shifted = [i \in Bits |-> [x \in 0..MaxLog |-> IF i = 0 THEN x ELSE Shifted[i - 1][x] \div 2]]
<1> DEFINE Rule(i, g) == [x \in 0..MaxLog |-> IF i = 0 THEN x ELSE g[i - 1][x] \div 2]
           Is(g, l) == g = [i \in 0..l |-> Rule(i, g)]
           S == {l \in Nat : \E g : Is(g, l)}
<1>1. 0 \in S
  <2>1. Is([i \in 0..0 |-> [x \in 0..MaxLog |-> x]], 0)
    OBVIOUS
  <2> QED BY <2>1
<1>2. ASSUME NEW l \in 1..MaxLog, l - 1 \in S PROVE l \in S
  <2>1. PICK g : Is(g, l - 1)
    BY <1>2
  <2> DEFINE h == [i \in 0..l |-> IF i = l THEN Rule(l, g) ELSE g[i]]
  <2>2. ASSUME NEW i \in 0..l PROVE h[i] = Rule(i, h)
    <3>1. CASE i = 0
      <4>1. h[i] = g[0] /\ g[0] = Rule(0, g)
        BY <2>1, <3>1
      <4>2. Rule(0, g) = [x \in 0..MaxLog |-> x] /\ Rule(0, h) = [x \in 0..MaxLog |-> x]
        OBVIOUS
      <4> QED BY <3>1, <4>1, <4>2
    <3>2. CASE i = l
      BY <3>2
    <3>3. CASE i # 0 /\ i # l
      <4>1. i \in 0..l - 1 /\ i - 1 # l /\ i - 1 \in 0..l /\ i \in 0..l
        BY <3>3
      <4>2. g[i] = Rule(i, g)
        <5> HIDE DEF Rule
        <5> QED BY <2>1, <4>1
      <4>3. h[i] = g[i] /\ h[i - 1] = g[i - 1]
        BY <3>3, <4>1
      <4>4. Rule(i, h) = Rule(i, g)
        <5> HIDE DEF h
        <5> QED BY <4>3
      <4> QED BY <4>2, <4>3, <4>4
    <3> QED BY <3>1, <3>2, <3>3
  <2>3. Is(h, l)
    <3>1. h = [i \in 0..l |-> h[i]]
      OBVIOUS
    <3> HIDE DEF h, Rule
    <3> QED BY <2>2, <3>1
  <2> HIDE DEF h
  <2> QED BY <2>3
<1> HIDE DEF S
<1>3. MaxLog \in S
  BY <1>1, <1>2, UpTo, SigningAssumption
<1>4. \E g : Is(g, MaxLog)
  BY <1>3 DEF S
<1> QED BY <1>4 DEF Shifted, Bits

\* A shift by one more bit is half the shift before it.
LEMMA Shifts ==
  ASSUME NEW x \in 0..MaxLog
  PROVE  /\ Shifted[0][x] = x
         /\ \A i \in 1..MaxLog : Shifted[i][x] = Shifted[i - 1][x] \div 2
         /\ \A i \in Bits : Shifted[i][x] \in Nat
<1>1. Shifted[0][x] = x /\ \A i \in 1..MaxLog : Shifted[i][x] = Shifted[i - 1][x] \div 2
  BY ShiftedIs, SigningAssumption DEF Bits
<1> DEFINE S == {i \in Nat : Shifted[i][x] \in Nat}
<1>2. 0 \in S /\ \A i \in 1..MaxLog : i - 1 \in S => i \in S
  BY <1>1
<1> HIDE DEF S
<1>3. \A i \in 0..MaxLog : i \in S
  BY <1>2, UpTo, SigningAssumption
<1> QED BY <1>1, <1>3 DEF S, Bits

\* A tree is split at the largest power of two below its size.
LEMMA SplitIs ==
  ASSUME NEW n \in 2..MaxLog
  PROVE  \E j \in Bits : /\ j + 1 \in Bits /\ Split(n) = Power[j]
                         /\ Power[j] < n /\ n <= 2 * Power[j]
<1> DEFINE T == {i \in Bits : n <= 2 * Power[i]}
<1>1. PICK i \in T : \A j \in T : i <= j
  <2>1. T \in SUBSET Nat /\ MaxLog \in T
    BY Powers, SigningAssumption DEF Bits
  <2> HIDE DEF T
  <2> QED BY <2>1, SomeIsLeast
<1>2. Power[i] < n
  <2>1. CASE i = 0
    BY <2>1, Powers
  <2>2. CASE i # 0
    <3>1. i - 1 \in Bits /\ i - 1 \notin T /\ i \in 1..MaxLog
      BY <1>1, <2>2, SigningAssumption DEF Bits
    <3>2. Power[i - 1] \in Nat /\ ~(n <= 2 * Power[i - 1]) /\ Power[i] = 2 * Power[i - 1]
      BY <3>1, Powers
    <3> QED BY <3>2
  <2> QED BY <2>1, <2>2
<1>3. Split(n) \in {Power[j] : j \in Bits} /\ Split(n) < n /\ n <= 2 * Split(n)
  BY <1>1, <1>2 DEF Split
<1>4. PICK j \in Bits : Split(n) = Power[j]
  BY <1>3
<1>5. j + 1 \in Bits
  BY <1>3, <1>4, Powers, SigningAssumption DEF Bits
<1> QED BY <1>3, <1>4, <1>5

-----------------------------------------------------------------------------
(* Bits of a place in a tree.                                              *)

\* Below a power of two there are no bits from it on.
LEMMA LowBits ==
  ASSUME NEW j \in Bits, NEW x \in 0..MaxLog, x < Power[j]
  PROVE  /\ \A m \in 0..j : Shifted[m][x] < Power[j - m]
         /\ \A m \in Bits : m >= j => Shifted[m][x] = 0
<1>0. j \in Nat /\ j <= MaxLog /\ MaxLog \in Nat
  BY SigningAssumption DEF Bits
<1> DEFINE S == {m \in Nat : Shifted[m][x] < Power[j - m]}
<1>1. 0 \in S
  BY <1>0, Shifts
<1>2. ASSUME NEW m \in 1..j, m - 1 \in S PROVE m \in S
  <2>1. Shifted[m][x] = Shifted[m - 1][x] \div 2 /\ Shifted[m - 1][x] \in Nat
    BY <1>0, Shifts DEF Bits
  <2>2. j - (m - 1) = (j - m) + 1 /\ j - m + 1 \in Bits /\ j - m \in Bits
    BY <1>0 DEF Bits
  <2>3. Power[j - (m - 1)] = 2 * Power[j - m] /\ Power[j - m] \in Nat
    BY <2>2, Powers
  <2>4. Shifted[m - 1][x] < 2 * Power[j - m]
    BY <1>2, <2>3
  <2> QED BY <2>1, <2>3, <2>4
<1> HIDE DEF S
<1>3. \A m \in 0..j : m \in S
  BY <1>0, <1>1, <1>2, UpTo
<1>4. \A m \in 0..j : Shifted[m][x] < Power[j - m]
  BY <1>3 DEF S
<1> DEFINE Z == {m \in Nat : m >= j => Shifted[m][x] = 0}
<1>5. Shifted[j][x] = 0
  <2>1. Shifted[j][x] < Power[j - j] /\ j - j = 0 /\ Shifted[j][x] \in Nat
    BY <1>0, <1>4, Shifts
  <2> QED BY <2>1, Powers
<1>6. 0 \in Z
  BY <1>0, <1>5
<1>7. ASSUME NEW m \in 1..MaxLog, m - 1 \in Z PROVE m \in Z
  <2>1. CASE m > j
    <3>1. Shifted[m][x] = Shifted[m - 1][x] \div 2 /\ Shifted[m - 1][x] = 0
      BY <1>0, <1>7, <2>1, Shifts
    <3> QED BY <3>1
  <2>2. CASE m = j
    BY <1>5, <2>2
  <2>3. CASE m < j
    BY <1>0, <2>3
  <2> QED BY <1>0, <2>1, <2>2, <2>3
<1> HIDE DEF Z
<1>8. \A m \in 0..MaxLog : m \in Z
  BY <1>0, <1>6, <1>7, UpTo
<1> QED BY <1>4, <1>8 DEF Z, Bits

\* Taking a power of two away leaves the bits below it.
LEMMA TopBit ==
  ASSUME NEW j \in Bits, NEW x \in 0..MaxLog, x >= Power[j]
  PROVE  /\ x - Power[j] \in 0..MaxLog
         /\ \A m \in 0..j : Shifted[m][x - Power[j]] = Shifted[m][x] - Power[j - m]
<1>0. j \in Nat /\ j <= MaxLog /\ MaxLog \in Nat /\ Power[j] \in Nat
  BY SigningAssumption, Powers DEF Bits
<1> DEFINE y == x - Power[j]
           S == {m \in Nat : Shifted[m][y] = Shifted[m][x] - Power[j - m]}
<1>y. y \in 0..MaxLog
  BY <1>0
<1>1. 0 \in S
  BY <1>0, <1>y, Shifts
<1>2. ASSUME NEW m \in 1..j, m - 1 \in S PROVE m \in S
  <2> HIDE DEF y
  <2>1. /\ Shifted[m][x] = Shifted[m - 1][x] \div 2 /\ Shifted[m - 1][x] \in Nat
        /\ Shifted[m][y] = Shifted[m - 1][y] \div 2 /\ Shifted[m - 1][y] \in Nat
    BY <1>0, <1>y, Shifts DEF Bits
  <2>2. j - (m - 1) = (j - m) + 1 /\ j - m + 1 \in Bits /\ j - m \in Bits
    BY <1>0 DEF Bits
  <2>3. Power[j - (m - 1)] = 2 * Power[j - m] /\ Power[j - m] \in Nat
    BY <2>2, Powers
  <2>4. Shifted[m - 1][y] = Shifted[m - 1][x] - 2 * Power[j - m]
    BY <1>2, <2>3
  <2> QED BY <2>1, <2>3, <2>4
<1> HIDE DEF S, y
<1>3. \A m \in 0..j : m \in S
  BY <1>0, <1>1, <1>2, UpTo
<1> QED BY <1>3, <1>y DEF S, y

\* The number before a power of two has all bits below it.
LEMMA AllBits ==
  ASSUME NEW j \in Bits, Power[j] - 1 <= MaxLog
  PROVE  \A m \in 0..j : Shifted[m][Power[j] - 1] = Power[j - m] - 1
<1>0. j \in Nat /\ j <= MaxLog /\ MaxLog \in Nat /\ Power[j] \in Nat /\ Power[j] - 1 \in 0..MaxLog
  BY SigningAssumption, Powers DEF Bits
<1> DEFINE y == Power[j] - 1
           S == {m \in Nat : Shifted[m][y] = Power[j - m] - 1}
<1>1. 0 \in S
  BY <1>0, Shifts
<1>2. ASSUME NEW m \in 1..j, m - 1 \in S PROVE m \in S
  <2>y. y \in 0..MaxLog
    BY <1>0
  <2> HIDE DEF y
  <2>1. Shifted[m][y] = Shifted[m - 1][y] \div 2 /\ Shifted[m - 1][y] \in Nat
    BY <1>0, <2>y, Shifts DEF Bits
  <2>2. j - (m - 1) = (j - m) + 1 /\ j - m + 1 \in Bits /\ j - m \in Bits
    BY <1>0 DEF Bits
  <2>3. Power[j - (m - 1)] = 2 * Power[j - m] /\ Power[j - m] \in Nat
    BY <2>2, Powers
  <2>4. Shifted[m - 1][y] = 2 * Power[j - m] - 1
    BY <1>2, <2>3
  <2> QED BY <2>1, <2>3, <2>4
<1> HIDE DEF S
<1>3. \A m \in 0..j : m \in S
  BY <1>0, <1>1, <1>2, UpTo
<1> QED BY <1>3 DEF S

\* A number between a power of two and its double has just that bit from it on.
LEMMA OneTopBit ==
  ASSUME NEW j \in Bits, j + 1 \in Bits, NEW x \in 0..MaxLog, x >= Power[j], x < 2 * Power[j]
  PROVE  Shifted[j][x] = 1 /\ \A m \in Bits : m > j => Shifted[m][x] = 0
<1>0. j \in Nat /\ Power[j] \in Nat /\ MaxLog \in Nat
  BY SigningAssumption, Powers DEF Bits
<1>1. Power[j + 1] = 2 * Power[j]
  <2>1. j + 1 \in 1..MaxLog /\ (j + 1) - 1 = j
    BY <1>0 DEF Bits
  <2> QED BY <2>1, Powers
<1>2. \A m \in Bits : m >= j + 1 => Shifted[m][x] = 0
  BY <1>0, <1>1, LowBits
<1>3. x - Power[j] \in 0..MaxLog /\ Shifted[j][x - Power[j]] = Shifted[j][x] - Power[j - j]
  BY <1>0, TopBit
<1>4. Shifted[j][x - Power[j]] = 0
  <2>1. x - Power[j] < Power[j]
    BY <1>0
  <2> QED BY <1>0, <1>3, <2>1, LowBits
<1>5. Power[j - j] = 1
  BY <1>0, Powers
<1>6. Shifted[j][x] \in Nat
  BY Shifts
<1> QED BY <1>0, <1>2, <1>3, <1>4, <1>5, <1>6 DEF Bits

\* Below a power of two, its half is odd or even: what is taken away is even.
LEMMA EvenPower ==
  ASSUME NEW j \in Bits, NEW m \in Nat, m < j
  PROVE  \E h \in Nat : Power[j - m] = 2 * h /\ h >= 1
<1>1. j - m \in 1..MaxLog /\ j - m - 1 \in Bits
  BY SigningAssumption DEF Bits
<1>2. Power[j - m] = 2 * Power[j - m - 1] /\ Power[j - m - 1] \in Nat /\ Power[j - m - 1] > j - m - 1
  BY <1>1, Powers
<1> QED BY <1>1, <1>2 DEF Bits

-----------------------------------------------------------------------------
(* Places.                                                                 *)

\* Every number ends somewhere.
LEMMA AllShifted ==
  ASSUME NEW x \in 0..MaxLog
  PROVE  MaxLog \in Bits /\ Shifted[MaxLog][x] = 0
<1>1. MaxLog \in Bits /\ MaxLog \in Nat
  BY SigningAssumption DEF Bits
<1>2. x < Power[MaxLog]
  BY <1>1, Powers
<1> QED BY <1>1, <1>2, LowBits

\* n is the first place from which index and last index agree.
Agrees(index, size, n) ==
  /\ Shifted[n][index] = Shifted[n][size - 1]
  /\ \A m \in 0..n - 1 : Shifted[m][index] # Shifted[m][size - 1]

\* The bits in which index and last index differ end at one place.
LEMMA InnerIs ==
  ASSUME NEW index \in 0..MaxLog, NEW size \in 1..MaxLog
  PROVE  /\ Inner(index, size) \in Bits /\ Agrees(index, size, Inner(index, size))
         /\ \A n \in Bits : Agrees(index, size, n) => n = Inner(index, size)
<1> DEFINE T == {n \in Bits : Shifted[n][index] = Shifted[n][size - 1]}
<1>0. T \in SUBSET Nat /\ T # {}
  <2>1. size - 1 \in 0..MaxLog
    BY SigningAssumption
  <2>2. MaxLog \in T
    BY <2>1, AllShifted
  <2> QED BY <2>2, SigningAssumption DEF Bits
<1>1. PICK n \in T : \A m \in T : n <= m
  <2> HIDE DEF T
  <2> QED BY <1>0, SomeIsLeast
<1>2. n \in Bits /\ Agrees(index, size, n)
  <2>1. ASSUME NEW m \in 0..n - 1 PROVE Shifted[m][index] # Shifted[m][size - 1]
    <3>1. m \in Bits /\ ~(n <= m)
      BY <1>0, <1>1, SigningAssumption DEF Bits
    <3> QED BY <1>1, <3>1
  <2> QED BY <1>1, <2>1 DEF Agrees
<1>3. Inner(index, size) = CHOOSE k \in Bits : Agrees(index, size, k)
  BY DEF Inner, Agrees
<1>4. Inner(index, size) \in Bits /\ Agrees(index, size, Inner(index, size))
  BY <1>2, <1>3
<1>5. ASSUME NEW k \in Bits, NEW l \in Bits, Agrees(index, size, k), Agrees(index, size, l)
      PROVE  ~(k < l)
  <2>1. k < l => k \in 0..l - 1
    BY SigningAssumption DEF Bits
  <2> QED BY <1>5, <2>1 DEF Agrees
<1>6. \A k \in Bits, l \in Bits : ~(k < l) /\ ~(l < k) => k = l
  BY SigningAssumption DEF Bits
<1> QED BY <1>4, <1>5, <1>6

\* Where they agree once they agree from there on.
LEMMA AgreeOn ==
  ASSUME NEW x \in 0..MaxLog, NEW y \in 0..MaxLog, NEW n \in Bits, Shifted[n][x] = Shifted[n][y]
  PROVE  \A m \in Bits : m >= n => Shifted[m][x] = Shifted[m][y]
<1> DEFINE S == {m \in Nat : m >= n => Shifted[m][x] = Shifted[m][y]}
<1>0. MaxLog \in Nat /\ n \in Nat
  BY SigningAssumption DEF Bits
<1>1. 0 \in S
  BY <1>0
<1>2. ASSUME NEW m \in 1..MaxLog, m - 1 \in S PROVE m \in S
  <2>1. CASE m - 1 >= n
    <3>1. Shifted[m][x] = Shifted[m - 1][x] \div 2 /\ Shifted[m][y] = Shifted[m - 1][y] \div 2
      BY Shifts
    <3> QED BY <1>0, <1>2, <2>1, <3>1
  <2>2. CASE m = n
    BY <2>2
  <2>3. CASE m < n
    BY <1>0, <2>3
  <2> QED BY <1>0, <2>1, <2>2, <2>3
<1> HIDE DEF S
<1>3. \A m \in 0..MaxLog : m \in S
  BY <1>0, <1>1, <1>2, UpTo
<1> QED BY <1>3 DEF S, Bits

\* How many siblings the proof of a place has.
Depth(index, size) == Inner(index, size) + Border(index, size)

\* The set that Border counts.
Ones(index, from) == {n \in Bits : n >= from /\ Shifted[n][index] % 2 = 1}

\* There are finitely many of them.
LEMMA OnesAreFinite ==
  ASSUME NEW index, NEW from
  PROVE  IsFiniteSet(Ones(index, from)) /\ Cardinality(Ones(index, from)) \in Nat
<1>1. IsFiniteSet(Bits)
  BY FS_Interval, SigningAssumption DEF Bits
<1>2. Ones(index, from) \subseteq Bits
  BY DEF Ones
<1> QED BY <1>1, <1>2, FS_Subset, FS_CardinalityType

\* Inner, border and their sum are numbers.
LEMMA DepthIs ==
  ASSUME NEW index \in 0..MaxLog, NEW size \in 1..MaxLog
  PROVE  /\ Border(index, size) = Cardinality(Ones(index, Inner(index, size)))
         /\ Border(index, size) \in Nat /\ Depth(index, size) \in Nat /\ Inner(index, size) \in Nat
<1>1. Border(index, size) = Cardinality(Ones(index, Inner(index, size)))
  BY DEF Border, Ones
<1>2. Cardinality(Ones(index, Inner(index, size))) \in Nat
  BY OnesAreFinite
<1>3. Inner(index, size) \in Nat
  BY InnerIs, SigningAssumption DEF Bits
<1> QED BY <1>1, <1>2, <1>3 DEF Depth

\* The only leaf is the root.
LEMMA OneLeaf == ASSUME MaxLog >= 1 PROVE Depth(0, 1) = 0
<1>1. 0 \in 0..MaxLog /\ 1 \in 1..MaxLog /\ 0 \in Bits
  BY SigningAssumption DEF Bits
<1>2. Inner(0, 1) = 0
  BY <1>1, InnerIs DEF Agrees
<1>3. \A n \in Bits : Shifted[n][0] = 0
  <2>1. Power[0] = 1
    BY Powers
  <2> QED BY <1>1, <2>1, LowBits DEF Bits
<1>4. Ones(0, 0) = {}
  BY <1>3 DEF Ones
<1>5. Border(0, 1) = Cardinality(Ones(0, 0))
  BY <1>1, <1>2, DepthIs
<1>6. Cardinality(Ones(0, 0)) = 0
  BY <1>4, FS_EmptySet
<1> QED BY <1>2, <1>5, <1>6 DEF Depth

\* A leaf in the left of two subtrees is as deep as the left one's leaves, and
\* one more; up to there its siblings are on the same sides.
LEMMA LeftSubtree ==
  ASSUME NEW n \in 2..MaxLog, NEW i \in 0..n - 1, i < Split(n)
  PROVE  /\ Split(n) \in 1..n - 1 /\ i \in 0..Split(n) - 1
         /\ Depth(i, n) = Depth(i, Split(n)) + 1
         /\ IsLeft(i, n, Depth(i, n))
         /\ \A p \in 1..Depth(i, Split(n)) : IsLeft(i, n, p) = IsLeft(i, Split(n), p)
<1>1. PICK j \in Bits : j + 1 \in Bits /\ Split(n) = Power[j] /\ Power[j] < n /\ n <= 2 * Power[j]
  BY SplitIs
<1> DEFINE k == Power[j]
           t == Inner(i, k)
<1>2. /\ k \in Nat /\ k >= 1 /\ k > j /\ j \in Nat /\ MaxLog \in Nat /\ i \in 0..MaxLog /\ n \in 1..MaxLog
      /\ n - 1 \in 0..MaxLog /\ k \in 1..MaxLog /\ i < k /\ Power[j + 1] = 2 * k
      /\ k - 1 \in 0..MaxLog /\ n - 1 >= k /\ n - 1 < 2 * k
  BY <1>1, Powers, SigningAssumption DEF Bits
<1> HIDE DEF k
<1>3. Inner(i, n) = j + 1
  <2>1. Shifted[j + 1][i] = 0 /\ Shifted[j + 1][n - 1] = 0
    <3>1. i < Power[j + 1] /\ n - 1 < Power[j + 1]
      BY <1>2
    <3> QED BY <1>1, <1>2, <3>1, LowBits
  <2>2. ASSUME NEW m \in 0..j PROVE Shifted[m][i] # Shifted[m][n - 1]
    <3>1. Shifted[m][i] < Power[j - m] /\ Shifted[m][i] \in Nat /\ Shifted[m][n - 1] \in Nat
          /\ Power[j - m] \in Nat
      <4>1. m \in Bits /\ j - m \in Bits
        BY <1>2 DEF Bits
      <4> QED BY <1>2, <4>1, LowBits, Shifts, Powers DEF k
    <3>2. n - 1 - k \in 0..MaxLog /\ Shifted[m][n - 1 - k] = Shifted[m][n - 1] - Power[j - m]
      BY <1>2, TopBit DEF k
    <3>3. Shifted[m][n - 1 - k] \in Nat
      <4>1. m \in Bits
        BY <1>2 DEF Bits
      <4> QED BY <3>2, <4>1, Shifts
    <3> QED BY <3>1, <3>2, <3>3
  <2>3. Agrees(i, n, j + 1)
    BY <1>2, <2>1, <2>2 DEF Agrees
  <2> QED BY <1>1, <1>2, <2>3, InnerIs
<1>4. Border(i, n) = 0
  <2>1. \A m \in Bits : m >= j => Shifted[m][i] = 0
    BY <1>2, LowBits DEF k
  <2>2. Ones(i, j + 1) = {}
    BY <1>2, <2>1 DEF Ones, Bits
  <2>3. Border(i, n) = Cardinality(Ones(i, j + 1))
    BY <1>2, <1>3, DepthIs
  <2>4. Cardinality(Ones(i, j + 1)) = 0
    BY <2>2, FS_EmptySet
  <2> QED BY <2>3, <2>4
<1>5. t \in Bits /\ Agrees(i, k, t)
  BY <1>2, InnerIs
<1>6. t <= j
  <2>1. Shifted[j][i] = 0 /\ Shifted[j][k - 1] = 0
    <3>1. k - 1 < Power[j]
      BY <1>2 DEF k
    <3> QED BY <1>2, <3>1, LowBits DEF k
  <2>2. t > j => j \in 0..t - 1
    BY <1>2, <1>5 DEF Bits
  <2> QED BY <1>5, <2>1, <2>2 DEF Agrees, Bits
<1> HIDE DEF t
<1>7. ASSUME NEW m \in t..j - 1 PROVE m \in Bits /\ Shifted[m][i] % 2 = 1
  <2>1. m \in Bits /\ m >= t /\ m \in Nat /\ m < j /\ m \in 0..j
    BY <1>2, <1>5 DEF Bits
  <2>2. Shifted[m][i] = Shifted[m][k - 1]
    <3>1. Shifted[t][i] = Shifted[t][k - 1]
      BY <1>5 DEF Agrees
    <3>2. i \in 0..MaxLog /\ k - 1 \in 0..MaxLog /\ t \in Bits
      BY <1>2, <1>5
    <3>3. \A m2 \in Bits : m2 >= t => Shifted[m2][i] = Shifted[m2][k - 1]
      <4> HIDE DEF t
      <4> QED BY <3>1, <3>2, AgreeOn
    <3> QED BY <2>1, <3>3
  <2>3. Shifted[m][k - 1] = Power[j - m] - 1
    BY <1>2, <2>1, AllBits DEF k
  <2>4. PICK h \in Nat : Power[j - m] = 2 * h /\ h >= 1
    BY <2>1, EvenPower
  <2> QED BY <2>1, <2>2, <2>3, <2>4
<1>8. Ones(i, t) = t..j - 1
  <2>1. ASSUME NEW m \in Ones(i, t) PROVE m \in t..j - 1
    <3>1. m >= j => Shifted[m][i] = 0
      BY <1>2, LowBits DEF k, Ones
    <3>2. ~(m >= j) /\ m \in Nat /\ m >= t
      BY <3>1, SigningAssumption DEF Ones, Bits
    <3> QED BY <1>2, <1>5, <3>2 DEF Bits
  <2>2. ASSUME NEW m \in t..j - 1 PROVE m \in Ones(i, t)
    <3>1. m >= t
      BY <1>2, <1>5 DEF Bits
    <3> QED BY <1>7, <3>1 DEF Ones
  <2> QED BY <2>1, <2>2
<1>9. Depth(i, k) = j
  <2>1. Border(i, k) = Cardinality(Ones(i, t))
    BY <1>2, DepthIs DEF t
  <2>2. Cardinality(t..j - 1) = j - t
    <3>1. t \in Int /\ j - 1 \in Int
      BY <1>2, <1>5 DEF Bits
    <3>2. Cardinality(t..j - 1) = IF t > j - 1 THEN 0 ELSE (j - 1) - t + 1
      BY <3>1, FS_Interval
    <3> QED BY <1>2, <1>5, <1>6, <3>1, <3>2
  <2>3. t \in Nat
    BY <1>5, SigningAssumption DEF Bits
  <2> QED BY <1>2, <1>8, <2>1, <2>2, <2>3 DEF Depth, t
<1>10. Depth(i, n) = j + 1
  BY <1>2, <1>3, <1>4 DEF Depth
<1>11. IsLeft(i, n, j + 1)
  <2>1. Shifted[j][i] = 0 /\ (j + 1) - 1 = j
    BY <1>2, LowBits DEF k
  <2> QED BY <1>2, <1>3, <2>1 DEF IsLeft
<1>12. ASSUME NEW p \in 1..j PROVE IsLeft(i, n, p) = IsLeft(i, k, p)
  <2>1. p <= Inner(i, n) /\ (p <= t \/ p - 1 \in t..j - 1)
    BY <1>2, <1>3, <1>5 DEF Bits
  <2>2. p - 1 \in t..j - 1 => ~(Shifted[p - 1][i] % 2 = 0)
    BY <1>7
  <2> QED BY <2>1, <2>2 DEF IsLeft, t
<1> QED BY <1>1, <1>2, <1>9, <1>10, <1>11, <1>12 DEF k

\* Likewise a leaf in the right one, which is the next of its own.
LEMMA RightSubtree ==
  ASSUME NEW n \in 2..MaxLog, NEW i \in 0..n - 1, i >= Split(n)
  PROVE  /\ Split(n) \in 1..n - 1 /\ i - Split(n) \in 0..n - Split(n) - 1
         /\ Depth(i, n) = Depth(i - Split(n), n - Split(n)) + 1
         /\ ~IsLeft(i, n, Depth(i, n))
         /\ \A p \in 1..Depth(i - Split(n), n - Split(n)) :
              IsLeft(i, n, p) = IsLeft(i - Split(n), n - Split(n), p)
<1>1. PICK j \in Bits : j + 1 \in Bits /\ Split(n) = Power[j] /\ Power[j] < n /\ n <= 2 * Power[j]
  BY SplitIs
<1> DEFINE k == Power[j]
           t == Inner(i, n)
           i2 == i - k
           n2 == n - k
<1>2. /\ k \in Nat /\ k >= 1 /\ k > j /\ j \in Nat /\ MaxLog \in Nat /\ i \in 0..MaxLog /\ n \in 1..MaxLog
      /\ n - 1 \in 0..MaxLog /\ i >= k /\ Power[j + 1] = 2 * k
      /\ n - 1 >= k /\ n - 1 < 2 * k /\ i < 2 * k
      /\ i2 \in 0..MaxLog /\ n2 \in 1..MaxLog /\ i2 \in 0..n2 - 1 /\ i2 < k
      /\ n2 - 1 = (n - 1) - k
  BY <1>1, Powers, SigningAssumption DEF Bits
<1>3. \A m \in 0..j : /\ Shifted[m][i2] = Shifted[m][i] - Power[j - m]
                      /\ Shifted[m][n2 - 1] = Shifted[m][n - 1] - Power[j - m]
  <2> HIDE DEF n2
  <2> QED BY <1>2, TopBit
<1>i. i2 = i - k /\ n2 = n - k
  OBVIOUS
<1> HIDE DEF k, i2, n2
<1>4. /\ Shifted[j][i] = 1 /\ Shifted[j][n - 1] = 1
      /\ \A m \in Bits : m > j => Shifted[m][i] = 0
  BY <1>1, <1>2, OneTopBit DEF k
<1>5. t \in Bits /\ Agrees(i, n, t) /\ t \in Nat
  BY <1>2, InnerIs, SigningAssumption DEF Bits
<1>6. t <= j
  <2>1. t > j => j \in 0..t - 1
    BY <1>2, <1>5
  <2> QED BY <1>2, <1>4, <1>5, <2>1 DEF Agrees
<1>7. \A m \in 0..j : m \in Bits /\ Shifted[m][i] \in Nat /\ Shifted[m][n - 1] \in Nat /\ Power[j - m] \in Nat
  <2> SUFFICES ASSUME NEW m \in 0..j
               PROVE  m \in Bits /\ Shifted[m][i] \in Nat /\ Shifted[m][n - 1] \in Nat /\ Power[j - m] \in Nat
    OBVIOUS
  <2>1. m \in Bits /\ j - m \in Bits
    BY <1>2 DEF Bits
  <2> QED BY <1>2, <2>1, Shifts, Powers
<1>8. Inner(i2, n2) = t
  <2>1. \A m \in 0..j : Shifted[m][i2] = Shifted[m][n2 - 1] <=> Shifted[m][i] = Shifted[m][n - 1]
    BY <1>3, <1>7
  <2>2. t \in 0..j /\ \A m \in 0..t - 1 : m \in 0..j
    BY <1>2, <1>5, <1>6
  <2>3. Agrees(i2, n2, t)
    BY <1>5, <2>1, <2>2 DEF Agrees
  <2> QED BY <1>2, <1>5, <2>3, InnerIs
<1> HIDE DEF t
<1>9. ASSUME NEW m \in 0..j - 1 PROVE Shifted[m][i] % 2 = Shifted[m][i2] % 2
  <2>1. m \in Nat /\ m < j /\ m \in 0..j
    BY <1>2
  <2>2. PICK h \in Nat : Power[j - m] = 2 * h /\ h >= 1
    BY <2>1, EvenPower
  <2>3. Shifted[m][i2] = Shifted[m][i] - 2 * h /\ Shifted[m][i] \in Nat
    BY <1>3, <1>7, <2>1, <2>2
  <2> QED BY <2>3
<1>10. \A m \in Bits : m >= j => Shifted[m][i2] = 0
  BY <1>2, LowBits DEF k
<1>11. Ones(i, t) = Ones(i2, t) \cup {j} /\ j \notin Ones(i2, t)
  <2>1. \A m \in Bits : m \in 0..j - 1 \/ m = j \/ m > j
    BY <1>2 DEF Bits
  <2>2. \A m \in 0..j - 1 : m \in Ones(i, t) <=> m \in Ones(i2, t)
    BY <1>9 DEF Ones
  <2>3. j \in Ones(i, t) /\ j \notin Ones(i2, t)
    BY <1>2, <1>4, <1>6, <1>10 DEF Ones
  <2>4. \A m \in Bits : m > j => m \notin Ones(i, t) /\ m \notin Ones(i2, t)
    BY <1>2, <1>4, <1>10 DEF Ones, Bits
  <2>5. Ones(i, t) \subseteq Bits /\ Ones(i2, t) \subseteq Bits
    BY DEF Ones
  <2> QED BY <2>1, <2>2, <2>3, <2>4, <2>5
<1>12. Border(i, n) = Border(i2, n2) + 1
  <2>1. Border(i, n) = Cardinality(Ones(i, t)) /\ Border(i2, n2) = Cardinality(Ones(i2, t))
    BY <1>2, <1>8, DepthIs DEF t
  <2>2. IsFiniteSet(Ones(i2, t))
    BY OnesAreFinite
  <2>3. Cardinality(Ones(i2, t) \cup {j}) = Cardinality(Ones(i2, t)) + 1
    BY <1>11, <2>2, FS_AddElement
  <2> QED BY <1>11, <2>1, <2>3
<1>13. Depth(i, n) = Depth(i2, n2) + 1 /\ Depth(i2, n2) = t + Border(i2, n2) /\ Border(i2, n2) \in Nat
  BY <1>2, <1>5, <1>8, <1>12, DepthIs DEF Depth, t
<1>14. ~IsLeft(i, n, Depth(i, n))
  BY <1>5, <1>13 DEF IsLeft, t
<1>15. ASSUME NEW p \in 1..Depth(i2, n2) PROVE IsLeft(i, n, p) = IsLeft(i2, n2, p)
  <2>1. p <= t => p - 1 \in 0..j - 1
    BY <1>2, <1>5, <1>6
  <2> QED BY <1>8, <1>9, <2>1 DEF IsLeft, t
<1> QED BY <1>1, <1>2, <1>i, <1>13, <1>14, <1>15 DEF k

-----------------------------------------------------------------------------
(* Trees.                                                                  *)

\* Climb computes each hash from the one before it.
LEMMA ClimbIs ==
  ASSUME NEW index, NEW size, NEW leaf, NEW proof, Len(proof) \in Nat
  PROVE  /\ Climb(index, size, leaf, proof)[0] = leaf
         /\ \A i \in 1..Len(proof) :
              Climb(index, size, leaf, proof)[i] =
                IF IsLeft(index, size, i)
                THEN Node(Climb(index, size, leaf, proof)[i - 1], proof[i])
                ELSE Node(proof[i], Climb(index, size, leaf, proof)[i - 1])
<1> DEFINE Rule(i, g) == IF i = 0 THEN leaf
                         ELSE IF IsLeft(index, size, i) THEN Node(g[i - 1], proof[i])
                         ELSE Node(proof[i], g[i - 1])
           Is(g, l) == g = [i \in 0..l |-> Rule(i, g)]
           S == {l \in Nat : \E g : Is(g, l)}
<1>1. 0 \in S
  <2>1. Is([i \in 0..0 |-> leaf], 0)
    OBVIOUS
  <2> QED BY <2>1
<1>2. ASSUME NEW l \in 1..Len(proof), l - 1 \in S PROVE l \in S
  <2>1. PICK g : Is(g, l - 1)
    BY <1>2
  <2> DEFINE h == [i \in 0..l |-> IF i = l THEN Rule(l, g) ELSE g[i]]
  <2>2. ASSUME NEW i \in 0..l PROVE h[i] = Rule(i, h)
    <3>1. CASE i = 0
      <4>1. h[i] = g[0] /\ g[0] = Rule(0, g)
        BY <2>1, <3>1
      <4> QED BY <3>1, <4>1
    <3>2. CASE i # 0
      <4>1. i - 1 # l /\ i - 1 \in 0..l
        BY <3>2
      <4>2. h[i - 1] = g[i - 1]
        BY <4>1
      <4>3. h[i] = Rule(i, g)
        <5>1. i # l => i \in 0..l - 1
          OBVIOUS
        <5> HIDE DEF Rule
        <5> QED BY <2>1, <5>1
      <4> HIDE DEF h
      <4> QED BY <4>2, <4>3
    <3> QED BY <3>1, <3>2
  <2>3. Is(h, l)
    <3>1. h = [i \in 0..l |-> h[i]]
      OBVIOUS
    <3> HIDE DEF h, Rule
    <3> QED BY <2>2, <3>1
  <2> HIDE DEF h
  <2> QED BY <2>3
<1> HIDE DEF S
<1>3. Len(proof) \in S
  <2>1. \A l \in 1..Len(proof) : l - 1 \in S => l \in S
    BY <1>2
  <2>2. \A i \in 0..Len(proof) : i \in S
    BY <1>1, <2>1, UpTo
  <2> QED BY <2>2
<1>4. \E g : Is(g, Len(proof))
  BY <1>3 DEF S
<1>5. Is(Climb(index, size, leaf, proof), Len(proof))
  BY <1>4 DEF Climb
<1> QED BY <1>5

\* Climbs from leaves whose siblings are on the same sides are the same.
LEMMA SameClimb ==
  ASSUME NEW i, NEW n, NEW i2, NEW n2, NEW leaf, NEW proof, Len(proof) \in Nat,
         NEW d \in 0..Len(proof), \A q \in 1..d : IsLeft(i, n, q) = IsLeft(i2, n2, q)
  PROVE  Climb(i, n, leaf, proof)[d] = Climb(i2, n2, leaf, proof)[d]
<1> DEFINE S == {q \in Nat : Climb(i, n, leaf, proof)[q] = Climb(i2, n2, leaf, proof)[q]}
<1>1. 0 \in S
  BY ClimbIs
<1>2. ASSUME NEW q \in 1..d, q - 1 \in S PROVE q \in S
  <2>1. q \in 1..Len(proof)
    OBVIOUS
  <2>2. Climb(i, n, leaf, proof)[q - 1] = Climb(i2, n2, leaf, proof)[q - 1]
    BY <1>2
  <2>3. /\ Climb(i, n, leaf, proof)[q] =
             IF IsLeft(i, n, q) THEN Node(Climb(i, n, leaf, proof)[q - 1], proof[q])
             ELSE Node(proof[q], Climb(i, n, leaf, proof)[q - 1])
        /\ Climb(i2, n2, leaf, proof)[q] =
             IF IsLeft(i2, n2, q) THEN Node(Climb(i2, n2, leaf, proof)[q - 1], proof[q])
             ELSE Node(proof[q], Climb(i2, n2, leaf, proof)[q - 1])
    BY <2>1, ClimbIs
  <2> QED BY <2>2, <2>3
<1> HIDE DEF S
<1>3. \A q \in 0..d : q \in S
  BY <1>1, <1>2, UpTo
<1> QED BY <1>3 DEF S

\* A tree of more than one leaf has smaller subtrees.
LEMMA SplitBounds ==
  ASSUME NEW n \in 2..MaxLog
  PROVE  Split(n) \in 1..n - 1 /\ n - Split(n) \in 1..n - 1
<1>1. PICK j \in Bits : Split(n) = Power[j] /\ Power[j] < n
  BY SplitIs
<1>2. Power[j] \in Nat /\ Power[j] > j /\ j \in Nat
  BY Powers, SigningAssumption DEF Bits
<1> QED BY <1>1, <1>2

\* The hash of a subtree is of those of its halves.
LEMMA HashesAre ==
  ASSUME NEW bodies, Len(bodies) \in 0..MaxLog
  PROVE  /\ \A from \in 1..Len(bodies) : Hashes(bodies)[1][from] = Leaf(bodies[from])
         /\ \A n \in 2..Len(bodies) : \A from \in 1..Len(bodies) - n + 1 :
              Hashes(bodies)[n][from] =
                Node(Hashes(bodies)[Split(n)][from], Hashes(bodies)[n - Split(n)][from + Split(n)])
<1> DEFINE N == Len(bodies)
           Rule(n, g) == [from \in 1..N - n + 1 |->
                            IF n = 1 THEN Leaf(bodies[from])
                            ELSE Node(g[Split(n)][from], g[n - Split(n)][from + Split(n)])]
           Is(g, l) == g = [n \in 1..l |-> Rule(n, g)]
           S == {l \in Nat : \E g : Is(g, l)}
<1>0. N \in Nat /\ N <= MaxLog /\ MaxLog \in Nat
  BY SigningAssumption
<1>1. 0 \in S
  <2>1. Is([n \in 1..0 |-> 0], 0)
    OBVIOUS
  <2> QED BY <2>1
<1>2. ASSUME NEW l \in 1..N, l - 1 \in S PROVE l \in S
  <2>1. PICK g : Is(g, l - 1)
    BY <1>2
  <2> DEFINE h == [n \in 1..l |-> IF n = l THEN Rule(l, g) ELSE g[n]]
  <2>2. ASSUME NEW n \in 1..l PROVE h[n] = Rule(n, h)
    <3>1. h[n] = Rule(n, g)
      <4>1. n # l => n \in 1..l - 1
        OBVIOUS
      <4> HIDE DEF Rule
      <4> QED BY <2>1, <4>1
    <3>2. n # 1 => h[Split(n)] = g[Split(n)] /\ h[n - Split(n)] = g[n - Split(n)]
      <4> SUFFICES ASSUME n # 1
                   PROVE  h[Split(n)] = g[Split(n)] /\ h[n - Split(n)] = g[n - Split(n)]
        OBVIOUS
      <4>1. n \in 2..MaxLog
        BY <1>0
      <4>2. Split(n) \in 1..n - 1 /\ n - Split(n) \in 1..n - 1
        BY <4>1, SplitBounds
      <4> HIDE DEF Rule
      <4> QED BY <4>2
    <3>3. Rule(n, g) = Rule(n, h)
      <4> HIDE DEF h
      <4> QED BY <3>2
    <3> QED BY <3>1, <3>3
  <2>3. Is(h, l)
    <3>1. h = [n \in 1..l |-> h[n]]
      OBVIOUS
    <3> HIDE DEF h, Rule
    <3> QED BY <2>2, <3>1
  <2> HIDE DEF h
  <2>4. l \in Nat
    BY <1>0
  <2> HIDE DEF Is
  <2> QED BY <2>3, <2>4
<1> HIDE DEF S
<1>3. N \in S
  <2>1. \A l \in 1..N : l - 1 \in S => l \in S
    BY <1>2
  <2> HIDE DEF N
  <2>2. \A i \in 0..N : i \in S
    BY <1>0, <1>1, <2>1, UpTo
  <2> QED BY <1>0, <2>2
<1>4. \E g : Is(g, N)
  BY <1>3 DEF S
<1>5. Is(Hashes(bodies), N)
  BY <1>4 DEF Hashes
<1>6. ASSUME NEW n \in 1..N PROVE Hashes(bodies)[n] = Rule(n, Hashes(bodies))
  <2> HIDE DEF Rule
  <2> QED BY <1>5
<1>7. ASSUME NEW from \in 1..N PROVE Hashes(bodies)[1][from] = Leaf(bodies[from])
  <2>1. 1 \in 1..N /\ from \in 1..N - 1 + 1
    BY <1>0
  <2>2. Rule(1, Hashes(bodies))[from] = Leaf(bodies[from])
    BY <2>1
  <2> HIDE DEF Rule
  <2> QED BY <1>6, <2>1, <2>2
<1>8. ASSUME NEW n \in 2..N, NEW from \in 1..N - n + 1
      PROVE  Hashes(bodies)[n][from] =
                Node(Hashes(bodies)[Split(n)][from], Hashes(bodies)[n - Split(n)][from + Split(n)])
  <2>1. n \in 1..N /\ n # 1
    BY <1>0
  <2> QED BY <1>6, <2>1
<1> QED BY <1>7, <1>8

\* The path to a leaf is the one in its half, and the other half's hash.
LEMMA PathsAre ==
  ASSUME NEW bodies, Len(bodies) \in 0..MaxLog
  PROVE  /\ \A from \in 1..Len(bodies) : Paths(bodies)[1][from][0] = <<>>
         /\ \A n \in 2..Len(bodies) : \A from \in 1..Len(bodies) - n + 1 : \A i \in 0..n - 1 :
              Paths(bodies)[n][from][i] =
                IF i < Split(n)
                THEN Append(Paths(bodies)[Split(n)][from][i], Hashes(bodies)[n - Split(n)][from + Split(n)])
                ELSE Append(Paths(bodies)[n - Split(n)][from + Split(n)][i - Split(n)],
                            Hashes(bodies)[Split(n)][from])
<1> DEFINE N == Len(bodies)
           H == Hashes(bodies)
           At(n, g, from, i) ==
             IF n = 1 THEN <<>>
             ELSE IF i < Split(n) THEN Append(g[Split(n)][from][i], H[n - Split(n)][from + Split(n)])
             ELSE Append(g[n - Split(n)][from + Split(n)][i - Split(n)], H[Split(n)][from])
           Rule(n, g) == [from \in 1..N - n + 1 |-> [i \in 0..n - 1 |-> At(n, g, from, i)]]
           Is(g, l) == g = [n \in 1..l |-> Rule(n, g)]
           S == {l \in Nat : \E g : Is(g, l)}
<1>0. N \in Nat /\ N <= MaxLog /\ MaxLog \in Nat
  BY SigningAssumption
<1>1. 0 \in S
  <2>1. Is([n \in 1..0 |-> 0], 0)
    OBVIOUS
  <2> QED BY <2>1
<1>2. ASSUME NEW l \in 1..N, l - 1 \in S PROVE l \in S
  <2>1. PICK g : Is(g, l - 1)
    BY <1>2
  <2> DEFINE h == [n \in 1..l |-> IF n = l THEN Rule(l, g) ELSE g[n]]
  <2>2. ASSUME NEW n \in 1..l PROVE h[n] = Rule(n, h)
    <3>1. h[n] = Rule(n, g)
      <4>1. n # l => n \in 1..l - 1
        OBVIOUS
      <4> HIDE DEF Rule
      <4> QED BY <2>1, <4>1
    <3>2. n # 1 => h[Split(n)] = g[Split(n)] /\ h[n - Split(n)] = g[n - Split(n)]
      <4> SUFFICES ASSUME n # 1
                   PROVE  h[Split(n)] = g[Split(n)] /\ h[n - Split(n)] = g[n - Split(n)]
        OBVIOUS
      <4>1. n \in 2..MaxLog
        BY <1>0
      <4>2. Split(n) \in 1..n - 1 /\ n - Split(n) \in 1..n - 1
        BY <4>1, SplitBounds
      <4> HIDE DEF Rule
      <4> QED BY <4>2
    <3>3. \A from, i : At(n, g, from, i) = At(n, h, from, i)
      <4> HIDE DEF h, H
      <4> QED BY <3>2
    <3>4. Rule(n, g) = Rule(n, h)
      <4> HIDE DEF h, At
      <4> QED BY <3>3
    <3> QED BY <3>1, <3>4
  <2>3. Is(h, l)
    <3>1. h = [n \in 1..l |-> h[n]]
      OBVIOUS
    <3> HIDE DEF h, Rule
    <3> QED BY <2>2, <3>1
  <2> HIDE DEF h
  <2>4. l \in Nat
    BY <1>0
  <2> HIDE DEF Is
  <2> QED BY <2>3, <2>4
<1> HIDE DEF S
<1>3. N \in S
  <2>1. \A l \in 1..N : l - 1 \in S => l \in S
    BY <1>2
  <2> HIDE DEF N
  <2>2. \A i \in 0..N : i \in S
    BY <1>0, <1>1, <2>1, UpTo
  <2> QED BY <1>0, <2>2
<1>4. \E g : Is(g, N)
  BY <1>3 DEF S
<1>5. Is(Paths(bodies), N)
  BY <1>4 DEF Paths
<1>6. ASSUME NEW n \in 1..N, NEW from \in 1..N - n + 1, NEW i \in 0..n - 1
      PROVE  Paths(bodies)[n][from][i] = At(n, Paths(bodies), from, i)
  <2>1. Paths(bodies)[n] = Rule(n, Paths(bodies))
    <3> HIDE DEF Rule
    <3> QED BY <1>5
  <2> HIDE DEF At
  <2> QED BY <2>1
<1>7. ASSUME NEW from \in 1..N PROVE Paths(bodies)[1][from][0] = <<>>
  <2>1. 1 \in 1..N /\ from \in 1..N - 1 + 1 /\ 0 \in 0..1 - 1
    BY <1>0
  <2>2. At(1, Paths(bodies), from, 0) = <<>>
    OBVIOUS
  <2> HIDE DEF At
  <2> QED BY <1>6, <2>1, <2>2
<1>8. ASSUME NEW n \in 2..N, NEW from \in 1..N - n + 1, NEW i \in 0..n - 1
      PROVE  Paths(bodies)[n][from][i] =
                IF i < Split(n) THEN Append(Paths(bodies)[Split(n)][from][i], H[n - Split(n)][from + Split(n)])
                ELSE Append(Paths(bodies)[n - Split(n)][from + Split(n)][i - Split(n)], H[Split(n)][from])
  <2>1. n \in 1..N /\ n # 1
    BY <1>0
  <2> QED BY <1>6, <2>1
<1> QED BY <1>7, <1>8

\* What holds of a number when it holds of those before it holds of all.
LEMMA Below ==
  ASSUME NEW n \in Nat, NEW S, \A k \in 1..n : (\A m \in 1..k - 1 : m \in S) => k \in S
  PROVE  \A k \in 1..n : k \in S
<1> SUFFICES ASSUME NEW x \in 1..n, x \notin S PROVE FALSE
  OBVIOUS
<1> DEFINE T == {k \in 1..n : k \notin S}
<1>1. PICK k \in T : \A j \in T : k <= j
  <2>1. T \in SUBSET Nat /\ T # {}
    OBVIOUS
  <2> HIDE DEF T
  <2> QED BY <2>1, SomeIsLeast
<1>2. k \in 1..n /\ k \notin S /\ \A m \in 1..k - 1 : m \in S
  BY <1>1
<1> QED BY <1>2

\* A sequence and one element more.
LEMMA Appended ==
  ASSUME NEW T, NEW s \in Seq(T), NEW x \in T, NEW d \in Nat, Len(s) = d, NEW a, a = Append(s, x)
  PROVE  /\ a \in Seq(T) /\ Len(a) = d + 1
         /\ \A q \in 1..d : a[q] = s[q]
         /\ a[d + 1] = x
OBVIOUS

\* The path to a leaf has as many hashes as the proof of its place has.
LEMMA PathsAreDeep ==
  ASSUME NEW bodies, Len(bodies) \in 0..MaxLog
  PROVE  \E T :
           /\ \A n \in Nat, from \in Nat : Hashes(bodies)[n][from] \in T
           /\ \A n \in 1..Len(bodies) : \A from \in 1..Len(bodies) - n + 1 : \A i \in 0..n - 1 :
                /\ Paths(bodies)[n][from][i] \in Seq(T)
                /\ Len(Paths(bodies)[n][from][i]) = Depth(i, n)
<1> DEFINE N == Len(bodies)
           H == Hashes(bodies)
           P == Paths(bodies)
           T == {H[x[1]][x[2]] : x \in Nat \X Nat}
           Fits(n, from, i) == P[n][from][i] \in Seq(T) /\ Len(P[n][from][i]) = Depth(i, n)
           S == {n \in 1..N : \A from \in 1..N - n + 1 : \A i \in 0..n - 1 : Fits(n, from, i)}
<1>0. N \in Nat /\ N <= MaxLog /\ MaxLog \in Nat
  BY SigningAssumption
<1>1. \A k \in Nat, from \in Nat : H[k][from] \in T
  <2> TAKE k \in Nat, from \in Nat
  <2>1. <<k, from>> \in Nat \X Nat /\ H[k][from] = H[<<k, from>>[1]][<<k, from>>[2]]
    OBVIOUS
  <2> HIDE DEF H
  <2> QED BY <2>1
<1> HIDE DEF T
<1>2. ASSUME NEW n \in 1..N, \A m \in 1..n - 1 : m \in S PROVE n \in S
  <2> SUFFICES ASSUME NEW from \in 1..N - n + 1, NEW i \in 0..n - 1 PROVE Fits(n, from, i)
    OBVIOUS
  <2>1. CASE n = 1
    <3>1. i = 0 /\ from \in 1..N /\ MaxLog >= 1
      BY <1>0, <2>1
    <3>2. P[1][from][0] = <<>>
      BY <3>1, PathsAre
    <3>3. Depth(0, 1) = 0
      BY <3>1, OneLeaf
    <3> QED BY <2>1, <3>1, <3>2, <3>3
  <2>2. CASE n # 1
    <3> DEFINE k == Split(n)
    <3>1. n \in 2..MaxLog /\ n \in 2..N
      BY <1>0, <2>2
    <3>2. k \in 1..n - 1 /\ n - k \in 1..n - 1
      BY <3>1, SplitBounds
    <3>3. P[n][from][i] = IF i < k THEN Append(P[k][from][i], H[n - k][from + k])
                          ELSE Append(P[n - k][from + k][i - k], H[k][from])
      BY <3>1, PathsAre
    <3>4. H[n - k][from + k] \in T /\ H[k][from] \in T
      BY <1>1, <3>2
    <3>5. CASE i < k
      <4>1. from \in 1..N - k + 1 /\ i \in 0..k - 1
        <5> HIDE DEF k
        <5> QED BY <1>0, <3>2, <3>5
      <4>2. Fits(k, from, i)
        <5>1. k \in S
          <6> HIDE DEF S
          <6> QED BY <1>2, <3>2
        <5> QED BY <4>1, <5>1
      <4>3. Depth(i, n) = Depth(i, k) + 1
        BY <3>1, <3>5, LeftSubtree
      <4>4. P[n][from][i] = Append(P[k][from][i], H[n - k][from + k])
        BY <3>3, <3>5
      <4>5. Depth(i, k) \in Nat
        <5>1. i \in 0..MaxLog /\ k \in 1..MaxLog
          BY <1>0, <3>1, <3>2
        <5> QED BY <5>1, DepthIs
      <4> DEFINE s == P[k][from][i]
                 x == H[n - k][from + k]
                 a == P[n][from][i]
                 d == Depth(i, k)
      <4>6. s \in Seq(T) /\ x \in T /\ d \in Nat /\ Len(s) = d /\ a = Append(s, x)
        BY <3>4, <4>2, <4>4, <4>5
      <4>7. Fits(n, from, i) <=> a \in Seq(T) /\ Len(a) = Depth(i, n)
        OBVIOUS
      <4>8. Depth(i, n) = d + 1
        BY <4>3
      <4> HIDE DEF s, x, a, d, Fits
      <4> QED BY <4>6, <4>7, <4>8, Appended
    <3>6. CASE ~(i < k)
      <4>i. i >= k
        BY <3>2, <3>6
      <4>1. from + k \in 1..N - (n - k) + 1 /\ i - k \in 0..n - k - 1
        <5> HIDE DEF k
        <5> QED BY <1>0, <3>2, <3>6
      <4>2. Fits(n - k, from + k, i - k)
        <5>1. n - k \in S
          <6> HIDE DEF S
          <6> QED BY <1>2, <3>2
        <5> QED BY <4>1, <5>1
      <4>3. Depth(i, n) = Depth(i - k, n - k) + 1
        BY <3>1, <4>i, RightSubtree
      <4>4. P[n][from][i] = Append(P[n - k][from + k][i - k], H[k][from])
        BY <3>3, <3>6
      <4>5. Depth(i - k, n - k) \in Nat
        <5>1. i - k \in 0..MaxLog /\ n - k \in 1..MaxLog
          <6> HIDE DEF k
          <6> QED BY <1>0, <3>1, <3>2, <4>i
        <5> QED BY <5>1, DepthIs
      <4> DEFINE s == P[n - k][from + k][i - k]
                 x == H[k][from]
                 a == P[n][from][i]
                 d == Depth(i - k, n - k)
      <4>6. s \in Seq(T) /\ x \in T /\ d \in Nat /\ Len(s) = d /\ a = Append(s, x)
        BY <3>4, <4>2, <4>4, <4>5
      <4>7. Fits(n, from, i) <=> a \in Seq(T) /\ Len(a) = Depth(i, n)
        OBVIOUS
      <4>8. Depth(i, n) = d + 1
        BY <4>3
      <4> HIDE DEF s, x, a, d, Fits
      <4> QED BY <4>6, <4>7, <4>8, Appended
    <3> QED BY <3>5, <3>6
  <2> QED BY <2>1, <2>2
<1>3. \A n \in 1..N : n \in S
  <2> HIDE DEF S, N
  <2>1. \A k \in 1..N : (\A m \in 1..k - 1 : m \in S) => k \in S
    BY <1>2
  <2> QED BY <1>0, <2>1, Below
<1>4. \A n \in 1..N : \A from \in 1..N - n + 1 : \A i \in 0..n - 1 : Fits(n, from, i)
  BY <1>3
<1> QED BY <1>1, <1>4

\* A climb reaches the hash of a subtree exactly from its leaf, beside its path.
LEMMA ClimbsAreOfLeaves ==
  ASSUME NEW bodies, Len(bodies) \in 0..MaxLog, NEW b, NEW proof, Len(proof) \in Nat
  PROVE  \A n \in 1..Len(bodies) : \A from \in 1..Len(bodies) - n + 1 : \A i \in 0..n - 1 :
           Depth(i, n) <= Len(proof)
           => ( Climb(i, n, Leaf(b), proof)[Depth(i, n)] = Hashes(bodies)[n][from]
                <=> /\ b = bodies[from + i]
                    /\ \A q \in 1..Depth(i, n) : proof[q] = Paths(bodies)[n][from][i][q] )
<1> DEFINE N == Len(bodies)
           H == Hashes(bodies)
           P == Paths(bodies)
           C(i, n) == Climb(i, n, Leaf(b), proof)
           Fits(n, from, i) ==
             Depth(i, n) <= Len(proof)
             => ( C(i, n)[Depth(i, n)] = H[n][from]
                  <=> /\ b = bodies[from + i]
                      /\ \A q \in 1..Depth(i, n) : proof[q] = P[n][from][i][q] )
           S == {n \in 1..N : \A from \in 1..N - n + 1 : \A i \in 0..n - 1 : Fits(n, from, i)}
<1>0. N \in Nat /\ N <= MaxLog /\ MaxLog \in Nat
  BY SigningAssumption
<1>t. PICK T :
        /\ \A n \in Nat, from \in Nat : H[n][from] \in T
        /\ \A n \in 1..N : \A from \in 1..N - n + 1 : \A i \in 0..n - 1 :
             P[n][from][i] \in Seq(T) /\ Len(P[n][from][i]) = Depth(i, n)
  BY PathsAreDeep
<1>1. \A n \in 1..N : \A from \in 1..N - n + 1 : \A i \in 0..n - 1 :
        P[n][from][i] \in Seq(T) /\ Len(P[n][from][i]) = Depth(i, n)
  BY <1>t
<1>2. ASSUME NEW n \in 1..N, \A m \in 1..n - 1 : m \in S PROVE n \in S
  <2> SUFFICES ASSUME NEW from \in 1..N - n + 1, NEW i \in 0..n - 1, Depth(i, n) <= Len(proof)
               PROVE  Fits(n, from, i)
    OBVIOUS
  <2>1. CASE n = 1
    <3>1. i = 0 /\ from \in 1..N /\ MaxLog >= 1 /\ from + 0 = from
      BY <1>0, <2>1
    <3>2. H[1][from] = Leaf(bodies[from])
      BY <3>1, HashesAre
    <3>3. Depth(0, 1) = 0
      BY <3>1, OneLeaf
    <3>4. C(0, 1)[0] = Leaf(b)
      BY ClimbIs
    <3>5. Leaf(b) = Leaf(bodies[from]) <=> b = bodies[from]
      BY DEF Leaf
    <3>6. \A q \in 1..0 : FALSE
      OBVIOUS
    <3> HIDE DEF H, P, C
    <3> QED BY <2>1, <3>1, <3>2, <3>3, <3>4, <3>5, <3>6
  <2>2. CASE n # 1
    <3> DEFINE k == Split(n)
    <3>1. n \in 2..MaxLog /\ n \in 2..N
      BY <1>0, <2>2
    <3>2. k \in 1..n - 1 /\ n - k \in 1..n - 1
      BY <3>1, SplitBounds
    <3>3. P[n][from][i] = IF i < k THEN Append(P[k][from][i], H[n - k][from + k])
                          ELSE Append(P[n - k][from + k][i - k], H[k][from])
      BY <3>1, PathsAre
    <3>4. H[n][from] = Node(H[k][from], H[n - k][from + k])
      BY <3>1, HashesAre
    <3>n. \A x, y, z, w : Node(x, y) = Node(z, w) <=> x = z /\ y = w
      BY DEF Node
    <3>t. H[n - k][from + k] \in T /\ H[k][from] \in T
      BY <1>t, <3>2
    <3>5. CASE i < k
      <4> DEFINE d == Depth(i, k)
      <4>1. from \in 1..N - k + 1 /\ i \in 0..k - 1
        <5> HIDE DEF k
        <5> QED BY <1>0, <3>2, <3>5
      <4>2. Fits(k, from, i)
        <5>1. k \in S
          <6> HIDE DEF S
          <6> QED BY <1>2, <3>2
        <5> QED BY <4>1, <5>1
      <4>3. /\ Depth(i, n) = d + 1 /\ IsLeft(i, n, d + 1)
            /\ \A p \in 1..d : IsLeft(i, n, p) = IsLeft(i, k, p)
        BY <3>1, <3>5, LeftSubtree
      <4>4. d \in Nat /\ P[k][from][i] \in Seq(T) /\ Len(P[k][from][i]) = d
        <5>1. k \in 1..N
          BY <3>1, <3>2
        <5>2. i \in 0..MaxLog /\ k \in 1..MaxLog
          BY <1>0, <3>1, <3>2
        <5> QED BY <1>1, <4>1, <5>1, <5>2, DepthIs
      <4>5. P[n][from][i] = Append(P[k][from][i], H[n - k][from + k])
        BY <3>3, <3>5
      <4>6. P[n][from][i][d + 1] = H[n - k][from + k] /\ \A q \in 1..d : P[n][from][i][q] = P[k][from][i][q]
        <5> DEFINE s == P[k][from][i]
                   x == H[n - k][from + k]
                   a == P[n][from][i]
        <5>1. s \in Seq(T) /\ x \in T /\ Len(s) = d /\ a = Append(s, x)
          BY <3>t, <4>4, <4>5
        <5>2. d \in Nat
          BY <4>4
        <5> HIDE DEF s, x, a, d
        <5>3. a[d + 1] = x /\ \A q \in 1..d : a[q] = s[q]
          BY <5>1, <5>2, Appended
        <5> QED BY <5>3 DEF s, x, a
      <4> HIDE DEF d
      <4>7. d \in 0..Len(proof) /\ d + 1 \in 1..Len(proof) /\ (d + 1) - 1 = d
        BY <4>3, <4>4
      <4>8. C(i, n)[d] = C(i, k)[d]
        BY <4>3, <4>7, SameClimb
      <4>9. C(i, n)[d + 1] = Node(C(i, n)[d], proof[d + 1])
        BY <4>3, <4>7, ClimbIs
      <4>10. C(i, k)[d] = H[k][from] <=> b = bodies[from + i] /\ \A q \in 1..d : proof[q] = P[k][from][i][q]
        BY <4>2, <4>7 DEF d
      <4>11. C(i, n)[d + 1] = H[n][from] <=> C(i, k)[d] = H[k][from] /\ proof[d + 1] = H[n - k][from + k]
        BY <3>4, <3>n, <4>8, <4>9
      <4>12. (\A q \in 1..d + 1 : proof[q] = P[n][from][i][q])
             <=> (\A q \in 1..d : proof[q] = P[n][from][i][q]) /\ proof[d + 1] = P[n][from][i][d + 1]
        <5>1. \A q : q \in 1..d + 1 <=> q \in 1..d \/ q = d + 1
          <6>1. d \in Nat
            BY <4>4
          <6> QED BY <6>1
        <5> QED BY <5>1
      <4> HIDE DEF H, P, k, C
      <4> QED BY <4>3, <4>6, <4>10, <4>11, <4>12
    <3>6. CASE ~(i < k)
      <4>i. i >= k
        BY <3>2, <3>6
      <4> DEFINE k2 == n - k
                 i2 == i - k
                 from2 == from + k
                 d == Depth(i2, k2)
      <4>1. from2 \in 1..N - k2 + 1 /\ i2 \in 0..k2 - 1 /\ from2 + i2 = from + i
        <5> HIDE DEF k
        <5> QED BY <1>0, <3>2, <4>i
      <4>2. Fits(k2, from2, i2)
        <5>1. k2 \in S
          <6> HIDE DEF S
          <6> QED BY <1>2, <3>2
        <5> QED BY <4>1, <5>1
      <4>3. /\ Depth(i, n) = d + 1 /\ ~IsLeft(i, n, d + 1)
            /\ \A p \in 1..d : IsLeft(i, n, p) = IsLeft(i2, k2, p)
        BY <3>1, <4>i, RightSubtree
      <4>5. P[n][from][i] = Append(P[k2][from2][i2], H[k][from])
        BY <3>3, <3>6
      <4>f. H[n][from] = Node(H[k][from], H[k2][from2])
        BY <3>4
      <4>k. k2 \in 1..n - 1
        BY <3>2
      <4> HIDE DEF k2, i2, from2
      <4>4. d \in Nat /\ P[k2][from2][i2] \in Seq(T) /\ Len(P[k2][from2][i2]) = d
        <5>1. k2 \in 1..N
          BY <3>1, <4>k
        <5>2. i2 \in 0..MaxLog /\ k2 \in 1..MaxLog
          BY <1>0, <3>1, <4>k, <4>1
        <5> QED BY <1>1, <4>1, <5>1, <5>2, DepthIs
      <4>6. P[n][from][i][d + 1] = H[k][from] /\ \A q \in 1..d : P[n][from][i][q] = P[k2][from2][i2][q]
        <5> DEFINE s == P[k2][from2][i2]
                   x == H[k][from]
                   a == P[n][from][i]
        <5>1. s \in Seq(T) /\ x \in T /\ Len(s) = d /\ a = Append(s, x)
          BY <3>t, <4>4, <4>5
        <5>2. d \in Nat
          BY <4>4
        <5> HIDE DEF s, x, a, d
        <5>3. a[d + 1] = x /\ \A q \in 1..d : a[q] = s[q]
          BY <5>1, <5>2, Appended
        <5> QED BY <5>3 DEF s, x, a
      <4> HIDE DEF d
      <4>7. d \in 0..Len(proof) /\ d + 1 \in 1..Len(proof) /\ (d + 1) - 1 = d
        BY <4>3, <4>4
      <4>8. C(i, n)[d] = C(i2, k2)[d]
        BY <4>3, <4>7, SameClimb
      <4>9. C(i, n)[d + 1] = Node(proof[d + 1], C(i, n)[d])
        BY <4>3, <4>7, ClimbIs
      <4>10. C(i2, k2)[d] = H[k2][from2]
             <=> b = bodies[from + i] /\ \A q \in 1..d : proof[q] = P[k2][from2][i2][q]
        <5>1. d <= Len(proof) /\ from2 + i2 = from + i
          BY <4>1, <4>7
        <5> HIDE DEF H, P, C
        <5> QED BY <4>2, <5>1 DEF d
      <4>11. C(i, n)[d + 1] = H[n][from] <=> C(i2, k2)[d] = H[k2][from2] /\ proof[d + 1] = H[k][from]
        BY <4>f, <3>n, <4>8, <4>9
      <4>12. (\A q \in 1..d + 1 : proof[q] = P[n][from][i][q])
             <=> (\A q \in 1..d : proof[q] = P[n][from][i][q]) /\ proof[d + 1] = P[n][from][i][d + 1]
        <5>1. \A q : q \in 1..d + 1 <=> q \in 1..d \/ q = d + 1
          <6>1. d \in Nat
            BY <4>4
          <6> QED BY <6>1
        <5> QED BY <5>1
      <4> HIDE DEF H, P, k, C
      <4> QED BY <4>3, <4>6, <4>10, <4>11, <4>12
    <3> QED BY <3>5, <3>6
  <2> QED BY <2>1, <2>2
<1>3. \A n \in 1..N : n \in S
  <2> HIDE DEF S, N
  <2>1. \A k \in 1..N : (\A m \in 1..k - 1 : m \in S) => k \in S
    BY <1>2
  <2> QED BY <1>0, <2>1, Below
<1>4. \A n \in 1..N : \A from \in 1..N - n + 1 : \A i \in 0..n - 1 : Fits(n, from, i)
  <2> HIDE DEF Fits
  <2> QED BY <1>3
<1> QED BY <1>4

\* The root that root_from_inclusion computes is the tree's exactly if the leaf
\* is the tree's at the index and the proof has the hashes beside the way from
\* it to the root, for every size of the tree and every place in it.
THEOREM ProofsAreOfLeaves ==
  ASSUME NEW S, NEW bodies \in Seq(S), Len(bodies) \in 1..MaxLog, NEW index \in Nat, NEW body,
         NEW T, NEW proof \in Seq(T)
  PROVE  RootFromInclusion(index, Len(bodies), Leaf(body), proof) = {TreeHash(bodies)}
         <=> index < Len(bodies) /\ body = bodies[index + 1] /\ proof = AuditPath(index, bodies)
<1> DEFINE N == Len(bodies)
           path == Paths(bodies)[N][1][index]
<1>0. N \in Nat /\ N \in 1..N /\ 1 \in 1..N - N + 1 /\ N <= MaxLog /\ MaxLog \in Nat
  BY SigningAssumption
<1>1. CASE index >= N
  <2>1. RootFromInclusion(index, N, Leaf(body), proof) = {} /\ ~(index < N)
    BY <1>0, <1>1 DEF RootFromInclusion
  <2> QED BY <2>1
<1>2. CASE index < N
  <2>1. index \in 0..N - 1 /\ ~(index >= N) /\ 1 + index = index + 1
    BY <1>0, <1>2
  <2>2. PICK U : path \in Seq(U) /\ Len(path) = Depth(index, N)
    <3>1. PICK U : \A n \in 1..N : \A from \in 1..N - n + 1 : \A i \in 0..n - 1 :
                     /\ Paths(bodies)[n][from][i] \in Seq(U)
                     /\ Len(Paths(bodies)[n][from][i]) = Depth(i, n)
      <4>1. Len(bodies) \in 0..MaxLog
        BY <1>0
      <4> QED BY <4>1, PathsAreDeep
    <3> HIDE DEF N
    <3>2. path \in Seq(U) /\ Len(path) = Depth(index, N)
      BY <1>0, <2>1, <3>1
    <3> QED BY <3>2
  <2>3. CASE Len(proof) # Depth(index, N)
    <3>1. RootFromInclusion(index, N, Leaf(body), proof) = {}
      BY <2>3 DEF RootFromInclusion, Depth
    <3>2. proof # path
      BY <2>2, <2>3
    <3> QED BY <3>1, <3>2 DEF AuditPath
  <2>4. CASE Len(proof) = Depth(index, N)
    <3>1. RootFromInclusion(index, N, Leaf(body), proof) = {Climb(index, N, Leaf(body), proof)[Len(proof)]}
      BY <2>1, <2>4 DEF RootFromInclusion, Depth
    <3>2. Len(proof) \in Nat
      OBVIOUS
    <3>3. Climb(index, N, Leaf(body), proof)[Len(proof)] = TreeHash(bodies)
          <=> /\ body = bodies[index + 1]
              /\ \A q \in 1..Len(proof) : proof[q] = path[q]
      <4>1. N \in 0..MaxLog
        BY <1>0
      <4>2. \A n \in 1..N : \A from \in 1..N - n + 1 : \A i \in 0..n - 1 :
              Depth(i, n) <= Len(proof)
              => ( Climb(i, n, Leaf(body), proof)[Depth(i, n)] = Hashes(bodies)[n][from]
                   <=> /\ body = bodies[from + i]
                       /\ \A q \in 1..Depth(i, n) : proof[q] = Paths(bodies)[n][from][i][q] )
        BY <3>2, <4>1, ClimbsAreOfLeaves
      <4>3. N \in 1..N /\ 1 \in 1..N - N + 1 /\ index \in 0..N - 1
            /\ Depth(index, N) <= Len(proof) /\ bodies[1 + index] = bodies[index + 1]
        BY <1>0, <2>1, <2>4, <3>2
      <4> HIDE DEF N
      <4>4. Climb(index, N, Leaf(body), proof)[Depth(index, N)] = Hashes(bodies)[N][1]
            <=> /\ body = bodies[1 + index]
                /\ \A q \in 1..Depth(index, N) : proof[q] = Paths(bodies)[N][1][index][q]
        BY <4>2, <4>3
      <4> QED BY <2>4, <4>3, <4>4 DEF TreeHash, N
    <3> HIDE DEF path
    <3>4. (\A q \in 1..Len(proof) : proof[q] = path[q]) <=> proof = path
      BY <2>2, <2>4
    <3> QED BY <1>2, <3>1, <3>3, <3>4 DEF path, AuditPath
  <2> QED BY <2>3, <2>4
<1> QED BY <1>0, <1>1, <1>2

-----------------------------------------------------------------------------
(* Attestations and signatures.                                            *)

FilesShape ==
  files = [package |-> files.package, envelope |-> files.envelope, entry |-> files.entry,
           listed |-> files.listed, signature |-> files.signature]

AttestingShape ==
  attesting = [step |-> attesting.step, envelope |-> attesting.envelope,
               answer |-> attesting.answer]

SigningShape == signing = [step |-> signing.step, replaced |-> signing.replaced]

\* A statement has its number for good, and one that lies beside the package or
\* is on its way there has been made.
SigningInv ==
  /\ FilesShape /\ AttestingShape /\ SigningShape
  /\ statements \in Seq(Statement) /\ files.package \in Contents
  /\ files.envelope \in 0..Len(statements) /\ attesting.envelope \in 0..Len(statements)
  /\ SignedIsAttested

SigningSpec == SigningInit /\ [][SigningNext]_signVars

\* Every step keeps what is known of the attestation and its entry.
LEMMA SigningStep ==
  ASSUME SigningInv, [SigningNext]_signVars
  PROVE  SigningInv'
<1> PICK f : f = files
  OBVIOUS
<1> PICK a : a = attesting
  OBVIOUS
<1>f. f = [package |-> f.package, envelope |-> f.envelope, entry |-> f.entry,
           listed |-> f.listed, signature |-> f.signature]
  BY DEF SigningInv, FilesShape
<1>a. a = [step |-> a.step, envelope |-> a.envelope, answer |-> a.answer]
  BY DEF SigningInv, AttestingShape
<1>s. Len(statements) \in Nat
  BY DEF SigningInv
<1>1. ASSUME UNCHANGED <<statements, files, signing>>, AttestingShape',
             attesting'.envelope \in 0..Len(statements)
      PROVE  SigningInv'
  BY <1>1 DEF SigningInv, FilesShape, SigningShape, SignedIsAttested, Attested
<1>2. CASE UNCHANGED signVars
  BY <1>1, <1>2 DEF signVars, SigningInv, AttestingShape
<1>3. CASE Attest
  <2> PICK k \in Keys : statements' = Append(statements, [subject |-> files.package, key |-> k])
    BY <1>3 DEF Attest
  <2> PICK new : new = [subject |-> files.package, key |-> k]
    OBVIOUS
  <2>1. new \in Statement
    BY DEF SigningInv, Statement
  <2>2. /\ statements' \in Seq(Statement) /\ Len(statements') = Len(statements) + 1
        /\ \A i \in 1..Len(statements) : statements'[i] = statements[i]
    BY <2>1, AppendProperties DEF SigningInv
  <2>3. files' = files /\ attesting' = [step |-> "write", envelope |-> Len(statements'),
                                        answer |-> NoLogEntry]
    BY <1>3 DEF Attest, NotAttesting
  <2>4. AttestingShape' /\ attesting'.envelope \in 0..Len(statements')
    BY <1>s, <2>2, <2>3 DEF AttestingShape
  <2>5. files'.envelope \in 0..Len(statements') /\ FilesShape'
    BY <1>s, <2>2, <2>3 DEF SigningInv, FilesShape
  <2>6. \A c : Attested(c) => Attested(c)'
    BY <1>s, <2>2 DEF Attested
  <2>7. signing' = signing
    BY <1>3 DEF Attest
  <2>8. SignedIsAttested'
    BY <2>3, <2>6, <2>7 DEF SigningInv, SignedIsAttested
  <2>9. SigningShape'
    BY <2>7 DEF SigningInv, SigningShape
  <2> QED BY <2>2, <2>3, <2>4, <2>5, <2>8, <2>9 DEF SigningInv
<1>4. ASSUME UNCHANGED <<statements, signing>>, FilesShape', AttestingShape',
             files'.package = files.package, files'.envelope \in 0..Len(statements),
             files'.signature = files.signature, attesting'.envelope \in 0..Len(statements)
      PROVE  SigningInv'
  BY <1>4 DEF SigningInv, SigningShape, SignedIsAttested, Attested
<1>5. CASE WriteEnvelope
  <2>1. files' = [f EXCEPT !.envelope = a.envelope] /\ attesting' = [a EXCEPT !.step = "upload"]
        /\ UNCHANGED <<statements, signing>>
    BY <1>5 DEF WriteEnvelope
  <2>2. files' = [package |-> f.package, envelope |-> a.envelope, entry |-> f.entry,
                  listed |-> f.listed, signature |-> f.signature]
    BY <1>f, <2>1
  <2>3. attesting' = [step |-> "upload", envelope |-> a.envelope, answer |-> a.answer]
    BY <1>a, <2>1
  <2>4. FilesShape' /\ AttestingShape'
    BY <2>2, <2>3 DEF FilesShape, AttestingShape
  <2> QED BY <1>4, <2>1, <2>2, <2>3, <2>4 DEF SigningInv
<1>6. CASE UploadStatement
  <2>1. PICK answer : /\ attesting' = [a EXCEPT !.step = "store", !.answer = answer]
                      /\ UNCHANGED <<statements, files, signing>>
    BY <1>6 DEF UploadStatement
  <2>2. attesting' = [step |-> "store", envelope |-> a.envelope, answer |-> answer]
    BY <1>a, <2>1
  <2> QED BY <1>1, <2>1, <2>2 DEF SigningInv, AttestingShape
<1>7. CASE StoreEntry
  <2>1. files' = [f EXCEPT !.entry = a.answer] /\ attesting' = NotAttesting
        /\ UNCHANGED <<statements, signing>>
    BY <1>7 DEF StoreEntry
  <2>2. files' = [package |-> f.package, envelope |-> f.envelope, entry |-> a.answer,
                  listed |-> f.listed, signature |-> f.signature]
    BY <1>f, <2>1
  <2>3. FilesShape' /\ AttestingShape' /\ attesting'.envelope = 0
    BY <2>1, <2>2 DEF FilesShape, AttestingShape, NotAttesting
  <2> QED BY <1>4, <1>s, <2>1, <2>2, <2>3 DEF SigningInv
<1>8. CASE AttestEnds
  BY <1>1, <1>8, <1>s DEF AttestEnds, AttestingShape, NotAttesting
<1>9. CASE Rebuild
  <2>1. PICK c \in Contents : files' = [f EXCEPT !.package = c]
    BY <1>9 DEF Rebuild
  <2>2. files' = [package |-> c, envelope |-> f.envelope, entry |-> f.entry,
                  listed |-> f.listed, signature |-> f.signature]
    BY <1>f, <2>1
  <2>3. /\ UNCHANGED <<statements, attesting>>
        /\ signing' = [step |-> signing.step, replaced |-> signing.replaced \/ signing.step = "gpg"]
    BY <1>9 DEF Rebuild, SigningInv, SigningShape
  <2>4. FilesShape' /\ AttestingShape' /\ SigningShape'
    BY <2>2, <2>3 DEF FilesShape, AttestingShape, SigningShape, SigningInv
  <2>5. SignedIsAttested'
    BY <2>2, <2>3 DEF SigningInv, SignedIsAttested, Attested
  <2> QED BY <2>2, <2>3, <2>4, <2>5 DEF SigningInv
<1>10. CASE WriteListing
  <2>1. files' = [f EXCEPT !.listed = {f.package}] /\ UNCHANGED <<statements, attesting, signing>>
    BY <1>10 DEF WriteListing
  <2>2. files' = [package |-> f.package, envelope |-> f.envelope, entry |-> f.entry,
                  listed |-> {f.package}, signature |-> f.signature]
    BY <1>f, <2>1
  <2>3. FilesShape' /\ AttestingShape'
    BY <2>1, <2>2 DEF FilesShape, AttestingShape, SigningInv
  <2> QED BY <1>4, <2>1, <2>2, <2>3 DEF SigningInv
<1>11. CASE CheckPackage
  <2>1. /\ UNCHANGED <<statements, files, attesting>> /\ signing' = [step |-> "gpg", replaced |-> FALSE]
        /\ f.signature = {} /\ f.envelope # 0
        /\ statements[f.envelope] \in [subject : {f.package}, key : BuildKeys]
    BY <1>11 DEF CheckPackage, Passes, Vouched
  <2>2. f.envelope \in 1..Len(statements)
    BY <1>s, <2>1 DEF SigningInv
  <2>3. Attested(f.package)
    BY <2>1, <2>2 DEF Attested
  <2>4. SignedIsAttested'
    BY <2>1, <2>3 DEF SignedIsAttested, Attested
  <2>5. FilesShape' /\ AttestingShape' /\ SigningShape'
    BY <2>1 DEF FilesShape, AttestingShape, SigningShape, SigningInv
  <2> QED BY <2>1, <2>4, <2>5 DEF SigningInv
<1>12. CASE GpgSign
  <2>1. /\ files' = [f EXCEPT !.signature = {f.package}] /\ UNCHANGED <<statements, attesting>>
        /\ signing.step = "gpg" /\ signing' = [step |-> "none", replaced |-> signing.replaced]
    BY <1>12 DEF GpgSign, SigningInv, SigningShape
  <2>2. files' = [package |-> f.package, envelope |-> f.envelope, entry |-> f.entry,
                  listed |-> f.listed, signature |-> {f.package}]
    BY <1>f, <2>1
  <2>3. FilesShape' /\ AttestingShape' /\ SigningShape'
    BY <2>1, <2>2 DEF FilesShape, AttestingShape, SigningShape, SigningInv
  <2>4. SignedIsAttested'
    BY <2>1, <2>2 DEF SigningInv, SignedIsAttested, Attested
  <2> QED BY <2>1, <2>2, <2>3, <2>4 DEF SigningInv
<1>13. CASE SignEnds
  <2>1. /\ UNCHANGED <<statements, files, attesting>>
        /\ signing' = [step |-> "none", replaced |-> signing.replaced]
    BY <1>13 DEF SignEnds, SigningInv, SigningShape
  <2>2. SignedIsAttested'
    BY <2>1 DEF SigningInv, SignedIsAttested, Attested
  <2>3. FilesShape' /\ AttestingShape' /\ SigningShape'
    BY <2>1 DEF FilesShape, AttestingShape, SigningShape, SigningInv
  <2> QED BY <2>1, <2>2, <2>3 DEF SigningInv
<1> QED BY <1>2, <1>3, <1>5, <1>6, <1>7, <1>8, <1>9, <1>10, <1>11, <1>12, <1>13 DEF SigningNext

\* There is nothing beside the package at first.
LEMMA SigningStarts == SigningInit => SigningInv
<1> SUFFICES ASSUME SigningInit PROVE SigningInv
  OBVIOUS
<1>1. PICK c \in Contents : files = [package |-> c, envelope |-> 0, entry |-> NoLogEntry,
                                     listed |-> {}, signature |-> {}]
  BY DEF SigningInit
<1>2. /\ statements = <<>> /\ attesting = NotAttesting
      /\ signing = [step |-> "none", replaced |-> FALSE]
  BY DEF SigningInit
<1> QED BY <1>1, <1>2 DEF SigningInv, FilesShape, AttestingShape, SigningShape, NotAttesting,
                          SignedIsAttested

\* Whatever is rebuilt, attested again or left behind by a run that died: what
\* check passes is a build that some build key attested, and so is what gpg
\* signs, unless the package was replaced between the two (sign.rs).
THEOREM SignedWasAttested == SigningSpec => []SignedIsAttested
<1>1. SigningInit => SigningInv
  BY SigningStarts
<1>2. SigningInv /\ [SigningNext]_signVars => SigningInv'
  BY SigningStep
<1>3. SigningInv => SignedIsAttested
  BY DEF SigningInv
<1> QED BY <1>1, <1>2, <1>3, PTL DEF SigningSpec

\* A path, and checkpoints of which those the log signed are of trees it had.
Path(hashes) == \E T : hashes \in Seq(T)
Checkpoints(points, entries) ==
  \A c \in points :
    c.genuine => \E m \in 1..Len(entries) : c.size = m /\ c.root = TreeHash(SubSeq(entries, 1, m))

\* Whatever it is about, an answer has this form, and nobody signs for the log.
AnswerTo(e, entries) ==
  /\ e = [body |-> e.body, index |-> e.index, size |-> e.size, hashes |-> e.hashes,
          root |-> e.root, checkpoint |-> e.checkpoint]
  /\ e.index \in Nat /\ e.size \in Nat
  /\ Path(e.hashes) /\ Checkpoints(e.checkpoint, entries)

\* What attest got as an answer and what lies beside the package have that form,
\* and attest only keeps what adds up.
EvidenceInv ==
  /\ SigningInv
  /\ log \in Seq(Nat) /\ Len(log) <= MaxLog
  /\ attesting.step = "store" => AnswerTo(attesting.answer, log)
  /\ files.entry # NoLogEntry
     => AnswerTo(files.entry, log) /\ VerifyInclusion(files.entry, FALSE)

\* The path to a leaf of a tree is a sequence.
LEMMA AuditPathIs ==
  ASSUME NEW entries, Len(entries) \in 1..MaxLog, NEW j \in 0..Len(entries) - 1
  PROVE  Path(AuditPath(j, entries))
<1> DEFINE N == Len(entries)
<1>1. PICK T : \A n \in 1..N : \A from \in 1..N - n + 1 : \A i \in 0..n - 1 :
                 Paths(entries)[n][from][i] \in Seq(T)
  <2>1. Len(entries) \in 0..MaxLog
    BY SigningAssumption
  <2> QED BY <2>1, PathsAreDeep
<1>2. N \in 1..N /\ 1 \in 1..N - N + 1 /\ j \in 0..N - 1
  BY SigningAssumption
<1> HIDE DEF N
<1>3. Paths(entries)[N][1][j] \in Seq(T)
  BY <1>1, <1>2
<1> QED BY <1>3 DEF AuditPath, Path, N

\* What a tree answers has a path.
LEMMA TruthIs ==
  ASSUME NEW entries, Len(entries) \in 1..MaxLog, NEW j \in 0..Len(entries) - 1
  PROVE  /\ Truth(j, entries) = [body |-> entries[j + 1], index |-> j, size |-> Len(entries),
                                 hashes |-> AuditPath(j, entries), root |-> TreeHash(entries),
                                 checkpoint |-> {[size |-> Len(entries), root |-> TreeHash(entries),
                                                  genuine |-> TRUE]}]
         /\ Path(AuditPath(j, entries))
BY AuditPathIs DEF Truth

\* Longer and shorter paths are paths.
LEMMA OtherPaths ==
  ASSUME NEW h, Path(h), NEW x
  PROVE  Path(Append(h, x)) /\ Path(SubSeq(h, 1, Len(h) - 1))
<1>1. PICK T : h \in Seq(T)
  BY DEF Path
<1> DEFINE U == T \cup {x}
<1>2. h \in Seq(U) /\ x \in U
  BY <1>1
<1> HIDE DEF U
<1>3. Append(h, x) \in Seq(U) /\ SubSeq(h, 1, Len(h) - 1) \in Seq(U)
  BY <1>2
<1> QED BY <1>3 DEF Path

\* An answer that has one thing wrong, is about another entry or about a foreign
\* tree still has the form of an answer.
LEMMA AnswersAre ==
  ASSUME NEW entries \in Seq(Nat), NEW n \in 1..MaxLog, n = Len(entries), NEW i \in 0..n - 1,
         NEW e \in Answers(i, entries)
  PROVE  AnswerTo(e, entries)
<1> DEFINE root == TreeHash(entries)
           own == {[size |-> n, root |-> root, genuine |-> TRUE]}
           path == AuditPath(i, entries)
           others == [k \in 1..n |-> IF k = i + 1 THEN entries[i + 1] ELSE 0]
           foreign == Foreign(i, n, entries[i + 1])
           Form(b, k, z, h, r, c) == [body |-> b, index |-> k, size |-> z, hashes |-> h, root |-> r,
                                      checkpoint |-> c]
<1>0. MaxLog \in Nat /\ n \in Nat /\ 0 \in 0..n - 1 /\ n \in 1..n /\ 1 \in 1..n
  BY SigningAssumption
<1>1. Truth(i, entries) = Form(entries[i + 1], i, n, path, root, own) /\ Path(path)
  BY TruthIs
<1>2. Truth(0, entries) = Form(entries[0 + 1], 0, n, AuditPath(0, entries), root, own)
      /\ Path(AuditPath(0, entries))
  BY <1>0, TruthIs
<1>3. Checkpoints(own, entries) /\ Checkpoints({}, entries)
  <2>1. SubSeq(entries, 1, n) = entries
    OBVIOUS
  <2>2. TreeHash(SubSeq(entries, 1, n)) = root
    BY <2>1, Zenon
  <2>3. \A c \in own : c.size = n /\ c.root = root
    OBVIOUS
  <2>4. n \in 1..Len(entries)
    BY <1>0
  <2> HIDE DEF own, root
  <2> QED BY <2>2, <2>3, <2>4, Zenon DEF Checkpoints
<1>4. Checkpoints(Truth(0, SubSeq(entries, 1, 1)).checkpoint, entries)
  <2>1. Len(SubSeq(entries, 1, 1)) = 1 /\ 1 \in 1..MaxLog
    BY <1>0
  <2>2. Truth(0, SubSeq(entries, 1, 1)).checkpoint
        = {[size |-> 1, root |-> TreeHash(SubSeq(entries, 1, 1)), genuine |-> TRUE]}
    BY <2>1 DEF Truth
  <2> QED BY <1>0, <2>2 DEF Checkpoints
<1>5. \A z, r : Checkpoints(Unsigned(z, r), entries)
  BY DEF Checkpoints, Unsigned
<1>6. foreign = Form(others[i + 1], i, n, AuditPath(i, others), TreeHash(others), foreign.checkpoint)
      /\ Path(foreign.hashes)
  <2>1. Len(others) = n /\ i \in 0..Len(others) - 1
    <3>1. others \in [1..n -> Nat]
      BY <1>0
    <3> HIDE DEF others
    <3> QED BY <1>0, <3>1
  <2>2. foreign = Truth(i, others)
    BY DEF Foreign
  <2> HIDE DEF others, foreign
  <2> QED BY <2>1, <2>2, TruthIs
<1>7. ASSUME NEW b, NEW k \in Nat, NEW z \in Nat, NEW h, Path(h), NEW r, NEW c, Checkpoints(c, entries),
             e = Form(b, k, z, h, r, c)
      PROVE  AnswerTo(e, entries)
  BY <1>7 DEF AnswerTo
<1> HIDE DEF own, path, root, others, foreign
<1> DEFINE t == Truth(i, entries)
<1>8. CASE \E k \in 0..MaxLog : e = [t EXCEPT !.index = k] \/ e = [t EXCEPT !.size = k]
  <2>1. PICK k \in 0..MaxLog : e = [t EXCEPT !.index = k] \/ e = [t EXCEPT !.size = k]
    BY <1>8
  <2>2. e = Form(entries[i + 1], k, n, path, root, own) \/ e = Form(entries[i + 1], i, k, path, root, own)
    BY <1>1, <2>1
  <2>3. k \in Nat /\ i \in Nat
    BY <1>0
  <2> HIDE DEF Form
  <2> QED BY <1>0, <1>1, <1>3, <1>7, <2>2, <2>3
<1>9. CASE e = [t EXCEPT !.body = 0] \/ e = [t EXCEPT !.root = foreign.root]
  <2>1. e = Form(0, i, n, path, root, own) \/ e = Form(entries[i + 1], i, n, path, foreign.root, own)
    BY <1>1, <1>9
  <2>2. i \in Nat
    BY <1>0
  <2> HIDE DEF Form
  <2> QED BY <1>0, <1>1, <1>3, <1>7, <2>1, <2>2
<1>10. CASE \E h \in {Append(t.hashes, t.root), foreign.hashes, SubSeq(t.hashes, 1, Len(t.hashes) - 1)} :
              e = [t EXCEPT !.hashes = h]
  <2>1. t.hashes = path
    BY <1>1
  <2>2. PICK h : /\ h \in {Append(path, t.root), foreign.hashes, SubSeq(path, 1, Len(path) - 1)}
                 /\ e = [t EXCEPT !.hashes = h]
    BY <1>10, <2>1
  <2>3. e = Form(entries[i + 1], i, n, h, root, own)
    BY <1>1, <2>2
  <2>4. Path(h)
    BY <1>1, <1>6, <2>2, OtherPaths
  <2>5. i \in Nat
    BY <1>0
  <2> HIDE DEF Form
  <2> QED BY <1>0, <1>3, <1>7, <2>3, <2>4, <2>5
<1>11. CASE \E c \in {{}, Unsigned(n, t.root), Truth(0, SubSeq(entries, 1, 1)).checkpoint} :
              e = [t EXCEPT !.checkpoint = c]
  <2>1. PICK c : /\ c \in {{}, Unsigned(n, t.root), Truth(0, SubSeq(entries, 1, 1)).checkpoint}
                 /\ e = [t EXCEPT !.checkpoint = c]
    BY <1>11
  <2>2. e = Form(entries[i + 1], i, n, path, root, c)
    BY <1>1, <2>1
  <2>3. Checkpoints(c, entries)
    BY <1>3, <1>4, <1>5, <2>1
  <2>4. i \in Nat
    BY <1>0
  <2> HIDE DEF Form
  <2> QED BY <1>0, <1>1, <1>7, <2>2, <2>3, <2>4
<1>12. CASE e = Truth(0, entries)
  <2> HIDE DEF Form
  <2> QED BY <1>0, <1>2, <1>3, <1>7, <1>12
<1>13. CASE e = [foreign EXCEPT !.checkpoint = Unsigned(n, foreign.root)]
  <2>1. e = Form(others[i + 1], i, n, AuditPath(i, others), TreeHash(others), Unsigned(n, foreign.root))
    BY <1>6, <1>13
  <2>2. Path(AuditPath(i, others))
    BY <1>6
  <2>3. i \in Nat
    BY <1>0
  <2> HIDE DEF Form
  <2> QED BY <1>0, <1>5, <1>7, <2>1, <2>2, <2>3
<1>14. t.body = entries[i + 1]
  BY <1>1
<1>15. \/ \E k \in 0..MaxLog : e = [t EXCEPT !.index = k] \/ e = [t EXCEPT !.size = k]
       \/ e = [t EXCEPT !.body = 0] \/ e = [t EXCEPT !.root = foreign.root]
       \/ \E h \in {Append(t.hashes, t.root), foreign.hashes, SubSeq(t.hashes, 1, Len(t.hashes) - 1)} :
            e = [t EXCEPT !.hashes = h]
       \/ \E c \in {{}, Unsigned(n, t.root), Truth(0, SubSeq(entries, 1, 1)).checkpoint} :
            e = [t EXCEPT !.checkpoint = c]
       \/ e = Truth(0, entries)
       \/ e = [foreign EXCEPT !.checkpoint = Unsigned(n, foreign.root)]
  <2>1. e \in {[t EXCEPT !.index = k] : k \in 0..MaxLog}
              \cup {[t EXCEPT !.size = k] : k \in 0..MaxLog}
              \cup {[t EXCEPT !.body = 0], [t EXCEPT !.root = foreign.root]}
              \cup {[t EXCEPT !.hashes = h] :
                      h \in {Append(t.hashes, t.root), foreign.hashes,
                             SubSeq(t.hashes, 1, Len(t.hashes) - 1)}}
              \cup {[t EXCEPT !.checkpoint = c] :
                      c \in {{}, Unsigned(n, t.root), Truth(0, SubSeq(entries, 1, 1)).checkpoint}}
              \cup {Truth(0, entries), [foreign EXCEPT !.checkpoint = Unsigned(n, foreign.root)]}
    BY <1>14 DEF Answers, t, foreign
  <2> HIDE DEF t
  <2> QED BY <2>1, Zenon
<1> HIDE DEF t
<1> QED BY <1>8, <1>9, <1>10, <1>11, <1>12, <1>13, <1>15

\* An answer about the log's own root passes exactly if the log has what it says
\* where it says; with the key, no other passes.
LEMMA AnswerIsJudged ==
  ASSUME log \in Seq(Nat), Len(log) <= MaxLog, NEW e, AnswerTo(e, log)
  PROVE  /\ \A key : VerifyInclusion(e, key) /\ RootIsOfLog(e) <=> Included(e, key)
         /\ VerifyInclusion(e, TRUE) => RootIsOfLog(e)
         /\ \A key : Included(e, key) => log[e.index + 1] = e.body
<1> DEFINE m == e.size
           E == SubSeq(log, 1, m)
           t == Truth(e.index, E)
           Points(key) == /\ \A c \in e.checkpoint : c.size = e.size /\ c.root = e.root /\ (key => c.genuine)
                          /\ key => e.checkpoint # {}
<1>1. /\ e = [body |-> e.body, index |-> e.index, size |-> m, hashes |-> e.hashes, root |-> e.root,
              checkpoint |-> e.checkpoint]
      /\ e.index \in Nat /\ m \in Nat /\ Len(log) \in Nat /\ MaxLog \in Nat
  BY SigningAssumption DEF AnswerTo
<1>2. VerifyInclusion(e, TRUE) => RootIsOfLog(e)
  <2>1. SUFFICES ASSUME VerifyInclusion(e, TRUE) PROVE RootIsOfLog(e)
    OBVIOUS
  <2>2. PICK c \in e.checkpoint : c.size = m /\ c.root = e.root /\ c.genuine
    BY <2>1 DEF VerifyInclusion
  <2>3. PICK k \in 1..Len(log) : c.size = k /\ c.root = TreeHash(SubSeq(log, 1, k))
    BY <2>2 DEF AnswerTo, Checkpoints
  <2>4. m = k /\ e.root = TreeHash(SubSeq(log, 1, m))
    BY <2>2, <2>3
  <2> QED BY <2>4 DEF RootIsOfLog
<1>3. ASSUME NEW key, Included(e, key) PROVE e.index < m /\ m \in 1..Len(log) /\ e.root = t.root
  <2>1. e.index < m /\ m <= Len(log) /\ e = [t EXCEPT !.checkpoint = e.checkpoint]
    BY <1>3 DEF Included
  <2>2. t = [body |-> E[e.index + 1], index |-> e.index, size |-> Len(E), hashes |-> AuditPath(e.index, E),
             root |-> TreeHash(E), checkpoint |-> t.checkpoint]
    BY DEF Truth
  <2> HIDE DEF t
  <2>3. e.root = t.root
    BY <2>1, <2>2
  <2> QED BY <1>1, <2>1, <2>3
<1>4. CASE m \in 1..Len(log)
  <2>1. E \in Seq(Nat) /\ Len(E) = m /\ (\A q \in 1..m : E[q] = log[q]) /\ m \in 1..MaxLog
    BY <1>1, <1>4
  <2> HIDE DEF E
  <2>2. PICK T : e.hashes \in Seq(T)
    BY DEF AnswerTo, Path
  <2>3. RootFromInclusion(e.index, m, Leaf(e.body), e.hashes) = {TreeHash(E)}
        <=> e.index < m /\ e.body = E[e.index + 1] /\ e.hashes = AuditPath(e.index, E)
    <3>1. E \in Seq(Nat) /\ Len(E) \in 1..MaxLog /\ e.index \in Nat /\ e.hashes \in Seq(T)
      BY <1>1, <2>1, <2>2
    <3>2. RootFromInclusion(e.index, Len(E), Leaf(e.body), e.hashes) = {TreeHash(E)}
          <=> e.index < Len(E) /\ e.body = E[e.index + 1] /\ e.hashes = AuditPath(e.index, E)
      BY <3>1, ProofsAreOfLeaves
    <3> QED BY <2>1, <3>2
  <2>4. t = [body |-> E[e.index + 1], index |-> e.index, size |-> m, hashes |-> AuditPath(e.index, E),
             root |-> TreeHash(E), checkpoint |-> t.checkpoint]
    BY <2>1 DEF Truth
  <2> HIDE DEF t
  <2>5. [t EXCEPT !.checkpoint = e.checkpoint]
        = [body |-> E[e.index + 1], index |-> e.index, size |-> m, hashes |-> AuditPath(e.index, E),
           root |-> TreeHash(E), checkpoint |-> e.checkpoint]
    BY <2>4
  <2>6. e = [t EXCEPT !.checkpoint = e.checkpoint]
        <=> e.body = E[e.index + 1] /\ e.hashes = AuditPath(e.index, E) /\ e.root = TreeHash(E)
    BY <1>1, <2>5
  <2>7. RootIsOfLog(e) <=> e.root = TreeHash(E)
    BY <1>4 DEF RootIsOfLog, E
  <2>8. ASSUME NEW key PROVE VerifyInclusion(e, key) /\ RootIsOfLog(e) <=> Included(e, key)
    <3>1. VerifyInclusion(e, key)
          <=> RootFromInclusion(e.index, m, Leaf(e.body), e.hashes) = {e.root} /\ Points(key)
      BY Zenon DEF VerifyInclusion
    <3>2. Included(e, key)
          <=> /\ e.index < m /\ e = [t EXCEPT !.checkpoint = e.checkpoint]
              /\ \A c \in e.checkpoint : c.size = e.size /\ c.root = t.root /\ (key => c.genuine)
              /\ key => e.checkpoint # {}
      <4>1. m <= Len(log)
        BY <1>1, <1>4
      <4> QED BY <4>1, Zenon DEF Included, t, E
    <3>3. t.root = TreeHash(E)
      BY <2>4
    <3> HIDE DEF m
    <3>4. CASE e.root = TreeHash(E)
      <4>1. RootFromInclusion(e.index, m, Leaf(e.body), e.hashes) = {e.root}
            <=> e.index < m /\ e = [t EXCEPT !.checkpoint = e.checkpoint]
        BY <2>3, <2>6, <3>4
      <4>2. t.root = e.root
        BY <3>3, <3>4
      <4> QED BY <2>7, <3>1, <3>2, <3>4, <4>1, <4>2, Zenon
    <3>5. CASE e.root # TreeHash(E)
      BY <2>6, <2>7, <3>2, <3>5
    <3> QED BY <3>4, <3>5
  <2>9. ASSUME NEW key, Included(e, key) PROVE log[e.index + 1] = e.body
    <3>1. e.index < m /\ e.body = E[e.index + 1]
      <4>1. e.index < m /\ e = [t EXCEPT !.checkpoint = e.checkpoint]
        BY <2>9, Zenon DEF Included, t, E
      <4> QED BY <2>6, <4>1
    <3> QED BY <1>1, <2>1, <3>1
  <2> QED BY <1>2, <2>8, <2>9
<1>5. CASE ~(m \in 1..Len(log))
  <2>1. ~RootIsOfLog(e)
    BY <1>5 DEF RootIsOfLog
  <2>2. \A key : ~Included(e, key)
    BY <1>3, <1>5
  <2> QED BY <1>2, <2>1, <2>2
<1> QED BY <1>4, <1>5

\* The log's answers keep their form when it grows.
LEMMA AnswersStay ==
  ASSUME NEW old \in Seq(Nat), NEW new \in Seq(Nat), Len(old) <= Len(new),
         \A q \in 1..Len(old) : new[q] = old[q], NEW e, AnswerTo(e, old)
  PROVE  AnswerTo(e, new)
<1>1. \A m \in 1..Len(old) : m \in 1..Len(new) /\ SubSeq(old, 1, m) = SubSeq(new, 1, m)
  OBVIOUS
<1>2. Checkpoints(e.checkpoint, old) => Checkpoints(e.checkpoint, new)
  BY <1>1 DEF Checkpoints
<1> QED BY <1>2 DEF AnswerTo

\* Every step keeps what is known of the log's answers.
LEMMA EvidenceStep ==
  ASSUME EvidenceInv, [SigningNext]_signVars
  PROVE  EvidenceInv'
<1> PICK f : f = files
  OBVIOUS
<1> PICK a : a = attesting
  OBVIOUS
<1>f. f = [package |-> f.package, envelope |-> f.envelope, entry |-> f.entry,
           listed |-> f.listed, signature |-> f.signature]
  BY DEF EvidenceInv, SigningInv, FilesShape
<1>a. a = [step |-> a.step, envelope |-> a.envelope, answer |-> a.answer]
  BY DEF EvidenceInv, SigningInv, AttestingShape
<1>s. /\ SigningInv'
      /\ a.step = "store" => AnswerTo(a.answer, log)
      /\ f.entry # NoLogEntry => AnswerTo(f.entry, log) /\ VerifyInclusion(f.entry, FALSE)
  BY SigningStep DEF EvidenceInv
<1>1. ASSUME UNCHANGED log,
             attesting'.step = "store" => attesting' = attesting,
             \/ files'.entry = files.entry
             \/ a.step = "store" /\ files'.entry = a.answer /\ VerifyInclusion(a.answer, FALSE)
      PROVE  EvidenceInv'
  <2>1. attesting'.step = "store" => AnswerTo(attesting'.answer, log)
    BY <1>1, <1>s
  <2>2. files'.entry # NoLogEntry => AnswerTo(files'.entry, log) /\ VerifyInclusion(files'.entry, FALSE)
    BY <1>1, <1>s
  <2>3. log' = log /\ log \in Seq(Nat) /\ Len(log) <= MaxLog
    BY <1>1 DEF EvidenceInv
  <2> QED BY <1>s, <2>1, <2>2, <2>3 DEF EvidenceInv
<1>2. CASE UNCHANGED signVars
  BY <1>1, <1>2 DEF signVars
<1>3. CASE Attest
  <2>1. UNCHANGED <<log, files>> /\ attesting'.step = "write"
    BY <1>3 DEF Attest, NotAttesting
  <2> QED BY <1>1, <2>1
<1>4. CASE WriteEnvelope
  <2>1. UNCHANGED log /\ files' = [f EXCEPT !.envelope = a.envelope] /\ attesting' = [a EXCEPT !.step = "upload"]
    BY <1>4 DEF WriteEnvelope
  <2>2. files'.entry = f.entry /\ attesting'.step = "upload"
    BY <1>f, <1>a, <2>1
  <2> QED BY <1>1, <2>1, <2>2
<1>5. CASE UploadStatement
  <2>1. PICK size \in Len(log) + 1..MaxLog :
              log' = [i \in 1..size |-> IF i <= Len(log) THEN log[i]
                                        ELSE IF i = Len(log) + 1 THEN attesting.envelope
                                        ELSE MaxStatements + i]
    BY <1>5 DEF UploadStatement
  <2>2. PICK answer \in Answers(Len(log), log') : attesting' = [a EXCEPT !.step = "store", !.answer = answer]
    BY <1>5 DEF UploadStatement
  <2>3. Len(log) \in Nat /\ MaxLog \in Nat /\ MaxStatements \in Nat /\ log \in Seq(Nat) /\ size \in Nat
        /\ size <= MaxLog /\ size >= Len(log) + 1 /\ attesting.envelope \in Nat
    BY SigningAssumption DEF EvidenceInv, SigningInv
  <2>4. \A i \in 1..size : log'[i] \in Nat /\ (i <= Len(log) => log'[i] = log[i])
    BY <2>1, <2>3
  <2>5. log' \in Seq(Nat) /\ Len(log') = size
    <3> PICK l : l = log'
      OBVIOUS
    <3>1. l \in [1..size -> Nat]
      BY <2>1, <2>4
    <3>2. l \in Seq(Nat) /\ Len(l) = size
      BY <2>3, <3>1
    <3> QED BY <3>2
  <2>6. AnswerTo(answer, log')
    <3>1. size \in 1..MaxLog /\ size = Len(log') /\ Len(log) \in 0..size - 1
      BY <2>3, <2>5
    <3> QED BY <2>2, <2>5, <3>1, AnswersAre
  <2>7. \A e : AnswerTo(e, log) => AnswerTo(e, log')
    <3>1. log \in Seq(Nat) /\ log' \in Seq(Nat) /\ Len(log) <= Len(log')
          /\ \A q \in 1..Len(log) : log'[q] = log[q]
      BY <2>3, <2>4, <2>5
    <3> QED BY <3>1, AnswersStay
  <2>8. attesting'.answer = answer /\ files' = files
    BY <1>a, <1>5, <2>2 DEF UploadStatement
  <2> QED BY <1>s, <2>3, <2>5, <2>6, <2>7, <2>8 DEF EvidenceInv
<1>6. CASE StoreEntry
  <2>1. UNCHANGED log /\ a.step = "store" /\ files' = [f EXCEPT !.entry = a.answer] /\ attesting' = NotAttesting
        /\ VerifyInclusion(a.answer, FALSE)
    BY <1>6 DEF StoreEntry
  <2>2. files'.entry = a.answer /\ attesting'.step = "none"
    BY <1>f, <2>1 DEF NotAttesting
  <2> QED BY <1>1, <2>1, <2>2
<1>7. CASE AttestEnds
  <2>1. UNCHANGED <<log, files>> /\ attesting'.step = "none"
    BY <1>7 DEF AttestEnds, NotAttesting
  <2> QED BY <1>1, <2>1
<1>8. CASE Rebuild \/ WriteListing \/ GpgSign
  <2>1. \E x : files' = [f EXCEPT !.package = x] \/ files' = [f EXCEPT !.listed = x]
               \/ files' = [f EXCEPT !.signature = x]
    BY <1>8 DEF Rebuild, WriteListing, GpgSign
  <2>2. UNCHANGED <<log, attesting>>
    BY <1>8 DEF Rebuild, WriteListing, GpgSign
  <2>3. files'.entry = f.entry
    BY <1>f, <2>1
  <2> QED BY <1>1, <2>2, <2>3
<1>9. CASE CheckPackage \/ SignEnds
  <2>1. UNCHANGED <<log, files, attesting>>
    BY <1>9 DEF CheckPackage, SignEnds
  <2> QED BY <1>1, <2>1
<1> QED BY <1>2, <1>3, <1>4, <1>5, <1>6, <1>7, <1>8, <1>9 DEF SigningNext

\* Where the invariant holds, attest and sign judge the evidence right.
LEMMA EvidenceJudged == EvidenceInv => EvidenceIsJudgedRight
<1> SUFFICES ASSUME EvidenceInv PROVE EvidenceIsJudgedRight
  OBVIOUS
<1>1. AnswersAreJudgedRight
  <2> SUFFICES ASSUME attesting.step = "store" PROVE AnswersAreJudgedRight
    BY DEF AnswersAreJudgedRight
  <2> DEFINE e == attesting.answer
  <2>1. AnswerTo(e, log) /\ log \in Seq(Nat) /\ Len(log) <= MaxLog
    BY DEF EvidenceInv
  <2> HIDE DEF e
  <2>2. /\ VerifyInclusion(e, TRUE) /\ RootIsOfLog(e) <=> Included(e, TRUE)
        /\ VerifyInclusion(e, FALSE) /\ RootIsOfLog(e) <=> Included(e, FALSE)
        /\ VerifyInclusion(e, TRUE) => RootIsOfLog(e)
    BY <2>1, AnswerIsJudged
  <2> QED BY <2>2, Zenon DEF AnswersAreJudgedRight, e
<1>2. \A g \in Gates : Logged(g.key) <=> StatementIsLogged(g.key)
  <2>1. CASE files.entry = NoLogEntry
    BY <2>1, Zenon DEF Logged, StatementIsLogged
  <2>2. CASE files.entry # NoLogEntry
    <3> DEFINE e == files.entry
    <3>1. AnswerTo(e, log) /\ log \in Seq(Nat) /\ Len(log) <= MaxLog /\ VerifyInclusion(e, FALSE)
      BY <2>2 DEF EvidenceInv
    <3> HIDE DEF e
    <3>2. VerifyInclusion(e, TRUE) <=> Included(e, TRUE)
      BY <3>1, AnswerIsJudged
    <3>3. Included(e, TRUE) => log[e.index + 1] = e.body
      BY <3>1, AnswerIsJudged
    <3>4. Logged(TRUE) <=> StatementIsLogged(TRUE)
      BY <2>2, <3>2, <3>3, Zenon DEF Logged, StatementIsLogged, e
    <3>5. Logged(FALSE) <=> StatementIsLogged(FALSE)
      BY <2>2, <3>1, Zenon DEF Logged, StatementIsLogged, e
    <3>6. \A g \in Gates : g.key = TRUE \/ g.key = FALSE
      BY DEF Gates
    <3> QED BY <3>4, <3>5, <3>6
  <2> QED BY <2>1, <2>2
<1>3. Vouched <=> \E s \in {files.envelope} \ {0} :
                    statements[s].subject = files.package /\ statements[s].key \in BuildKeys
  <2>1. files.envelope # 0 => statements[files.envelope] \in Statement
    <3>1. statements \in Seq(Statement) /\ files.envelope \in 0..Len(statements)
      BY DEF EvidenceInv, SigningInv
    <3> QED BY <3>1
  <2> PICK st : st = statements[files.envelope]
    OBVIOUS
  <2>2. files.envelope # 0 => ( st \in [subject : {files.package}, key : BuildKeys]
                               <=> st.subject = files.package /\ st.key \in BuildKeys )
    BY <2>1 DEF Statement
  <2> QED BY <2>2 DEF Vouched
<1>4. SignedIsAttested
  BY DEF EvidenceInv, SigningInv
<1> QED BY <1>1, <1>2, <1>3, <1>4, Zenon DEF EvidenceIsJudgedRight, Passes

\* With the log's key an answer passes exactly if the log's tree has the entry
\* where the answer says, for a log of any length and every place in it, and
\* without the key one that gives the log's root does; sign passes a package
\* exactly on a build key's statement about this build, an entry of that very
\* statement, which with the key is in the log, and a listing of this build
\* (attest.rs, rekor.rs, sign.rs).
THEOREM EvidenceIsRight == SigningSpec => []EvidenceIsJudgedRight
<1>1. SigningInit => EvidenceInv
  <2> SUFFICES ASSUME SigningInit PROVE EvidenceInv
    OBVIOUS
  <2>1. SigningInv
    BY SigningStarts
  <2>2. attesting.step = "none" /\ files.entry = NoLogEntry
    BY DEF SigningInit, NotAttesting
  <2>3. PICK n \in 0..MaxLog : log = [i \in 1..n |-> MaxStatements + i]
    BY DEF SigningInit
  <2>4. log \in Seq(Nat) /\ Len(log) <= MaxLog
    <3> PICK l : l = log
      OBVIOUS
    <3>1. n \in Nat /\ n <= MaxLog /\ l \in [1..n -> Nat]
      BY <2>3, SigningAssumption
    <3>2. l \in Seq(Nat) /\ Len(l) = n
      BY <3>1
    <3> QED BY <3>1, <3>2
  <2> QED BY <2>1, <2>2, <2>4 DEF EvidenceInv
<1>2. EvidenceInv /\ [SigningNext]_signVars => EvidenceInv'
  BY EvidenceStep
<1>3. EvidenceInv => EvidenceIsJudgedRight
  BY EvidenceJudged
<1> QED BY <1>1, <1>2, <1>3, PTL DEF SigningSpec

-----------------------------------------------------------------------------
(* The repository.                                                         *)

\* What one service does leaves the others' files alone; publishing does not
\* change what the vendor offers.
THEOREM ServicesAreApart == Spec => PackageSpec /\ ChannelSpec /\ GateSpec /\ SigningSpec
<1>1. Init => /\ UpstreamInit /\ PackageInit /\ ChannelInit /\ GateInit /\ SigningInit
  BY DEF Init
<1>2. ChannelNext => UNCHANGED upstream
  BY DEF ChannelNext, Publish, Mirror, WriteIndex, WriteSignature, SignatureFails, PublisherDies,
         PromoteTool, HoldTool, UnholdTool, Change, Block
<1>3. PackageNext => UNCHANGED upstream
  BY DEF PackageNext, Vendor, Repack, Bump, Write, Die, Begin
<1>4. [Next]_vars => [PackageNext \/ (VendorActs /\ UNCHANGED package)]_<<upstream, package>>
  BY <1>2 DEF Next, vars
<1>5. [Next]_vars => [ChannelNext \/ (VendorActs /\ UNCHANGED channel)]_<<upstream, channel>>
  BY <1>3 DEF Next, vars
<1>6. [Next]_vars => [GateNext]_gate
  BY DEF Next, vars
<1>7. [Next]_vars => [SigningNext]_signVars
  BY DEF Next, vars
<1> QED BY <1>1, <1>4, <1>5, <1>6, <1>7, PTL
         DEF Spec, PackageSpec, ChannelSpec, GateSpec, SigningSpec

\* The repository as a whole.
THEOREM RepositoryIsSafe ==
  Spec => /\ NoSilentDowngrade /\ ListsAreNotReplayed /\ PublishedIsImmutable
          /\ [](MergedRecipeIsSeeded /\ EvidenceIsJudgedRight)
<1> QED BY ServicesAreApart, DowngradesAreAllowed, ReplaysAreAllowed, PublishedStays,
           MergesAreSeeded, EvidenceIsRight, PTL
=============================================================================
