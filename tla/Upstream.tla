------------------------------- MODULE Upstream -------------------------------
(***************************************************************************)
(* A vendor that signs its releases, and how a release of its is chosen    *)
(* and accepted: the signed list or GitHub's unsigned listing, the release *)
(* the list recommends, yanked and young releases, the pinned signer, the  *)
(* evidence floor and the rules against downgrades.  The package           *)
(* directory (VendorPackage) and the tool channel (ToolChannel) share it.  *)
(*                                                                         *)
(* Code: crates/pacvamp-repo/src/vendor.rs, crates/pacvamp-policy/level.rs *)
(***************************************************************************)
EXTENDS Integers, FiniteSets, FiniteSetsExt, Sequences

CONSTANTS
    MaxVersion,     \* bound: versions, numbered in semver order
    MaxLists,       \* bound: release lists the vendor publishes
    Signers,        \* who a packslip can be signed by
    Repackager,     \* the repository's own key for packslips of others
    Documents,      \* kinds of packslips: by whom, and whether "proven"
    MinAge,         \* min_release_age of the configuration
    Floor,          \* provenance_floor of the configuration
    MaxTime         \* bound: ticks of the clock

Attestors == {"vendor", "repackager"}

ASSUME UpstreamAssumption ==
    /\ MaxVersion \in Nat \ {0} /\ MaxLists \in Nat \ {0} /\ MaxTime \in Nat
    /\ Signers # {} /\ Repackager \notin Signers
    /\ Documents \subseteq [attestor: Attestors, proven: BOOLEAN]
    /\ MinAge \in Nat /\ Floor \in 0 .. 3

VARIABLES
    signed,     \* vendor.toml names the vendor's signed list, or GitHub's
    release,    \* the packslip that is at the vendor's URL of each version
    lists,      \* the lists the vendor has signed, the sequence is the place
    pin,        \* the signer vendor.toml names
    now

upstream == <<signed, release, lists, pin, now>>

Versions == 1 .. MaxVersion
None == [version |-> 0]

Packslips == [version: Versions, level: 0 .. 3, signer: Signers, attestor: Attestors,
              at: 0 .. MaxTime, upload: 1 .. 2]
Lists == [slip: [Versions -> Packslips \cup {None}], yanked: SUBSET Versions,
          latest: Versions \cup {0}]
EmptyList == [slip |-> [v \in Versions |-> None], yanked |-> {}, latest |-> 0]

UpstreamInit ==
    /\ signed \in BOOLEAN
    /\ release = [v \in Versions |-> None] /\ lists = <<EmptyList>>
    /\ pin \in Signers /\ now = 0

UpstreamType ==
    /\ signed \in BOOLEAN
    /\ release \in [Versions -> Packslips \cup {None}]
    /\ lists \in Seq(Lists) /\ Len(lists) <= MaxLists
    /\ pin \in Signers /\ now \in 0 .. MaxTime

(* What the evidence of a verified document amounts to, by who attests it. *)
LevelFor(attestor, evidence, linked) ==
    IF attestor = "vendor" THEN IF linked THEN 3 ELSE 2
    ELSE IF evidence \cap {"apt-release-gpg", "vendor-signature", "github-attestation"} # {}
         THEN 1 ELSE 0
-----------------------------------------------------------------------------
(* The vendor and the clock.                                                *)

NewList(slip, yanked, latest) ==
    /\ Len(lists) < MaxLists
    /\ lists' = Append(lists, [slip |-> slip, yanked |-> yanked, latest |-> latest])

(* A new version, or the files of an old one uploaded again, attested by    *)
(* the vendor or by someone who repackages it; "proven" when a vendor links *)
(* its provenance, or a repackager checked a signature of the vendor's.     *)
Upload(v, signer, document) ==
    LET evidence == IF document.proven THEN {"vendor-signature"} ELSE {}
        slip == [version |-> v, signer |-> signer, attestor |-> document.attestor,
                 level |-> LevelFor(document.attestor, evidence, document.proven),
                 at |-> now, upload |-> IF release[v] = None THEN 1 ELSE 2]
    IN  /\ release[v] # slip
        /\ release' = [release EXCEPT ![v] = slip]
        /\ NewList(release', lists[Len(lists)].yanked, v)
        /\ UNCHANGED <<signed, pin, now>>

Yank(v) ==
    /\ release[v] # None
    /\ NewList(release, lists[Len(lists)].yanked \cup {v}, 0)
    /\ UNCHANGED <<signed, release, pin, now>>

(* The operator edits vendor.toml. *)
Repin(s) ==
    /\ pin' = s /\ pin # s
    /\ UNCHANGED <<signed, release, lists, now>>

Relist ==
    /\ signed' = ~signed
    /\ UNCHANGED <<release, lists, pin, now>>

Tick ==
    /\ now < MaxTime /\ now' = now + 1
    /\ UNCHANGED <<signed, release, lists, pin>>

VendorActs ==
    \/ \E v \in Versions, s \in Signers, document \in Documents: Upload(v, s, document)
    \/ \E v \in Versions: Yank(v)
    \/ \E s \in Signers: Repin(s)
    \/ Relist \/ Tick
-----------------------------------------------------------------------------
(* Listings: the sequence is 0 and times are whatever GitHub says when the  *)
(* list is not signed.                                                      *)

GithubListing == [EmptyList EXCEPT !.slip = [v \in Versions |->
    IF release[v] = None THEN None ELSE [release[v] EXCEPT !.at = 0]]]

(* An unexpired list may be shown again. *)
Listings ==
    IF signed THEN [seq: 1 .. Len(lists)] ELSE {[seq |-> 0]}

ListOf(listing) == IF signed THEN lists[listing.seq] ELSE GithubListing

(* The newest eligible version, or the one the list recommends. *)
Eligible(list, requested) ==
    {v \in Versions \ list.yanked:
        /\ list.slip[v] # None
        /\ requested \in {0, v}
        /\ now - list.slip[v].at >= MinAge}

Choice(list, requested, eligible) ==
    IF requested = 0 /\ list.latest \in eligible THEN list.latest ELSE Max(eligible)

(* The rules against downgrades, of which a human may be let off. *)
KeepsLevel(previous, new) == new.level >= previous.level

KeepsSigner(previous, new) ==
    \/ new.signer = previous.signer
    \/ previous.attestor = "repackager" /\ new.attestor = "vendor"

NoDowngrade(previous, new) ==
    previous # None =>
        /\ ~(previous.attestor = "vendor" /\ new.attestor = "repackager")
        /\ KeepsLevel(previous, new)
        /\ KeepsSigner(previous, new)

(* A sequence that is kept while there is no list to have one. *)
KeptSequence(previous) == IF previous = None THEN 0 ELSE previous.seq

NotReplayed(previous, listing) == ~signed \/ listing.seq >= KeptSequence(previous)

(* What is kept of a release that was accepted, and the releases that are.  *)
(* The packslip at the URL is the authority, the list only pins its digest. *)
Accepted(slip, previous, listing) ==
    [version |-> slip.version, level |-> slip.level, signer |-> slip.signer,
     attestor |-> slip.attestor, upload |-> slip.upload,
     seq |-> IF signed THEN listing.seq ELSE KeptSequence(previous)]

Resolved(previous, listing, requested, allow) ==
    LET list == ListOf(listing)
        eligible == Eligible(list, requested)
        v == Choice(list, requested, eligible)
        slip == release[v]
    IN  IF /\ NotReplayed(previous, listing) \/ allow
           /\ eligible # {}
           /\ signed => slip = list.slip[v]
           /\ slip.signer = pin
           /\ slip.level >= Floor
           /\ NoDowngrade(previous, Accepted(slip, previous, listing)) \/ allow
           /\ now - slip.at >= MinAge
        THEN {slip} ELSE {}
=============================================================================
