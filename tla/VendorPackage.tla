---------------------------- MODULE VendorPackage ----------------------------
(***************************************************************************)
(* The directory of a package that repackages a vendor's files: vendor     *)
(* rewrites the PKGBUILD from the vendor's packslip, repack signs one on   *)
(* the vendor's behalf for what the PKGBUILD says, and vendor.lock keeps   *)
(* either from going below what was accepted before.  Either may die       *)
(* between two files.                                                      *)
(*                                                                         *)
(* Code: crates/pacvamp-repo/src/vendor.rs, repack.rs                      *)
(***************************************************************************)
EXTENDS Upstream

VARIABLES
    lock,       \* vendor.lock
    pkgbuild,   \* the release the PKGBUILD builds
    writing,    \* the run under way and what it has still to write
    pardon      \* history: a human allowed a downgrade the PKGBUILD has not had

package == <<lock, pkgbuild, writing, pardon>>

Kept == [version: Versions, level: 0 .. 3, signer: Signers \cup {Repackager},
         attestor: Attestors, upload: 1 .. 2, seq: 0 .. MaxLists]
Nobody == "nobody"
Built == [version: Versions, level: 0 .. 3, signer: Signers \cup {Repackager, Nobody},
          attestor: Attestors, upload: 1 .. 2, seq: {0}]
Idle == [files |-> <<>>, new |-> None, allowed |-> FALSE]

PackageInit ==
    /\ lock = None /\ pkgbuild = None
    /\ writing = Idle /\ pardon = FALSE

PackageType ==
    /\ lock \in Kept \cup {None} /\ pkgbuild \in Built \cup {None}
    /\ writing = Idle \/ writing.new \in Kept
    /\ pardon \in BOOLEAN

Begin(files, new, allow) ==
    /\ writing = Idle
    /\ writing' = [files |-> files, new |-> new, allowed |-> allow]
    /\ pardon' = (pardon \/ allow)
    /\ UNCHANGED <<upstream, lock, pkgbuild>>

(* The protective lock comes first and the PKGBUILD last; between them the  *)
(* sidecar, which a built package ships and nothing here reads.             *)
VendorPkgbuildFirst(listing, requested, allow) ==
    /\ writing = Idle
    /\ \E slip \in Resolved(lock, listing, requested, allow):
         Begin(<<"pkgbuild", "lock">>, Accepted(slip, lock, listing), allow)

Vendor(listing, requested, allow) ==
    /\ writing = Idle
    /\ \E slip \in Resolved(lock, listing, requested, allow):
         Begin(<<"lock", "pkgbuild">>, Accepted(slip, lock, listing), allow)

(* repack attests what the PKGBUILD has, if it still downloads with these   *)
(* checksums; the sequence of a list stays.                                 *)
RepackDropsSequence(evidence, allow) ==
    LET new == [version |-> pkgbuild.version, level |-> LevelFor("repackager", evidence, FALSE),
                signer |-> Repackager, attestor |-> "repackager", upload |-> pkgbuild.upload,
                seq |-> 0]
    IN  /\ pkgbuild # None /\ release[pkgbuild.version].upload = pkgbuild.upload
        /\ ~allow => NoDowngrade(lock, new)
        /\ Begin(<<"lock">>, new, allow)

Repack(evidence, allow) ==
    LET new == [version |-> pkgbuild.version, level |-> LevelFor("repackager", evidence, FALSE),
                signer |-> Repackager, attestor |-> "repackager", upload |-> pkgbuild.upload,
                seq |-> KeptSequence(lock)]
    IN  /\ pkgbuild # None /\ release[pkgbuild.version].upload = pkgbuild.upload
        /\ ~allow => NoDowngrade(lock, new)
        /\ Begin(<<"lock">>, new, allow)

(* An assumption: the repository's hooks, which are no part of this code,   *)
(* bump only packages whose vendor publishes no packslips, so never one     *)
(* whose lock "vendor" wrote.  A hook that did would put a release into the *)
(* PKGBUILD past the rules, and NoSilentDowngrade would fail.               *)
Hooked == lock # None => lock.signer = Repackager

(* A hook moves a package to a version it found: nobody has signed that yet *)
(* if there is no lock.                                                     *)
Bump(v) ==
    /\ writing = Idle /\ Hooked
    /\ release[v] # None
    /\ pkgbuild' = [version |-> v, level |-> 0, attestor |-> "repackager",
                    signer |-> IF lock = None THEN Nobody ELSE Repackager,
                    upload |-> release[v].upload, seq |-> 0]
    /\ pkgbuild' # pkgbuild
    /\ UNCHANGED <<upstream, lock, writing, pardon>>

Write ==
    LET file == Head(writing.files)
    IN  /\ writing # Idle
        /\ lock' = IF file = "lock" THEN writing.new ELSE lock
        /\ pkgbuild' = IF file = "pkgbuild" THEN [writing.new EXCEPT !.seq = 0] ELSE pkgbuild
        /\ pardon' = (pardon /\ file # "pkgbuild")
        /\ writing' = IF Len(writing.files) = 1 THEN Idle
                      ELSE [writing EXCEPT !.files = Tail(@), !.allowed = FALSE]
        /\ UNCHANGED upstream

Die ==
    /\ writing # Idle /\ writing' = Idle
    /\ UNCHANGED <<upstream, lock, pkgbuild, pardon>>

PackageNext ==
    \/ \E listing \in Listings, requested \in Versions \cup {0}, allow \in BOOLEAN:
          Vendor(listing, requested, allow)
    \/ \E evidence \in {{}, {"vendor-signature"}}, allow \in BOOLEAN: Repack(evidence, allow)
    \/ \E v \in Versions: Bump(v)
    \/ Write \/ Die
-----------------------------------------------------------------------------
(* Whatever dies, what the PKGBUILD builds never has weaker evidence or     *)
(* another signer than what it built before, unless nobody had signed that  *)
(* or a human allowed it since.                                             *)
NoSilentDowngrade ==
    [][pkgbuild' # pkgbuild =>
          \/ NoDowngrade(pkgbuild, pkgbuild') \/ pkgbuild.signer = Nobody
          \/ pardon]_package

(* A list older than the newest one accepted is taken only when a human     *)
(* allows just that, in a run of "vendor": neither a repackaging, allowed   *)
(* or not, nor a listing without a sequence makes the lock forget.          *)
ListsAreNotReplayed ==
    [][lock # None /\ lock' # lock /\ lock'.seq < lock.seq =>
          writing.allowed /\ lock'.signer \in Signers]_package
=============================================================================
