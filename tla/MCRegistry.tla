----------------------------- MODULE MCRegistry -----------------------------
(* Small instances of Registry for TLC.  Who signs packslips is             *)
(* interchangeable, and so is what a build makes: no definition names a     *)
(* signer or a content, and the properties are about equal or different     *)
(* ones.                                                                    *)
EXTENDS Registry

(* A vendor's with its provenance, and a repackager's who checked the       *)
(* vendor's signature.                                                      *)
SomeDocuments == [attestor: Attestors, proven: {TRUE}]

Symmetric == Permutations(Signers) \cup Permutations(Contents)
=============================================================================
