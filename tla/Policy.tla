------------------------------- MODULE Policy -------------------------------
(***************************************************************************)
(* The findings engine that the client and the repository's gate share:    *)
(* what a recipe's evidence is found to show, and what a policy makes of   *)
(* each finding.  Pure; the numbers behind an age, a vote or a size        *)
(* (Thresholds) are left out, the evidence says on which side of them it   *)
(* is.                                                                     *)
(*                                                                         *)
(* Code: crates/pacvamp-policy/src                                         *)
(***************************************************************************)
EXTENDS Integers, FiniteSets

FindingId == {"new-package", "recent-commit", "maintainer-changed", "orphaned",
    "low-reputation", "similar-name", "source-domain-changed", "checksum-skip",
    "vcs-source", "install-script", "suspicious-content", "language-dep",
    "pkgbuild-large-diff", "commit-drift", "verdict", "upstream-advisory", "out-of-date"}

Modes == {"interactive", "unattended"}

DefaultDecision(mode, id) ==
    CASE id = "out-of-date" -> "allow"
      [] id = "vcs-source" -> IF mode = "interactive" THEN "allow" ELSE "warn"
      [] OTHER -> IF mode = "interactive" THEN "warn" ELSE "deny"

(* An override is a function from some finding ids. *)
Decide(policy, id) ==
    IF id \in DOMAIN policy.overrides THEN policy.overrides[id]
    ELSE DefaultDecision(policy.mode, id)

Unattended == [mode |-> "unattended", overrides |-> [id \in {} |-> "warn"]]
-----------------------------------------------------------------------------
(* Evidence: rpc is what the AUR says of the package, approved what was     *)
(* approved last (either may be unknown: {} or {record}), recipe what       *)
(* .SRCINFO says, diff what changed since the approval.                     *)

OfRpc(e) ==
    UNION {
        (IF rpc.young THEN {"new-package"} ELSE {})
        \cup (IF rpc.maintainer = {} THEN {"orphaned"} ELSE {})
        \cup (IF \/ \E a \in e.approved: a.maintainer # rpc.maintainer
                 \/ /\ e.approved = {} /\ e.firstInstall
                    /\ \E m \in rpc.maintainer, s \in rpc.submitter: m # s
                 \/ rpc.pending
              THEN {"maintainer-changed"} ELSE {})
        \cup (IF e.firstInstall /\ ~rpc.popular THEN {"low-reputation"} ELSE {})
        \cup (IF rpc.outOfDate THEN {"out-of-date"} ELSE {}):
      rpc \in e.rpc}

OfTarget(e) ==
    (IF e.recent THEN {"recent-commit"} ELSE {})
    \cup (IF e.pinned /\ \E a \in e.approved: a.commit # e.target THEN {"commit-drift"} ELSE {})
    \cup (IF e.similar THEN {"similar-name"} ELSE {})

NewScripts(e) == e.recipe.scripts \ UNION {a.scripts: a \in e.approved}

ChangedScripts(e) ==
    (e.diff.files \cap (e.recipe.scripts \cup UNION {a.scripts: a \in e.approved}))
        \ NewScripts(e)

OfRecipe(e) ==
    (IF \E a \in e.approved: ~(e.recipe.hosts \subseteq a.hosts)
     THEN {"source-domain-changed"} ELSE {})
    \cup (IF e.recipe.skipped THEN {"checksum-skip"} ELSE {})
    \cup (IF e.recipe.vcs THEN {"vcs-source"} ELSE {})
    \cup (IF NewScripts(e) \cup ChangedScripts(e) # {} THEN {"install-script"} ELSE {})
    \cup e.recipe.hits
    \cup (IF e.diff.large /\ e.diff.quiet THEN {"pkgbuild-large-diff"} ELSE {})

OfReviewers(e) ==
    (IF e.verdicts \cap {"flag", "block"} # {} THEN {"verdict"} ELSE {})
    \cup (IF e.advisories # {} THEN {"upstream-advisory"} ELSE {})

Evaluate(e) == OfRpc(e) \cup OfTarget(e) \cup OfRecipe(e) \cup OfReviewers(e)

Denied(policy, findings) == \E id \in findings: Decide(policy, id) = "deny"
Flagged(policy, findings) == \E id \in findings: Decide(policy, id) # "allow"
=============================================================================
