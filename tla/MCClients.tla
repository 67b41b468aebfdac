----------------------------- MODULE MCClients -----------------------------
(* Small instances of Clients for TLC. *)
EXTENDS Clients

NoHolds == {{}}
HeldSibling == {{"tool-doc"}}
SomeTrust == {[index |-> "verify", provenance |-> "verify", noDowngrade |-> TRUE],
              [index |-> "verify", provenance |-> "required", noDowngrade |-> TRUE],
              [index |-> "required", provenance |-> "off", noDowngrade |-> TRUE],
              [index |-> "off", provenance |-> "off", noDowngrade |-> TRUE]}

Both(v) == [of |-> Subjects, value |-> v]
One(s, v) == [of |-> {s}, value |-> v]

\* Levels that differ in each aspect, for both subjects or for one.
SomeTokens == {Both("Never"), Both("Optional"), One("database", "Required"),
               Both("TrustAll"), One("package", "TrustedOnly")}
=============================================================================
