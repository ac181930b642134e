----------------------------- MODULE MCVersions -----------------------------
(* Instances of Versions for TLC. *)
EXTENDS Versions

CONSTANTS m1, m2

\* A page is full, or one short of it; v0.0.10 was deleted.
Twenty == (1 .. 20) \ {10}

Hundred == 1 .. 99

=============================================================================
