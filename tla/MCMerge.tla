------------------------------ MODULE MCMerge ------------------------------
(* Instances of Merge for TLC. *)
EXTENDS Merge, TLC

CONSTANTS a, b

Asks(l, auto) == [branches |-> l, acceptFinalMR |-> auto]

\* Two branches, released without anybody's approval.
Both == {Asks(<<a, b>>, TRUE)}

\* A second branch joins the release, or leaves it.
Growing == {Asks(<<a>>, FALSE), Asks(<<a, b>>, FALSE)}

\* One branch is released instead of another.
Swapping == {Asks(<<a>>, FALSE), Asks(<<b>>, FALSE)}

\* The two branches are alike.
Alike == Permutations(Name)

=============================================================================
