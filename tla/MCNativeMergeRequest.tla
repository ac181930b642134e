------------------------ MODULE MCNativeMergeRequest ------------------------
(* Instances of NativeMergeRequest for TLC. *)
EXTENDS NativeMergeRequest

CONSTANTS n1, n2, feature, build

\* Two objects for the same two branches, as a Merge controller that crashed
\* after it created the first leaves them.
SameSource == [n \in NMR |-> feature]

BuildTarget == [n \in NMR |-> build]

=============================================================================
