------------------------------ MODULE NMRPromise ------------------------------
(***************************************************************************)
(* What the NativeMergeRequest controller promises to those who create the *)
(* objects and read their status: what each published field says about the *)
(* merge requests opened for the object, and which way it may change.  The *)
(* Merge controller knows no more of it than this.  NativeMergeRequest     *)
(* implements it, and Merge is written against it.                         *)
(***************************************************************************)

CONSTANTS NMR

VARIABLES
  view,   \* what the API server stores of each object
  past    \* what became of the merge requests opened for it so far

Outcome == {"merged", "closed", "removed"}

View ==
  [phase: {"none", "live", "deleting", "gone"}, autoAccept: BOOLEAN,
   ready: BOOLEAN, hasConflict: BOOLEAN, deleted: BOOLEAN, processed: BOOLEAN]

Fresh ==
  [phase |-> "none", autoAccept |-> FALSE, ready |-> FALSE,
   hasConflict |-> FALSE, deleted |-> FALSE, processed |-> FALSE]

Init ==
  /\ view = [n \in NMR |-> Fresh]
  /\ past = [n \in NMR |-> {}]

\* An object lives, is asked to go, and is gone; it never comes back.
Lives(v, w) ==
  <<v.phase, w.phase>> \in
    {<<"none", "live">>, <<"live", "deleting">>, <<"live", "gone">>, <<"deleting", "gone">>}
  \/ v.phase = w.phase

\* What the fields may newly say, p being what has happened.
Founded(v, w, p) ==
  /\ w.ready /\ ~v.ready => "merged" \in p
  /\ w.deleted /\ ~v.deleted => "removed" \in p /\ w.hasConflict
  /\ w.processed /\ ~v.processed => p # {}

\* What is never taken back.  processed may be, by a reconcile that failed.
Lasting(v, w) ==
  /\ v.ready => w.ready
  /\ v.hasConflict => w.hasConflict
  /\ v.deleted => w.deleted /\ w.ready = v.ready

Moves(v, p, w, q) ==
  /\ Lives(v, w) /\ Lasting(v, w) /\ Founded(v, w, p)
  /\ p \subseteq q
  /\ v.phase = "none" => q = {} /\ ~w.ready /\ ~w.hasConflict

Next ==
  /\ view' \in [NMR -> View]
  /\ past' \in [NMR -> SUBSET Outcome]
  /\ \A n \in NMR : Moves(view[n], past[n], view'[n], past'[n])

Spec == Init /\ [][Next]_<<view, past>>

=============================================================================
