--------------------------- MODULE MergeReleaseProofs ---------------------------
(***************************************************************************)
(* What the Merge controller does with the tag of a release and with the   *)
(* resolution of its conflicts, for any branches and any number of         *)
(* objects, failures, crashes and edits; and what the Ready condition of a *)
(* Merge says in runs without failures and edits.                          *)
(***************************************************************************)
EXTENDS MergeProofs

-----------------------------------------------------------------------------
(* The inductive invariant.                                                *)

\* As long as users edit nothing, the worker knows what is asked for: a copy
\* that has a tag, or whose build branch started over, has just the branches
\* asked for, and the build branch that started over is there.
Unedited ==
  edits = 0 =>
    /\ pc # "idle" => want = spec
    /\ stored.finalTag # 0 \/ stored.recreated => Names(stored.branches) = Listed(spec.branches)
    /\ merge.finalTag # 0 \/ merge.recreated => Names(merge.branches) = Listed(spec.branches)
    /\ stored.recreated => heads[build].exists /\ (pc # "idle" => merge.recreated)
    /\ merge.recreated => heads[build].exists

\* In a reconcile that has given up the stored tag t, the copy m at the step p
\* and the branch i has no branch left, or no release: then it will not come
\* to another tag, because it has a branch that is not processed yet.
GivenUp(p, m, t, w, i) ==
  p # "idle" /\ t # 0 /\ m.finalTag # t =>
    /\ p \notin {"dropResolveBranch", "dropResolveMR", "dropFinalMR"}
    /\ \/ m.branches = <<>> /\ p \notin {"dropBuild", "dropMRs", "branches"}
       \/ /\ m.finalTag = 0 /\ m.finalMR = 0
          /\ p \in {"dropBuild", "dropMRs", "branches", "build", "nmrs", "conditions", "object"}
          /\ p = "branches" =>
               m.branches = <<>> \/ ~(Listed(w.branches) \subseteq Names(m.branches))
          /\ p = "build" => \E k \in DOMAIN m.branches :
                              ~m.branches[k].processed /\ m.branches[k].nmr = 0
          /\ p = "nmrs" => \E k \in DOMAIN m.branches :
                             ~m.branches[k].processed /\ (k >= i => m.branches[k].nmr = 0)

\* The build branch starts over from main, so main has to be there; a tag that is
\* given up in the copy was given up for an edit.
ReleaseInv ==
  /\ heads[main].exists
  /\ Unedited
  /\ pc \in {"dropBuild", "dropMRs"} => Changed(merge, want)
  /\ pc # "idle" /\ stored.finalTag # 0 /\ merge.finalTag # stored.finalTag => edits > 0
  /\ GivenUp(pc, merge, stored.finalTag, want, at)

-----------------------------------------------------------------------------
(* Steps that leave the release alone.                                     *)

\* Two copies with the same branches and the same release.
Same(m, x) ==
  /\ x.branches = m.branches /\ x.finalTag = m.finalTag /\ x.finalMR = m.finalMR
  /\ x.recreated = m.recreated

\* What the code changes of a copy beside the release.
LEMMA SameCopies ==
  ASSUME ConstantsOK, NEW m \in Status
  PROVE  /\ Same(m, ReleaseBranchFailed(m)) /\ Same(m, Merged(m)) /\ Same(m, m)
         /\ \A f : Same(m, [m EXCEPT !.finalizer = f])
         /\ \A c : /\ Same(m, [m EXCEPT !.conditions.repositories = c])
                   /\ Same(m, [m EXCEPT !.conditions.branchesExist = c])
                   /\ Same(m, [m EXCEPT !.conditions.branchMerged = c])
                   /\ Same(m, [m EXCEPT !.conditions.resolved = c])
                   /\ Same(m, [m EXCEPT !.conditions = c])
         /\ \A p : Same(m, [m EXCEPT !.phase = p])
         /\ \A s \in Status : Same(m, Patched(s, m))
         /\ \A r : Same(m, WithResolveMR(m, r))
BY DEF Same, Status, ReleaseBranchFailed, Merged, Patched, WithResolveMR

\* The worker goes on with a copy that has the same release.
LEMMA ReleaseGoesOn ==
  ASSUME ReleaseInv, UNCHANGED <<spec, edits, stored, want>>, pc # "idle",
         heads'[main].exists, edits = 0 /\ merge.recreated => heads'[build].exists,
         NEW p, NEW x, Goto(p, x), Same(merge, x), p \notin {"dropBuild", "dropMRs"},
         GivenUp(p, x, stored.finalTag, want, at')
  PROVE  ReleaseInv'
<1>1. pc' = p /\ merge' = x
  BY DEF Goto
<1>2. Unedited'
  BY <1>1 DEF ReleaseInv, Unedited, Same
<1>3. pc' # "idle" /\ stored'.finalTag # 0 /\ merge'.finalTag # stored'.finalTag => edits' > 0
  BY <1>1 DEF ReleaseInv, Same
<1> QED BY <1>1, <1>2, <1>3 DEF ReleaseInv

\* The reconcile returns, with the same release.
LEMMA ReleaseReturns ==
  ASSUME ReleaseInv, UNCHANGED <<spec, edits, stored, want>>, pc # "idle",
         heads'[main].exists, edits = 0 /\ merge.recreated => heads'[build].exists,
         NEW x, Return(x), Same(merge, x)
  PROVE  ReleaseInv'
<1>1. GivenUp("conditions", x, stored.finalTag, want, at')
  BY DEF ReleaseInv, GivenUp, Same
<1> QED BY <1>1, ReleaseGoesOn DEF Return

\* Heads that nobody touches, and those that others do.
LEMMA HeadsKept ==
  ASSUME ReleaseInv, HeadsGoOn
  PROVE  heads'[main].exists /\ (edits = 0 /\ merge.recreated => heads'[build].exists)
BY DEF ReleaseInv, Unedited, HeadsGoOn

-----------------------------------------------------------------------------
(* The reconcile, step by step.                                            *)

\* What the worker does to the heads of other branches.
LEMMA WorkersHeads ==
  ASSUME ConstantsOK, TypeOK
  PROVE  /\ \A b : GetOrCreateBranch(b) => HeadsGoOn
         /\ \A l \in Lists : RemoveBranch(l) => HeadsGoOn
         /\ RemoveBranch(build) /\ heads[main].exists => heads'[main].exists
<1>1. /\ heads \in [Branch -> Commit] /\ main \in Branch /\ build \in Branch /\ build # main
      /\ \A b \in Lists : b # build /\ b # main
  BY DEF TypeOK, Branch, ConstantsOK
<1>2. ASSUME NEW b, GetOrCreateBranch(b) PROVE HeadsGoOn
  <2>1. CASE heads' = heads
    BY <2>1 DEF HeadsGoOn
  <2>2. CASE ~heads[b].exists /\ heads' = [heads EXCEPT ![b] = heads[main]]
    <3>1. heads'[main] = heads[main]
      BY <1>1, <2>2
    <3>2. CASE b = build
      BY <2>2, <3>1, <3>2 DEF HeadsGoOn
    <3>3. CASE b # build
      <4>1. heads'[build] = heads[build]
        BY <1>1, <2>2, <3>3
      <4> QED BY <3>1, <4>1 DEF HeadsGoOn
    <3> QED BY <3>2, <3>3
  <2> QED BY <1>2, <2>1, <2>2 DEF GetOrCreateBranch
<1>3. ASSUME NEW l \in Lists, RemoveBranch(l) PROVE HeadsGoOn
  BY <1>1, <1>3 DEF RemoveBranch, HeadsGoOn
<1>4. RemoveBranch(build) => heads'[main] = heads[main]
  BY <1>1 DEF RemoveBranch
<1> QED BY <1>2, <1>3, <1>4

\* While the branches are changing, there is no release that users did not
\* give up.
LEMMA NothingReleased ==
  ASSUME ReleaseInv, pc # "idle", Changed(merge, want), edits = 0
  PROVE  merge.finalTag = 0 /\ ~merge.recreated /\ ~stored.recreated
BY DEF ReleaseInv, Unedited, Changed

LEMMA ReconcileReleases == ConstantsOK /\ Inv /\ ReleaseInv /\ Reconcile => ReleaseInv'
<1> SUFFICES ASSUME ConstantsOK, Inv, ReleaseInv, Reconcile PROVE ReleaseInv'
  OBVIOUS
<1>1. want' = spec /\ UNCHANGED <<spec, stored, heads, edits>> /\ stored \in Status
  BY DEF Reconcile, gitlab, Inv, TypeOK
<1>2. ASSUME NEW p, NEW x, Goto(p, x), Same(stored, x), p \notin {"dropBuild", "dropMRs"}
      PROVE  ReleaseInv'
  <2>1. pc' = p /\ merge' = x
    BY <1>2 DEF Goto
  <2>2. Unedited'
    BY <1>1, <1>2, <2>1 DEF ReleaseInv, Unedited, Same
  <2> QED BY <1>1, <1>2, <2>1, <2>2 DEF ReleaseInv, GivenUp, Same
<1>3. CASE \E f \in BOOLEAN : Return([stored EXCEPT !.finalizer = f])
  BY <1>1, <1>2, <1>3, SameCopies DEF Return
<1>4. CASE Return([stored EXCEPT !.conditions.repositories = "False"])
  BY <1>1, <1>2, <1>4, SameCopies DEF Return
<1>5. CASE Goto(IF Changed(stored, spec) THEN "dropResolveBranch" ELSE "branches",
                [stored EXCEPT !.conditions.repositories = "True"])
  <2> DEFINE x == [stored EXCEPT !.conditions.repositories = "True"]
  <2>1. Same(stored, x)
    BY <1>1, SameCopies
  <2>2. Goto("dropResolveBranch", x) \/ Goto("branches", x)
    BY <1>5
  <2> HIDE DEF x
  <2> QED BY <1>2, <2>1, <2>2
<1> QED BY <1>3, <1>4, <1>5 DEF Reconcile

LEMMA DropResolveBranchReleases ==
  ConstantsOK /\ Inv /\ ReleaseInv /\ DropResolveBranch => ReleaseInv'
<1> SUFFICES ASSUME ConstantsOK, Inv, ReleaseInv, DropResolveBranch PROVE ReleaseInv'
  OBVIOUS
<1>1. UNCHANGED <<spec, edits, stored, want>> /\ pc # "idle" /\ merge \in Status /\ TypeOK
  BY DEF DropResolveBranch, Inv, TypeOK
<1>2. HeadsGoOn
  <2>1. merge.resolveName \in Lists
    BY <1>1 DEF Status
  <2> QED BY <1>1, <2>1, WorkersHeads, HeadsStay DEF DropResolveBranch
<1>3. Goto("dropResolveMR", merge) \/ Return(merge)
  BY DEF DropResolveBranch, Answered
<1>4. GivenUp("dropResolveMR", merge, stored.finalTag, want, at')
  BY DEF DropResolveBranch, ReleaseInv, GivenUp
<1> QED BY <1>1, <1>2, <1>3, <1>4, HeadsKept, SameCopies, ReleaseGoesOn, ReleaseReturns

LEMMA DropResolveMRReleases ==
  ConstantsOK /\ Inv /\ ReleaseInv /\ DropResolveMR => ReleaseInv'
<1> SUFFICES ASSUME ConstantsOK, Inv, ReleaseInv, DropResolveMR PROVE ReleaseInv'
  OBVIOUS
<1>1. UNCHANGED <<spec, edits, stored, want, heads>> /\ pc # "idle" /\ merge \in Status /\ TypeOK
  BY DEF DropResolveMR, Inv, TypeOK, gitlab
<1>2. HeadsGoOn
  BY <1>1, HeadsStay
<1>3. CASE Return(merge)
  BY <1>1, <1>2, <1>3, HeadsKept, SameCopies, ReleaseReturns
<1>4. CASE Goto("dropFinalMR", NoConflictState(merge))
  <2> DEFINE x == NoConflictState(merge)
  <2>1. x.branches = merge.branches /\ x.finalTag = merge.finalTag /\ x.recreated = FALSE
    BY <1>1 DEF NoConflictState, Status
  <2> HIDE DEF x
  <2>2. pc' = "dropFinalMR" /\ merge' = x
    BY <1>4 DEF Goto, x
  <2>3. Changed(merge, want)
    BY DEF DropResolveMR, Inv, StepOK
  <2>4. edits = 0 => ~stored.recreated
    BY <1>1, <2>3, NothingReleased
  <2>5. Unedited'
    BY <1>1, <2>1, <2>2, <2>4 DEF ReleaseInv, Unedited
  <2>6. ~(stored.finalTag # 0 /\ merge.finalTag # stored.finalTag)
    BY DEF DropResolveMR, ReleaseInv, GivenUp
  <2> QED BY <1>1, <2>1, <2>2, <2>5, <2>6 DEF ReleaseInv, GivenUp
<1> QED BY <1>3, <1>4 DEF DropResolveMR, Answered

LEMMA DropFinalMRReleases ==
  ConstantsOK /\ Inv /\ ReleaseInv /\ DropFinalMR => ReleaseInv'
<1> SUFFICES ASSUME ConstantsOK, Inv, ReleaseInv, DropFinalMR PROVE ReleaseInv'
  OBVIOUS
<1> DEFINE next == IF Shrunk(merge, want) THEN "dropBuild" ELSE "branches"
<1>1. UNCHANGED <<spec, edits, stored, want, heads>> /\ pc # "idle" /\ merge \in Status /\ TypeOK
  BY DEF DropFinalMR, Inv, TypeOK, gitlab
<1>2. CASE Return(merge)
  BY <1>1, <1>2, HeadsStay, HeadsKept, SameCopies, ReleaseReturns
<1>3. ASSUME NEW x, Goto(next, x), x.branches = merge.branches, x.recreated = merge.recreated,
             x = merge \/ (x.finalTag = 0 /\ x.finalMR = 0)
      PROVE  ReleaseInv'
  <2>1. pc' = next /\ merge' = x
    BY <1>3 DEF Goto
  <2>2. Changed(merge, want) /\ Changed(x, want)
    BY <1>3 DEF DropFinalMR, Inv, StepOK, Changed
  <2>3. edits = 0 => merge.finalTag = 0 /\ ~merge.recreated
    BY <1>1, <2>2, NothingReleased
  <2>4. Unedited'
    BY <1>1, <1>3, <2>1, <2>3 DEF ReleaseInv, Unedited
  <2>5. ~(stored.finalTag # 0 /\ merge.finalTag # stored.finalTag)
    BY DEF DropFinalMR, ReleaseInv, GivenUp
  <2>6. next = "branches" => ~(Listed(want.branches) \subseteq Names(x.branches))
    BY <1>3, <2>2 DEF Changed, Shrunk
  <2>7. stored.finalTag # 0 /\ x.finalTag # stored.finalTag =>
          edits > 0 /\ x.finalTag = 0 /\ x.finalMR = 0
    <3>1. CASE stored.finalTag # 0 /\ x.finalTag # stored.finalTag
      <4>1. x # merge /\ merge.finalTag # 0
        BY <2>5, <3>1
      <4>2. edits # 0 /\ edits \in Nat
        BY <1>1, <2>3, <4>1 DEF TypeOK, ConstantsOK
      <4> QED BY <1>3, <4>1, <4>2
    <3> QED BY <3>1
  <2>8. next \in {"dropBuild", "branches"}
    OBVIOUS
  <2> HIDE DEF next
  <2>9. GivenUp(next, x, stored.finalTag, want, at')
    BY <2>6, <2>7, <2>8 DEF GivenUp
  <2> QED BY <1>1, <2>1, <2>2, <2>4, <2>7, <2>9 DEF ReleaseInv
<1>4. /\ ReleaseForgotten(merge).branches = merge.branches
      /\ ReleaseForgotten(merge).recreated = merge.recreated
      /\ ReleaseForgotten(merge).finalTag = 0 /\ ReleaseForgotten(merge).finalMR = 0
  BY <1>1 DEF ReleaseForgotten, Status
<1>5. Goto(next, merge) \/ Goto(next, ReleaseForgotten(merge)) \/ Return(merge)
  BY DEF DropFinalMR, Answered
<1> HIDE DEF next
<1>6. CASE Goto(next, merge)
  BY <1>3, <1>6
<1>7. CASE Goto(next, ReleaseForgotten(merge))
  <2> DEFINE x == ReleaseForgotten(merge)
  <2> HIDE DEF x
  <2> QED BY <1>3, <1>4, <1>7 DEF x
<1> QED BY <1>2, <1>5, <1>6, <1>7

LEMMA DropBuildReleases == ConstantsOK /\ Inv /\ ReleaseInv /\ DropBuild => ReleaseInv'
<1> SUFFICES ASSUME ConstantsOK, Inv, ReleaseInv, DropBuild PROVE ReleaseInv'
  OBVIOUS
<1>1. UNCHANGED <<spec, edits, stored, want>> /\ pc # "idle" /\ merge \in Status /\ TypeOK
  BY DEF DropBuild, Inv, TypeOK
<1>2. Changed(merge, want) /\ pc = "dropBuild"
  BY DEF DropBuild, ReleaseInv
<1>3. edits = 0 => ~merge.recreated /\ ~stored.recreated
  BY <1>1, <1>2, NothingReleased
<1>4. heads'[main].exists
  BY <1>1, WorkersHeads DEF DropBuild, ReleaseInv
<1>5. CASE Return(ReleaseBranchFailed(merge))
  BY <1>1, <1>3, <1>4, <1>5, SameCopies, ReleaseReturns
<1>6. CASE Goto("dropMRs", merge)
  <2>1. pc' = "dropMRs" /\ merge' = merge
    BY <1>6 DEF Goto
  <2>2. Unedited'
    BY <1>1, <1>3, <2>1 DEF ReleaseInv, Unedited
  <2>3. GivenUp(pc', merge', stored'.finalTag, want', at')
    BY <1>1, <1>2, <2>1 DEF ReleaseInv, GivenUp
  <2> QED BY <1>1, <1>2, <1>4, <2>1, <2>2, <2>3 DEF ReleaseInv
<1> QED BY <1>5, <1>6 DEF DropBuild, Answered

LEMMA DropBranchMRsReleases ==
  ConstantsOK /\ Inv /\ ReleaseInv /\ DropBranchMRs => ReleaseInv'
<1> SUFFICES ASSUME ConstantsOK, Inv, ReleaseInv, DropBranchMRs PROVE ReleaseInv'
  OBVIOUS
<1>1. /\ UNCHANGED <<spec, edits, stored, want, heads>> /\ pc # "idle" /\ merge \in Status /\ TypeOK
      /\ pc = "dropMRs"
  BY DEF DropBranchMRs, Inv, TypeOK, gitlab
<1>2. Changed(merge, want)
  BY <1>1 DEF ReleaseInv
<1>3. edits = 0 => merge.finalTag = 0 /\ ~merge.recreated /\ ~stored.recreated
  BY <1>1, <1>2, NothingReleased
<1>4. ASSUME NEW p \in {"branches", "dropMRs"}, NEW x, Goto(p, x),
             x.finalTag = merge.finalTag, x.finalMR = merge.finalMR, x.recreated = merge.recreated,
             IF p = "branches" THEN x.branches = <<>> ELSE Names(x.branches) = Names(merge.branches)
      PROVE  ReleaseInv'
  <2>1. pc' = p /\ merge' = x
    BY <1>4 DEF Goto
  <2>2. Unedited'
    BY <1>1, <1>3, <1>4, <2>1 DEF ReleaseInv, Unedited
  <2>3. GivenUp(pc', merge', stored'.finalTag, want', at')
    BY <1>1, <1>4, <2>1 DEF ReleaseInv, GivenUp
  <2>4. pc' = "dropMRs" => Changed(merge', want')
    BY <1>1, <1>2, <1>4, <2>1 DEF Changed
  <2> QED BY <1>1, <1>4, <2>1, <2>2, <2>3, <2>4 DEF ReleaseInv
<1>5. CASE Return(ReleaseBranchFailed(merge))
  BY <1>1, <1>5, HeadsStay, HeadsKept, SameCopies, ReleaseReturns
<1>6. CASE Goto("branches", [merge EXCEPT !.branches = <<>>])
  <2> DEFINE x == [merge EXCEPT !.branches = <<>>]
  <2>1. /\ x.branches = <<>> /\ x.finalTag = merge.finalTag /\ x.finalMR = merge.finalMR
        /\ x.recreated = merge.recreated
    BY <1>1 DEF Status
  <2> HIDE DEF x
  <2> QED BY <1>4, <1>6, <2>1 DEF x
<1>7. CASE Goto("dropMRs", merge)
  BY <1>4, <1>7
<1>8. CASE /\ at <= Len(merge.branches)
           /\ Goto("dropMRs", [merge EXCEPT !.branches[at].nmr = 0])
  <2> DEFINE bs == [merge.branches EXCEPT ![at].nmr = 0]
             x == [merge EXCEPT !.branches = bs]
  <2>1. at \in DOMAIN merge.branches /\ merge.branches \in BranchList
    BY <1>1, <1>8, AtEntry
  <2>2. Names(bs) = Names(merge.branches)
    BY <2>1, EntryForgotten
  <2> HIDE DEF bs
  <2>3. /\ x.branches = bs /\ x.finalTag = merge.finalTag /\ x.finalMR = merge.finalMR
        /\ x.recreated = merge.recreated
    BY <1>1 DEF Status
  <2>4. Goto("dropMRs", x)
    BY <1>8 DEF bs
  <2> HIDE DEF x
  <2> QED BY <1>4, <2>2, <2>3, <2>4
<1> QED BY <1>5, <1>6, <1>7, <1>8 DEF DropBranchMRs, Answered

LEMMA AddBranchesToStatusReleases ==
  ConstantsOK /\ Inv /\ ReleaseInv /\ AddBranchesToStatus => ReleaseInv'
<1> SUFFICES ASSUME ConstantsOK, Inv, ReleaseInv, AddBranchesToStatus PROVE ReleaseInv'
  OBVIOUS
<1>1. /\ UNCHANGED <<spec, edits, stored, want, heads, at>> /\ merge \in Status /\ TypeOK
      /\ pc = "branches" /\ Distinct(merge.branches) /\ want \in SpecType
  BY DEF AddBranchesToStatus, Inv, TypeOK, gitlab, Sound, SpecType
<1>2. PICK f : Goto("build", [merge EXCEPT !.branches = Validated(Extended(merge, want), f)])
  BY DEF AddBranchesToStatus
<1> DEFINE old == merge.branches
           vs == Validated(Extended(merge, want), f)
           x == [merge EXCEPT !.branches = vs]
<1>3. x.branches = vs /\ Names(vs) = Listed(want.branches)
  BY <1>1, AddedBranches
<1>4. x.finalTag = merge.finalTag /\ x.finalMR = merge.finalMR /\ x.recreated = merge.recreated
  BY <1>1 DEF Status
<1>5. ASSUME ~(Listed(want.branches) \subseteq Names(old))
      PROVE  \E k \in DOMAIN vs : ~vs[k].processed /\ vs[k].nmr = 0
  <2> DEFINE bs == Extended(merge, want)
  <2>1. /\ Names(bs) = Names(old) \cup Listed(want.branches)
        /\ DOMAIN old \subseteq DOMAIN bs /\ \A k \in DOMAIN old : bs[k] = old[k]
        /\ \A k \in DOMAIN bs \ DOMAIN old : bs[k] = NewBranch(bs[k].name)
    BY <1>1, ExtendedKeeps DEF Status, BranchList, SpecType
  <2> HIDE DEF bs
  <2>2. PICK k \in DOMAIN bs : bs[k].name \notin Names(old)
    BY <1>5, <2>1 DEF Names
  <2>3. k \notin DOMAIN old
    BY <2>1, <2>2 DEF Names
  <2>4. ~bs[k].processed /\ bs[k].nmr = 0
    BY <2>1, <2>3 DEF NewBranch
  <2>5. DOMAIN vs = DOMAIN bs /\ vs[k] = [bs[k] EXCEPT !.valid = heads[bs[k].name].exists /\ k # f]
    BY DEF Validated, bs
  <2>6. vs[k].processed = bs[k].processed /\ vs[k].nmr = bs[k].nmr
    <3>1. bs[k] = [name |-> bs[k].name, nmr |-> 0, valid |-> FALSE, conflict |-> FALSE, processed |-> FALSE]
      BY <2>1, <2>3 DEF NewBranch
    <3> HIDE DEF vs
    <3> QED BY <2>5, <3>1
  <2> QED BY <2>4, <2>5, <2>6
<1>6. Listed(want.branches) = {} => vs = <<>>
  <2>1. vs \in BranchList
    <3>1. x \in Status
      BY <1>1, AddedBranches
    <3> HIDE DEF x, vs
    <3> QED BY <1>3, <3>1 DEF Status, BranchList
  <2> HIDE DEF vs
  <2>2. vs \in Seq(BranchStatus) /\ DOMAIN vs = 1 .. Len(vs) /\ Len(vs) \in Nat
    BY <2>1, BranchListIsSeq
  <2>3. ASSUME Names(vs) = {} PROVE vs = <<>>
    <3>1. DOMAIN vs = {}
      <4>1. \A k \in DOMAIN vs : vs[k].name \in Names(vs)
        BY DEF Names
      <4> QED BY <2>3, <4>1
    <3>2. Len(vs) = 0
      BY <2>2, <3>1
    <3> QED BY <2>2, <3>2
  <2> QED BY <1>3, <2>3
<1> HIDE DEF vs
<1>7. pc' = "build" /\ merge' = x
  BY <1>2 DEF Goto, vs
<1> HIDE DEF x
<1>8. Unedited'
  BY <1>1, <1>3, <1>4, <1>7 DEF ReleaseInv, Unedited
<1>9. GivenUp(pc', merge', stored'.finalTag, want', at')
  <2>1. old = <<>> => Names(old) = {}
    BY DEF Names
  <2> QED BY <1>1, <1>3, <1>4, <1>5, <1>6, <1>7, <2>1 DEF ReleaseInv, GivenUp
<1>10. pc' # "idle" /\ stored'.finalTag # 0 /\ merge'.finalTag # stored'.finalTag => edits' > 0
  BY <1>1, <1>4, <1>7 DEF ReleaseInv
<1> QED BY <1>1, <1>7, <1>8, <1>9, <1>10 DEF ReleaseInv

LEMMA GetOrCreateBuildBranchReleases ==
  ConstantsOK /\ Inv /\ ReleaseInv /\ GetOrCreateBuildBranch => ReleaseInv'
<1> SUFFICES ASSUME ConstantsOK, Inv, ReleaseInv, GetOrCreateBuildBranch PROVE ReleaseInv'
  OBVIOUS
<1>1. /\ UNCHANGED <<spec, edits, stored, want, at>> /\ pc = "build" /\ merge \in Status /\ TypeOK
  BY DEF GetOrCreateBuildBranch, Inv, TypeOK
<1>2. HeadsGoOn
  BY <1>1, WorkersHeads, HeadsStay DEF GetOrCreateBuildBranch
<1>3. GivenUp("nmrs", merge, stored.finalTag, want, at')
  BY <1>1 DEF ReleaseInv, GivenUp
<1>4. Goto("nmrs", merge) \/ Return(ReleaseBranchFailed(merge))
  BY DEF GetOrCreateBuildBranch, Answered
<1> QED BY <1>1, <1>2, <1>3, <1>4, HeadsKept, SameCopies, ReleaseGoesOn, ReleaseReturns

LEMMA EnsureBranchMRReleases ==
  ConstantsOK /\ Inv /\ ReleaseInv /\ EnsureBranchMR => ReleaseInv'
<1> SUFFICES ASSUME ConstantsOK, Inv, ReleaseInv, EnsureBranchMR PROVE ReleaseInv'
  OBVIOUS
<1>1. /\ UNCHANGED <<spec, edits, stored, want, heads>> /\ pc = "nmrs" /\ merge \in Status /\ TypeOK
      /\ at' = at + 1 /\ at <= Len(merge.branches) /\ merge.branches \in BranchList
  BY DEF EnsureBranchMR, Inv, TypeOK, gitlab, Status, BranchList
<1>2. at \in DOMAIN merge.branches /\ at \in Nat /\ DOMAIN merge.branches = 1 .. Len(merge.branches)
  BY <1>1, AtEntry
<1>3. CASE Return(merge)
  BY <1>1, <1>3, HeadsStay, HeadsKept, SameCopies, ReleaseReturns
<1>4. ASSUME NEW r \in NMR, nmr' \in [NMR -> Object],
             Obtains(merge.branches[at].nmr, merge.branches[at].name, build, TRUE, r),
             Goto("nmrs", [merge EXCEPT !.branches = Noted(merge.branches, at, r)])
      PROVE  ReleaseInv'
  <2> DEFINE bs == Noted(merge.branches, at, r)
             x == [merge EXCEPT !.branches = bs]
  <2>1. /\ DOMAIN bs = DOMAIN merge.branches /\ Names(bs) = Names(merge.branches)
        /\ \A l \in DOMAIN bs : l # at => bs[l] = merge.branches[l]
        /\ bs[at].processed = nmr'[r].processed
    <3>1. nmr' \in [NMR -> Object] /\ merge.branches \in BranchList /\ at \in DOMAIN merge.branches
      BY <1>1, <1>2, <1>4
    <3> QED BY <3>1, EntryNoted
  <2> HIDE DEF bs
  <2>2. /\ x.branches = bs /\ x.finalTag = merge.finalTag /\ x.finalMR = merge.finalMR
        /\ x.recreated = merge.recreated
    BY <1>1 DEF Status
  <2>3. pc' = "nmrs" /\ merge' = x
    BY <1>4 DEF Goto, bs
  <2> HIDE DEF x
  <2>4. Unedited'
    BY <1>1, <2>1, <2>2, <2>3 DEF ReleaseInv, Unedited
  <2>5. merge.branches # <<>>
    BY <1>1, <1>2
  <2>6. merge.branches[at].nmr = 0 => ~bs[at].processed
    <3>1. ~Found(0)
      BY DEF Found
    <3> QED BY <1>4, <2>1, <3>1 DEF Obtains
  <2>7. ASSUME NEW k \in DOMAIN merge.branches, ~merge.branches[k].processed,
               k >= at => merge.branches[k].nmr = 0
        PROVE  ~bs[k].processed /\ (k >= at' => bs[k].nmr = 0)
    <3>1. k \in Nat
      BY <1>2
    <3>2. CASE k = at
      BY <1>1, <1>2, <2>6, <2>7, <3>2
    <3>3. CASE k # at
      BY <1>1, <1>2, <2>1, <2>7, <3>1, <3>3
    <3> QED BY <3>2, <3>3
  <2>8. GivenUp(pc', merge', stored'.finalTag, want', at')
    <3>1. CASE ~(stored.finalTag # 0 /\ merge.finalTag # stored.finalTag)
      BY <1>1, <2>2, <2>3, <3>1 DEF GivenUp
    <3>2. CASE stored.finalTag # 0 /\ merge.finalTag # stored.finalTag
      <4>1. /\ merge.finalTag = 0 /\ merge.finalMR = 0
            /\ \E k \in DOMAIN merge.branches :
                 ~merge.branches[k].processed /\ (k >= at => merge.branches[k].nmr = 0)
        BY <1>1, <2>5, <3>2 DEF ReleaseInv, GivenUp
      <4>2. \E k \in DOMAIN bs : ~bs[k].processed /\ (k >= at' => bs[k].nmr = 0)
        BY <2>1, <2>7, <4>1
      <4> QED BY <1>1, <2>2, <2>3, <4>1, <4>2 DEF GivenUp
    <3> QED BY <3>1, <3>2
  <2>9. stored'.finalTag # 0 /\ merge'.finalTag # stored'.finalTag => edits' > 0
    BY <1>1, <2>2, <2>3 DEF ReleaseInv
  <2> QED BY <1>1, <2>3, <2>4, <2>8, <2>9 DEF ReleaseInv
<1>5. ObjectsNext
  BY EnsuredBranchMR
<1> QED BY <1>3, <1>4, <1>5, EnsuredBranchMR DEF ObjectsNext

\* The steps that a reconcile comes to once all branches are processed.
Late ==
  {"recreate", "createBuild", "resolveBranch", "resolveMR", "compare", "tag", "finalMR", "setAuto"}

\* One of them after the other, with the same release.
LEMMA LateGoesOn ==
  ASSUME ReleaseInv, UNCHANGED <<spec, edits, stored, want>>, pc \in Late,
         heads'[main].exists, edits = 0 /\ merge.recreated => heads'[build].exists,
         NEW p \in Late, NEW x, Goto(p, x), Same(merge, x)
  PROVE  ReleaseInv'
<1>1. GivenUp(p, x, stored.finalTag, want, at')
  BY DEF ReleaseInv, GivenUp, Same, Late
<1> QED BY <1>1, ReleaseGoesOn DEF Late

LEMMA JudgeReleases == ConstantsOK /\ Inv /\ ReleaseInv /\ Judge => ReleaseInv'
<1> SUFFICES ASSUME ConstantsOK, Inv, ReleaseInv, Judge PROVE ReleaseInv'
  OBVIOUS
<1>1. /\ UNCHANGED <<spec, edits, stored, want, heads>> /\ pc = "nmrs" /\ merge \in Status /\ TypeOK
  BY DEF Judge, Inv, TypeOK, gitlab, bounds
<1> DEFINE exist == [merge EXCEPT !.conditions.branchesExist = "True"]
           lack == [merge EXCEPT !.conditions.branchesExist = "False"]
           await == [exist EXCEPT !.conditions.branchMerged = "False"]
<1>2. Same(merge, exist) /\ Same(merge, lack) /\ exist \in Status
  BY <1>1, SameCopies, StatusType DEF Condition
<1> HIDE DEF exist, lack
<1>3. Same(exist, await)
  BY <1>2, SameCopies
<1> HIDE DEF await
<1>4. Same(merge, await)
  BY <1>2, <1>3 DEF Same
<1>5. CASE Return(lack) \/ Return(await)
  BY <1>1, <1>2, <1>4, <1>5, HeadsStay, HeadsKept, ReleaseReturns
<1>6. ASSUME AllProcessed(merge), NEW p \in Late, Goto(p, exist) PROVE ReleaseInv'
  <2>1. GivenUp(p, exist, stored.finalTag, want, at')
    BY <1>1, <1>2, <1>6 DEF ReleaseInv, GivenUp, Same, Late, AllProcessed
  <2> QED BY <1>1, <1>2, <1>6, <2>1, HeadsStay, HeadsKept, ReleaseGoesOn DEF Late
<1>7. \/ Return(lack) \/ Return(await)
      \/ /\ AllProcessed(merge)
         /\ Goto("recreate", exist) \/ Goto("resolveBranch", exist) \/ Goto("compare", exist)
  BY DEF Judge, exist, lack, await
<1> QED BY <1>5, <1>6, <1>7 DEF Late

LEMMA RecreateBuildReleases ==
  ConstantsOK /\ Inv /\ ReleaseInv /\ RecreateBuild => ReleaseInv'
<1> SUFFICES ASSUME ConstantsOK, Inv, ReleaseInv, RecreateBuild PROVE ReleaseInv'
  OBVIOUS
<1>1. UNCHANGED <<spec, edits, stored, want>> /\ pc = "recreate" /\ merge \in Status /\ TypeOK
  BY DEF RecreateBuild, Inv, TypeOK
<1>2. ~merge.recreated
  BY <1>1 DEF Inv, StepOK
<1>3. heads'[main].exists
  BY <1>1, WorkersHeads DEF RecreateBuild, ReleaseInv
<1>4. Goto("createBuild", merge) \/ Return(ReleaseBranchFailed(merge))
  BY DEF RecreateBuild, Answered
<1> QED BY <1>1, <1>2, <1>3, <1>4, SameCopies, LateGoesOn, ReleaseReturns DEF Late

LEMMA CreateBuildReleases ==
  ConstantsOK /\ Inv /\ ReleaseInv /\ CreateBuild => ReleaseInv'
<1> SUFFICES ASSUME ConstantsOK, Inv, ReleaseInv, CreateBuild PROVE ReleaseInv'
  OBVIOUS
<1>1. /\ UNCHANGED <<spec, edits, stored, want>> /\ pc = "createBuild" /\ merge \in Status /\ TypeOK
      /\ heads \in [Branch -> Commit] /\ main \in Branch /\ build \in Branch
  BY DEF CreateBuild, Inv, TypeOK, Branch
<1>2. ~merge.recreated /\ ~Changed(merge, want)
  BY <1>1 DEF Inv, StepOK, Resolving
<1>3. heads'[main].exists
  BY <1>1 DEF CreateBuild, ReleaseInv
<1>4. CASE Return(ReleaseBranchFailed(merge))
  BY <1>1, <1>2, <1>3, <1>4, SameCopies, ReleaseReturns
<1>5. CASE /\ heads' = [heads EXCEPT ![build] = heads[main]]
           /\ Goto("resolveBranch", [merge EXCEPT !.recreated = TRUE])
  <2> DEFINE x == [merge EXCEPT !.recreated = TRUE]
  <2>1. x.branches = merge.branches /\ x.finalTag = merge.finalTag /\ x.finalMR = merge.finalMR
    BY <1>1 DEF Status
  <2>2. x.recreated
    BY <1>1 DEF Status
  <2> HIDE DEF x
  <2>3. pc' = "resolveBranch" /\ merge' = x
    BY <1>5 DEF Goto, x
  <2>4. heads'[build].exists
    BY <1>1, <1>5 DEF ReleaseInv
  <2>5. Unedited'
    BY <1>1, <1>2, <2>1, <2>2, <2>3, <2>4 DEF ReleaseInv, Unedited, Changed
  <2>6. GivenUp(pc', merge', stored'.finalTag, want', at')
    BY <1>1, <2>1, <2>3 DEF ReleaseInv, GivenUp
  <2>7. stored'.finalTag # 0 /\ merge'.finalTag # stored'.finalTag => edits' > 0
    BY <1>1, <2>1, <2>3 DEF ReleaseInv
  <2> QED BY <1>1, <1>3, <2>3, <2>5, <2>6, <2>7 DEF ReleaseInv
<1> QED BY <1>4, <1>5 DEF CreateBuild, Answered

LEMMA GetOrCreateResolveBranchReleases ==
  ConstantsOK /\ Inv /\ ReleaseInv /\ GetOrCreateResolveBranch => ReleaseInv'
<1> SUFFICES ASSUME ConstantsOK, Inv, ReleaseInv, GetOrCreateResolveBranch PROVE ReleaseInv'
  OBVIOUS
<1>1. UNCHANGED <<spec, edits, stored, want>> /\ pc = "resolveBranch" /\ merge \in Status /\ TypeOK
  BY DEF GetOrCreateResolveBranch, Inv, TypeOK
<1>2. HeadsGoOn
  BY <1>1, WorkersHeads, HeadsStay DEF GetOrCreateResolveBranch
<1>3. Goto("resolveMR", merge) \/ Return(ReleaseBranchFailed(merge))
  BY DEF GetOrCreateResolveBranch, Answered
<1> QED BY <1>1, <1>2, <1>3, HeadsKept, SameCopies, LateGoesOn, ReleaseReturns DEF Late

LEMMA EnsureResolveMRReleases ==
  ConstantsOK /\ Inv /\ ReleaseInv /\ EnsureResolveMR => ReleaseInv'
<1> SUFFICES ASSUME ConstantsOK, Inv, ReleaseInv, EnsureResolveMR PROVE ReleaseInv'
  OBVIOUS
<1>1. /\ UNCHANGED <<spec, edits, stored, want, heads>> /\ pc = "resolveMR" /\ merge \in Status /\ TypeOK
      /\ Sound(merge, nmr, lastNMR, tags)
  BY DEF EnsureResolveMR, Inv, TypeOK, gitlab
<1>2. ASSUME NEW m \in Status, Same(merge, m)
      PROVE  /\ Return([m EXCEPT !.conditions.resolved = "False"]) => ReleaseInv'
             /\ Goto("compare", [m EXCEPT !.conditions.resolved = "True"]) => ReleaseInv'
  <2> DEFINE x == [m EXCEPT !.conditions.resolved = "False"]
             y == [m EXCEPT !.conditions.resolved = "True"]
  <2>1. Same(m, x) /\ Same(m, y)
    BY SameCopies
  <2> HIDE DEF x, y
  <2>2. Same(merge, x) /\ Same(merge, y)
    BY <1>2, <2>1 DEF Same
  <2>3. Return(x) => ReleaseInv'
    BY <1>1, <2>2, HeadsStay, HeadsKept, ReleaseReturns
  <2>4. Goto("compare", y) => ReleaseInv'
    BY <1>1, <2>2, HeadsStay, HeadsKept, LateGoesOn DEF Late
  <2> QED BY <2>3, <2>4 DEF x, y
<1>3. CASE Return([merge EXCEPT !.conditions.resolved = "False"])
  BY <1>1, <1>2, <1>3, SameCopies
<1>4. ASSUME NEW r \in NMR, r <= lastNMR',
             nmr'[r].source = ResolveName(merge), nmr'[r].target = build,
             \/ Return([WithResolveMR(merge, r) EXCEPT !.conditions.resolved = "False"])
             \/ Goto("compare", [WithResolveMR(merge, r) EXCEPT !.conditions.resolved = "True"])
      PROVE  ReleaseInv'
  <2> DEFINE m == WithResolveMR(merge, r)
  <2>1. ObjectsNext /\ TagsStay
    BY EnsuredResolveMR, NothingShared DEF EnsureResolveMR, gitlab
  <2>2. Sound(merge, nmr', lastNMR', tags') /\ lastNMR' \in Nat
    BY <1>1, <2>1, SoundStays DEF ObjectsNext, ConstantsOK
  <2>3. m \in Status
    BY <1>1, <1>4, <2>2, SoundResolving
  <2>4. Same(merge, m)
    BY <1>1, SameCopies
  <2> HIDE DEF m
  <2>5. \/ Return([m EXCEPT !.conditions.resolved = "False"])
        \/ Goto("compare", [m EXCEPT !.conditions.resolved = "True"])
    BY <1>4 DEF m
  <2> QED BY <1>2, <2>3, <2>4, <2>5
<1> QED BY <1>3, <1>4, EnsuredResolveMR DEF Obtains

LEMMA CompareWithMainReleases ==
  ConstantsOK /\ Inv /\ ReleaseInv /\ CompareWithMain => ReleaseInv'
<1> SUFFICES ASSUME ConstantsOK, Inv, ReleaseInv, CompareWithMain PROVE ReleaseInv'
  OBVIOUS
<1>1. UNCHANGED <<spec, edits, stored, want, heads>> /\ pc = "compare" /\ merge \in Status
  BY DEF CompareWithMain, Inv, TypeOK, gitlab
<1>2. Goto("tag", merge) \/ Return(merge)
  BY DEF CompareWithMain
<1> QED BY <1>1, <1>2, HeadsStay, HeadsKept, SameCopies, LateGoesOn, ReleaseReturns DEF Late

LEMMA CreateFinalTagReleases ==
  ConstantsOK /\ Inv /\ ReleaseInv /\ CreateFinalTag => ReleaseInv'
<1> SUFFICES ASSUME ConstantsOK, Inv, ReleaseInv, CreateFinalTag PROVE ReleaseInv'
  OBVIOUS
<1>1. UNCHANGED <<spec, edits, stored, want, heads>> /\ pc = "tag" /\ merge \in Status
  BY DEF CreateFinalTag, Inv, TypeOK
<1>2. CASE Return(merge)
  BY <1>1, <1>2, HeadsStay, HeadsKept, SameCopies, ReleaseReturns
<1>3. CASE Goto("finalMR", WithTag(merge, TagOf(merge)))
  <2> DEFINE x == WithTag(merge, TagOf(merge))
  <2>1. /\ x.branches = merge.branches /\ x.finalMR = merge.finalMR
        /\ x.recreated = merge.recreated /\ x.finalTag = TagOf(merge)
    BY <1>1 DEF WithTag, Status
  <2> HIDE DEF x
  <2>2. pc' = "finalMR" /\ merge' = x
    BY <1>3 DEF Goto, x
  <2>3. ~Changed(merge, want)
    BY <1>1 DEF Inv, StepOK
  <2>4. merge.finalTag # 0 => x.finalTag = merge.finalTag
    BY <2>1 DEF TagOf
  <2>5. Unedited'
    BY <1>1, <2>1, <2>2, <2>3 DEF ReleaseInv, Unedited, Changed
  <2>6. stored.finalTag # 0 /\ x.finalTag # stored.finalTag => merge.finalTag # stored.finalTag
    BY <2>4
  <2>7. GivenUp(pc', merge', stored'.finalTag, want', at')
    BY <1>1, <2>1, <2>2, <2>6 DEF ReleaseInv, GivenUp
  <2>8. stored'.finalTag # 0 /\ merge'.finalTag # stored'.finalTag => edits' > 0
    BY <1>1, <2>2, <2>6 DEF ReleaseInv
  <2> QED BY <1>1, <2>2, <2>5, <2>7, <2>8 DEF ReleaseInv
<1>4. Return(merge) \/ Goto("finalMR", WithTag(merge, TagOf(merge)))
  BY DEF CreateFinalTag, Answered, WithTag
<1> QED BY <1>2, <1>3, <1>4

LEMMA EnsureFinalMRReleases ==
  ConstantsOK /\ Inv /\ ReleaseInv /\ EnsureFinalMR => ReleaseInv'
<1> SUFFICES ASSUME ConstantsOK, Inv, ReleaseInv, EnsureFinalMR PROVE ReleaseInv'
  OBVIOUS
<1>1. UNCHANGED <<spec, edits, stored, want, heads>> /\ pc = "finalMR" /\ merge \in Status
  BY DEF EnsureFinalMR, Inv, TypeOK, gitlab
<1>2. CASE Return(merge)
  BY <1>1, <1>2, HeadsStay, HeadsKept, SameCopies, ReleaseReturns
<1>3. ASSUME NEW r \in NMR, Goto("setAuto", WithFinalMR(merge, r)) PROVE ReleaseInv'
  <2> DEFINE x == WithFinalMR(merge, r)
  <2>1. /\ x.branches = merge.branches /\ x.finalTag = merge.finalTag
        /\ x.recreated = merge.recreated
    BY <1>1 DEF WithFinalMR, Status
  <2> HIDE DEF x
  <2>2. pc' = "setAuto" /\ merge' = x
    BY <1>3 DEF Goto, x
  <2>3. Unedited'
    BY <1>1, <2>1, <2>2 DEF ReleaseInv, Unedited
  <2>4. GivenUp(pc', merge', stored'.finalTag, want', at')
    BY <1>1, <2>1, <2>2 DEF ReleaseInv, GivenUp
  <2>5. stored'.finalTag # 0 /\ merge'.finalTag # stored'.finalTag => edits' > 0
    BY <1>1, <2>1, <2>2 DEF ReleaseInv
  <2> QED BY <1>1, <2>2, <2>3, <2>4, <2>5 DEF ReleaseInv
<1> QED BY <1>2, <1>3, EnsuredFinalMR

LEMMA SetAutoAcceptReleases ==
  ConstantsOK /\ Inv /\ ReleaseInv /\ SetAutoAccept => ReleaseInv'
<1> SUFFICES ASSUME ConstantsOK, Inv, ReleaseInv, SetAutoAccept PROVE ReleaseInv'
  OBVIOUS
<1>1. UNCHANGED <<spec, edits, stored, want, heads>> /\ pc = "setAuto" /\ merge \in Status
  BY DEF SetAutoAccept, Inv, TypeOK, gitlab
<1>2. Return(merge) \/ Return(Merged(merge))
  BY DEF SetAutoAccept
<1> QED BY <1>1, <1>2, HeadsStay, HeadsKept, SameCopies, ReleaseReturns

LEMMA PatchConditionsReleases ==
  ConstantsOK /\ Inv /\ ReleaseInv /\ PatchConditions => ReleaseInv'
<1> SUFFICES ASSUME ConstantsOK, Inv, ReleaseInv, PatchConditions PROVE ReleaseInv'
  OBVIOUS
<1>1. /\ UNCHANGED <<spec, edits, want, heads, merge, at>> /\ pc = "conditions" /\ pc' = "object"
      /\ stored \in Status
  BY DEF PatchConditions, Inv, TypeOK, gitlab
<1>2. Same(stored, stored')
  <2> DEFINE c == [merge.conditions EXCEPT !.ready = Summary(merge)]
  <2>1. stored' = stored \/ stored' = [stored EXCEPT !.conditions = c]
    BY DEF PatchConditions
  <2> HIDE DEF c
  <2>2. Same(stored, stored) /\ Same(stored, [stored EXCEPT !.conditions = c])
    BY <1>1, SameCopies
  <2> QED BY <2>1, <2>2
<1>3. Unedited'
  BY <1>1, <1>2 DEF ReleaseInv, Unedited, Same
<1>4. GivenUp(pc', merge', stored'.finalTag, want', at')
  BY <1>1, <1>2 DEF ReleaseInv, GivenUp, Same
<1>5. stored'.finalTag # 0 /\ merge'.finalTag # stored'.finalTag => edits' > 0
  BY <1>1, <1>2 DEF ReleaseInv, Same
<1> QED BY <1>1, <1>3, <1>4, <1>5 DEF ReleaseInv

\* A reconcile ends, with its copy stored or not.
LEMMA DoneReleases ==
  ASSUME ConstantsOK, Inv, ReleaseInv, Done, UNCHANGED <<spec, edits, heads>>, pc # "idle",
         stored' = stored \/ Same(merge, stored')
  PROVE  ReleaseInv'
<1>1. pc' = "idle" /\ merge'.finalTag = 0 /\ ~merge'.recreated
  BY DEF Done, NewStatus
<1>2. Unedited'
  BY <1>1 DEF ReleaseInv, Unedited, Same
<1> QED BY <1>1, <1>2 DEF ReleaseInv, GivenUp

\* PatchObject stores the release of the copy, or nothing.
LEMMA PatchedObject ==
  ASSUME ConstantsOK, Inv, PatchObject
  PROVE  stored' = stored \/ Same(merge, stored')
<1>1. stored' = stored \/ stored' = Patched(stored, merge)
  BY DEF PatchObject
<1>2. Same(merge, Patched(stored, merge))
  BY SameCopies DEF Inv, TypeOK
<1> QED BY <1>1, <1>2

\* Nobody else touches the release; an edit lifts what depends on there being none.
LEMMA OthersRelease == ConstantsOK /\ Inv /\ ReleaseInv /\ Others => ReleaseInv'
<1> SUFFICES ASSUME ConstantsOK, Inv, ReleaseInv, Others PROVE ReleaseInv'
  OBVIOUS
<1>1. OthersLeave /\ stored \in Status /\ edits \in Nat
  BY OthersFrame DEF Inv, TypeOK, ConstantsOK
<1>2. UNCHANGED <<pc, merge, want, at>> /\ HeadsGoOn /\ edits' \in Nat /\ edits' >= edits
  BY <1>1 DEF OthersLeave, worker, ConstantsOK
<1>3. Same(stored, stored')
  <2>1. stored' = stored \/ \E p \in {"deleting", "gone"} : stored' = [stored EXCEPT !.phase = p]
    BY <1>1 DEF OthersLeave
  <2>2. Same(stored, stored) /\ \A p : Same(stored, [stored EXCEPT !.phase = p])
    BY <1>1, SameCopies
  <2> QED BY <2>1, <2>2
<1>4. edits' = 0 => edits = 0 /\ spec' = spec
  BY <1>1, <1>2 DEF OthersLeave
<1>5. heads'[main].exists /\ (heads[build].exists => heads'[build].exists)
  BY <1>2 DEF ReleaseInv, HeadsGoOn
<1>6. Unedited'
  BY <1>2, <1>3, <1>4, <1>5 DEF ReleaseInv, Unedited, Same
<1>7. GivenUp(pc', merge', stored'.finalTag, want', at')
  BY <1>2, <1>3 DEF ReleaseInv, Same
<1>8. pc' # "idle" /\ stored'.finalTag # 0 /\ merge'.finalTag # stored'.finalTag => edits' > 0
  BY <1>1, <1>2, <1>3 DEF ReleaseInv, Same
<1> QED BY <1>2, <1>5, <1>6, <1>7, <1>8 DEF ReleaseInv

-----------------------------------------------------------------------------
(* The invariant, and what it is for.                                      *)

LEMMA StepReleases == ConstantsOK /\ Inv /\ ReleaseInv /\ Step => ReleaseInv'
<1>1. ConstantsOK /\ Inv /\ ReleaseInv /\ PatchObject => ReleaseInv'
  BY PatchedObject, DoneReleases DEF PatchObject, gitlab
<1> QED BY <1>1, DropResolveBranchReleases, DropResolveMRReleases, DropFinalMRReleases,
           DropBuildReleases, DropBranchMRsReleases, AddBranchesToStatusReleases,
           GetOrCreateBuildBranchReleases, EnsureBranchMRReleases, JudgeReleases,
           RecreateBuildReleases, CreateBuildReleases, GetOrCreateResolveBranchReleases,
           EnsureResolveMRReleases, CompareWithMainReleases, CreateFinalTagReleases,
           EnsureFinalMRReleases, SetAutoAcceptReleases, PatchConditionsReleases
        DEF Step

LEMMA ReleaseInit == ConstantsOK /\ Init => ReleaseInv
BY DEF Init, ReleaseInv, Unedited, GivenUp, NewStatus, HeadAt, Branch, ConstantsOK

LEMMA ReleaseNext == ConstantsOK /\ Inv /\ ReleaseInv /\ [Next]_vars => ReleaseInv'
<1> SUFFICES ASSUME ConstantsOK, Inv, ReleaseInv, [Next]_vars PROVE ReleaseInv'
  OBVIOUS
<1>1. CASE Crash
  BY <1>1, DoneReleases DEF Crash, gitlab
<1>2. CASE UNCHANGED vars
  BY <1>2 DEF vars, gitlab, worker, bounds, ReleaseInv, Unedited, GivenUp, Changed
<1> QED BY <1>1, <1>2, ReconcileReleases, StepReleases, OthersRelease DEF Next, Others

\* Every reachable state satisfies the invariant behind the two properties below:
\* the release of the stored Merge and that of the copy of reconcile.
THEOREM ReleaseInvariance == Spec => [](Inv /\ ReleaseInv)
<1>1. Init => Inv /\ ReleaseInv
  BY ConstantsOK, InvInit, ReleaseInit
<1>2. Inv /\ ReleaseInv /\ [Next]_vars => (Inv /\ ReleaseInv)'
  BY ConstantsOK, InvNext, ReleaseNext
<1> QED BY <1>1, <1>2, PTL DEF Spec

\* Who writes the tag of the object: the second call of the deferred patch.
LEMMA OnlyPatched ==
  ConstantsOK /\ Inv /\ [Next]_vars => Same(stored, stored') \/ PatchObject
<1> SUFFICES ASSUME ConstantsOK, Inv, [Next]_vars, ~PatchObject PROVE Same(stored, stored')
  OBVIOUS
<1>1. stored \in Status /\ Same(stored, stored)
  BY SameCopies DEF Inv, TypeOK
<1>2. CASE PatchConditions
  <2> DEFINE c == [merge.conditions EXCEPT !.ready = Summary(merge)]
  <2>1. stored' = stored \/ stored' = [stored EXCEPT !.conditions = c]
    BY <1>2 DEF PatchConditions
  <2> HIDE DEF c
  <2> QED BY <1>1, <2>1, SameCopies
<1>3. CASE Others
  <2>1. stored' = stored \/ \E p \in {"deleting", "gone"} : stored' = [stored EXCEPT !.phase = p]
    BY <1>3, OthersFrame DEF OthersLeave, Inv
  <2> QED BY <1>1, <2>1, SameCopies
<1>4. CASE Reconcile \/ Crash \/ UNCHANGED vars
  BY <1>1, <1>4 DEF Reconcile, Crash, vars
<1>5. CASE \/ DropResolveBranch \/ DropResolveMR \/ DropFinalMR \/ DropBuild \/ DropBranchMRs
           \/ AddBranchesToStatus \/ GetOrCreateBuildBranch \/ EnsureBranchMR \/ Judge
  BY <1>1, <1>5 DEF DropResolveBranch, DropResolveMR, DropFinalMR, DropBuild, DropBranchMRs,
                    AddBranchesToStatus, GetOrCreateBuildBranch, EnsureBranchMR, Judge
<1>6. CASE \/ RecreateBuild \/ CreateBuild \/ GetOrCreateResolveBranch \/ EnsureResolveMR
           \/ CompareWithMain \/ CreateFinalTag \/ EnsureFinalMR \/ SetAutoAccept
  BY <1>1, <1>6 DEF RecreateBuild, CreateBuild, GetOrCreateResolveBranch, EnsureResolveMR,
                    CompareWithMain, CreateFinalTag, EnsureFinalMR, SetAutoAccept
<1> QED BY <1>2, <1>3, <1>4, <1>5, <1>6 DEF Next, Step, Others

\* The tag of a release stays until its object is edited; then it is given up
\* with its final merge request (merge_controller.go:564-600), and is not
\* replaced in the reconcile that gives it up, whatever fails or crashes.
THEOREM TagsLast == Spec => TagStays
<1>1. ASSUME Inv, ReleaseInv, [Next]_vars,
             stored.finalTag # 0, stored'.finalTag # stored.finalTag
      PROVE  /\ edits > 0
             /\ (stored'.finalTag = 0 /\ stored'.finalMR = 0) \/ stored'.branches = <<>>
  <2>1. PatchObject
    BY <1>1, ConstantsOK, OnlyPatched DEF Same
  <2>2. Same(merge, stored')
    BY <1>1, <2>1, ConstantsOK, PatchedObject
  <2>3. pc = "object" /\ merge.finalTag # stored.finalTag
    BY <1>1, <2>1, <2>2 DEF PatchObject, Same
  <2> QED BY <1>1, <2>2, <2>3 DEF ReleaseInv, GivenUp, Same
<1>2. Inv /\ ReleaseInv /\ [Next]_vars =>
        [stored.finalTag # 0 /\ stored'.finalTag # stored.finalTag =>
           /\ edits > 0
           /\ (stored'.finalTag = 0 /\ stored'.finalMR = 0) \/ stored'.branches = <<>>]_vars
  BY <1>1
<1> QED BY <1>2, ReleaseInvariance, PTL DEF Spec, TagStays

\* Once it is stored that the build branch started over for a resolution, it
\* is never started over again (merge_controller.go:463-480): whatever fails
\* or crashes, what was merged into it stays there.
THEOREM ResolutionsLast == Spec => ResolutionStays
<1>1. ASSUME Inv, ReleaseInv, [Next]_vars, edits = 0, stored.recreated
      PROVE  heads'[build].exists /\ heads[build].on \subseteq heads'[build].on
  <2>1. heads[build].exists /\ (pc # "idle" => merge.recreated /\ merge \in Status)
    BY <1>1 DEF ReleaseInv, Unedited, Inv, TypeOK
  <2>2. HeadsGoOn
    <3>1. CASE Others
      BY <1>1, <3>1, ConstantsOK, OthersFrame DEF OthersLeave, Inv
    <3>2. ~DropBuild
      BY <1>1, <2>1, NothingReleased DEF DropBuild, ReleaseInv
    <3>3. ~RecreateBuild /\ ~CreateBuild
      BY <1>1, <2>1 DEF RecreateBuild, CreateBuild, Inv, StepOK
    <3>4. CASE GetOrCreateBuildBranch \/ GetOrCreateResolveBranch
      BY <1>1, <3>4, ConstantsOK, WorkersHeads, HeadsStay
         DEF GetOrCreateBuildBranch, GetOrCreateResolveBranch, Inv
    <3>5. CASE DropResolveBranch
      <4>1. merge.resolveName \in Lists
        BY <2>1, <3>5 DEF DropResolveBranch, Status
      <4> QED BY <1>1, <3>5, <4>1, ConstantsOK, WorkersHeads, HeadsStay DEF DropResolveBranch, Inv
    <3>6. CASE UNCHANGED heads
      BY <3>6, HeadsStay
    <3>7. CASE \/ DropResolveMR \/ DropFinalMR \/ DropBranchMRs \/ AddBranchesToStatus
               \/ EnsureBranchMR \/ Judge \/ EnsureResolveMR \/ CompareWithMain
               \/ CreateFinalTag \/ EnsureFinalMR \/ SetAutoAccept
               \/ PatchConditions \/ PatchObject
      <4>1. UNCHANGED heads
        BY <3>7 DEF DropResolveMR, DropFinalMR, DropBranchMRs, AddBranchesToStatus,
                    EnsureBranchMR, Judge, EnsureResolveMR, CompareWithMain, CreateFinalTag,
                    EnsureFinalMR, SetAutoAccept, PatchConditions, PatchObject, gitlab
      <4> QED BY <4>1, HeadsStay
    <3>8. Reconcile \/ Crash \/ UNCHANGED vars => UNCHANGED heads
      BY DEF Reconcile, Crash, vars, gitlab
    <3> QED BY <1>1, <3>1, <3>2, <3>3, <3>4, <3>5, <3>6, <3>7, <3>8 DEF Next, Step, Others
  <2> QED BY <2>1, <2>2 DEF HeadsGoOn
<1>2. Inv /\ ReleaseInv /\ [Next]_vars =>
        [edits = 0 /\ stored.recreated =>
           heads[build]'.exists /\ heads[build].on \subseteq heads[build]'.on]_vars
  BY <1>1
<1> QED BY <1>2, ReleaseInvariance, PTL DEF Spec, ResolutionStays

-----------------------------------------------------------------------------
(* What Ready says, in runs without failures and edits of a Merge that     *)
(* asks for any branches.                                                  *)

\* Between two reconciles, or at the end of one.
Rest == {"idle", "conditions", "object"}

\* The steps before the branches are looked up.
Early == {"dropResolveBranch", "dropResolveMR", "dropFinalMR", "branches"}

\* What AllBranchMerged, absent, False or True, says of the copy m at the step p
\* and the branch i, when the branches s are asked for.  As long as it is absent
\* no branch was processed: the first reconcile to look at them does not come to
\* its end.
Honest(p, m, i, s) ==
  /\ m.branches = <<>> \/ Names(m.branches) = Listed(s)
  /\ m.conditions.branchMerged = "True" => m.finalTag # 0 /\ m.finalMR # 0
  /\ p \in Rest => \/ m.conditions = NoConditions /\ m.branches = <<>>
                   \/ m.conditions.branchMerged = "False"
                   \/ m.conditions.branchMerged = "True" /\ AllProcessed(m)
  /\ p \in Late => m.conditions.branchMerged # "absent" /\ AllProcessed(m)
  /\ p \notin Rest /\ m.conditions.branchMerged = "absent" =>
       \A k \in DOMAIN m.branches :
         ~m.branches[k].processed /\ (m.branches[k].nmr # 0 => p = "nmrs" /\ k < i)
  /\ p \in {"build", "nmrs"} => \A k \in DOMAIN m.branches : m.branches[k].valid

\* Only users remove the branches of a release.
NamesThere == \A b \in Name : heads[b].exists

\* The conditions are those of the copy, and the stored Ready is theirs.
Candid ==
  /\ stored.phase = "live" /\ NamesThere
  /\ pc \notin {"dropBuild", "dropMRs"}
  /\ IF pc = "idle" THEN Honest("idle", stored, at, spec.branches)
     ELSE Honest(pc, merge, at, spec.branches)
  /\ pc = "object" => stored.conditions = [merge.conditions EXCEPT !.ready = Summary(merge)]
  /\ pc = "idle" /\ stored.conditions.ready = "True" => stored.conditions.branchMerged = "True"

\* The invariant of such runs.
ReadyInv == faults = 0 /\ edits = 0 /\ spec.branches # <<>> => Candid

\* What their steps start from.
Undisturbed ==
  /\ ConstantsOK /\ Inv /\ ReleaseInv /\ Candid
  /\ faults = 0 /\ edits = 0 /\ spec.branches # <<>> /\ faults' = 0

\* Whatever is done to other branches, those of the release stay.
LEMMA NamesStay ==
  ASSUME ConstantsOK, TypeOK, NamesThere
  PROVE  /\ UNCHANGED heads => NamesThere'
         /\ \A b \in {build, main} \cup Lists : /\ GetOrCreateBranch(b) => NamesThere'
                                                /\ RemoveBranch(b) => NamesThere'
         /\ \A b \in {build, main} \cup Lists : \A c :
              heads' = [heads EXCEPT ![b] = c] => NamesThere'
<1>1. heads \in [Branch -> Commit] /\ Name \subseteq Branch
  BY DEF TypeOK, Branch
<1>2. UNCHANGED heads => NamesThere'
  BY DEF NamesThere
<1>3. ASSUME NEW b \in {build, main} \cup Lists, NEW c, heads' = [heads EXCEPT ![b] = c]
      PROVE  NamesThere'
  <2>1. b \notin Name
    BY DEF ConstantsOK
  <2> QED BY <1>1, <1>3, <2>1 DEF NamesThere
<1>4. ASSUME NEW b \in {build, main} \cup Lists, GetOrCreateBranch(b) PROVE NamesThere'
  BY <1>2, <1>3, <1>4 DEF GetOrCreateBranch
<1>5. ASSUME NEW b \in {build, main} \cup Lists, RemoveBranch(b) PROVE NamesThere'
  BY <1>3, <1>5 DEF RemoveBranch
<1> QED BY <1>2, <1>3, <1>4, <1>5

\* Two copies with the same branches, release and AllBranchMerged.
Wording(m, x) ==
  /\ x.branches = m.branches
  /\ x.conditions.branchMerged = m.conditions.branchMerged
  /\ x.conditions.branchMerged = "True" => x.finalTag = m.finalTag /\ x.finalMR = m.finalMR

\* What the code changes of a copy beside them.
LEMMA WordingCopies ==
  ASSUME ConstantsOK, NEW m \in Status
  PROVE  /\ Wording(m, m) /\ Wording(m, NoConflictState(m))
         /\ \A f : Wording(m, [m EXCEPT !.finalizer = f])
         /\ \A c : /\ Wording(m, [m EXCEPT !.conditions.repositories = c])
                   /\ Wording(m, [m EXCEPT !.conditions.branchesExist = c])
                   /\ Wording(m, [m EXCEPT !.conditions.resolved = c])
         /\ \A r : Wording(m, WithResolveMR(m, r)) /\ Wording(m, [m EXCEPT !.recreated = r])
<1>1. m.conditions \in Conditions
  BY DEF Status
<1> QED BY <1>1 DEF Wording, Status, Conditions, NoConflictState, WithResolveMR

\* The worker goes on, in a reconcile that does not fail.
LEMMA CandidGoesOn ==
  ASSUME Undisturbed, UNCHANGED <<spec, stored>>, NamesThere',
         NEW p, NEW x, Goto(p, x), p \notin {"idle", "dropBuild", "dropMRs", "object"},
         Honest(p, x, at', spec.branches)
  PROVE  Candid'
<1>1. pc' = p /\ merge' = x
  BY DEF Goto
<1> QED BY <1>1 DEF Candid, Undisturbed

\* It goes on before the branches are looked up,
LEMMA EarlyGoesOn ==
  ASSUME Undisturbed, UNCHANGED <<spec, stored>>, NamesThere', pc \in Early,
         NEW p \in Early, NEW x, Goto(p, x), Wording(merge, x)
  PROVE  Candid'
<1>1. Honest(pc, merge, at, spec.branches)
  BY DEF Undisturbed, Candid, Early
<1>2. Honest(p, x, at', spec.branches)
  BY <1>1 DEF Honest, Wording, Early, Rest, Late
<1> QED BY <1>2, CandidGoesOn DEF Early

\* or after they were processed.
LEMMA LateGoesOnCandid ==
  ASSUME Undisturbed, UNCHANGED <<spec, stored>>, NamesThere', pc \in Late,
         NEW p \in Late \cup {"conditions"}, NEW x, Goto(p, x), Wording(merge, x)
  PROVE  Candid'
<1>1. Honest(pc, merge, at, spec.branches)
  BY DEF Undisturbed, Candid, Late
<1>2. merge.conditions.branchMerged \in Condition
  BY DEF Undisturbed, Inv, TypeOK, Status, Conditions
<1>3. Honest(p, x, at', spec.branches)
  <2>1. /\ x.conditions.branchMerged \in {"False", "True"} /\ x.branches = merge.branches
        /\ x.conditions.branchMerged = "True" => x.finalTag # 0 /\ x.finalMR # 0
        /\ x.branches = <<>> \/ Names(x.branches) = Listed(spec.branches)
        /\ AllProcessed(x)
    BY <1>1, <1>2 DEF Honest, Wording, Condition, AllProcessed
  <2> QED BY <2>1 DEF Honest, Late
<1> QED BY <1>3, CandidGoesOn DEF Late

\* What a call that does not fail leaves as it is.
LEMMA Unmoved ==
  ASSUME Undisturbed
  PROVE  /\ ConstantsOK /\ Inv /\ TypeOK /\ NamesThere /\ ~Fault
         /\ merge \in Status /\ stored \in Status
         /\ UNCHANGED heads => NamesThere'
         /\ pc # "idle" => want = spec /\ Honest(pc, merge, at, spec.branches)
         /\ pc # "idle" /\ Changed(merge, want) => merge.finalTag = 0
<1>1. ConstantsOK /\ Inv /\ TypeOK /\ NamesThere /\ merge \in Status /\ stored \in Status
  BY DEF Undisturbed, Candid, Inv, TypeOK
<1>2. ~Fault
  BY <1>1 DEF Fault, Undisturbed
<1>3. UNCHANGED heads => NamesThere'
  BY <1>1, NamesStay
<1>4. pc # "idle" => want = spec /\ Honest(pc, merge, at, spec.branches)
  BY DEF Undisturbed, Candid, ReleaseInv, Unedited
<1>5. pc # "idle" /\ Changed(merge, want) => merge.finalTag = 0
  BY NothingReleased DEF Undisturbed
<1> QED BY <1>1, <1>2, <1>3, <1>4, <1>5

\* The first reconcile only adds the finalizer.  The next ones start with what the last
\* one stored.
LEMMA ReconcileCandid == Undisturbed /\ Reconcile => Candid'
<1> SUFFICES ASSUME Undisturbed, Reconcile PROVE Candid'
  OBVIOUS
<1>1. UNCHANGED <<spec, stored, heads>> /\ pc = "idle" /\ stored \in Status /\ ~Fault /\ NamesThere'
  BY Unmoved DEF Reconcile, gitlab
<1>2. Honest("idle", stored, at, spec.branches) /\ stored.phase = "live"
  BY <1>1 DEF Undisturbed, Candid
<1>3. CASE Return([stored EXCEPT !.finalizer = TRUE])
  <2> DEFINE x == [stored EXCEPT !.finalizer = TRUE]
  <2>1. /\ x.branches = stored.branches /\ x.conditions = stored.conditions
        /\ x.finalTag = stored.finalTag /\ x.finalMR = stored.finalMR
    BY <1>1 DEF Status
  <2> HIDE DEF x
  <2>2. Honest("conditions", x, at', spec.branches)
    BY <1>2, <2>1 DEF Honest, Rest, Late, AllProcessed
  <2>3. Goto("conditions", x)
    BY <1>3 DEF Return, x
  <2> QED BY <1>1, <2>2, <2>3, CandidGoesOn
<1>4. ASSUME NEW p \in {"dropResolveBranch", "branches"},
             Goto(p, [stored EXCEPT !.conditions.repositories = "True"])
      PROVE  Candid'
  <2> DEFINE x == [stored EXCEPT !.conditions.repositories = "True"]
  <2>1. Wording(stored, x)
    BY <1>1, WordingCopies DEF Undisturbed
  <2> HIDE DEF x
  <2>2. stored.conditions.branchMerged = "absent" => stored.branches = <<>>
    BY <1>2 DEF Honest, Rest
  <2>3. Honest(p, x, at', spec.branches)
    BY <1>2, <2>1, <2>2 DEF Honest, Wording, Rest, Late
  <2>4. Goto(p, x)
    BY <1>4 DEF x
  <2> QED BY <1>1, <2>3, <2>4, CandidGoesOn
<1>5. \/ Return([stored EXCEPT !.finalizer = TRUE])
      \/ Goto("dropResolveBranch", [stored EXCEPT !.conditions.repositories = "True"])
      \/ Goto("branches", [stored EXCEPT !.conditions.repositories = "True"])
  BY <1>1, <1>2 DEF Reconcile
<1> QED BY <1>3, <1>4, <1>5

LEMMA DropResolveBranchCandid == Undisturbed /\ DropResolveBranch => Candid'
<1> SUFFICES ASSUME Undisturbed, DropResolveBranch PROVE Candid'
  OBVIOUS
<1>1. UNCHANGED <<spec, stored>> /\ pc = "dropResolveBranch" /\ merge \in Status /\ ~Fault
  BY Unmoved DEF DropResolveBranch
<1>2. merge.resolveName \in {build, main} \cup Lists
  BY <1>1 DEF Status
<1>3. UNCHANGED heads \/ RemoveBranch(merge.resolveName)
  BY <1>1 DEF DropResolveBranch
<1>4. NamesThere'
  BY <1>2, <1>3, Unmoved, NamesStay
<1>5. Goto("dropResolveMR", merge)
  BY <1>1 DEF DropResolveBranch, Answered
<1>6. Wording(merge, merge)
  BY DEF Wording
<1> QED BY <1>1, <1>4, <1>5, <1>6, EarlyGoesOn DEF Early

LEMMA DropResolveMRCandid == Undisturbed /\ DropResolveMR => Candid'
<1> SUFFICES ASSUME Undisturbed, DropResolveMR PROVE Candid'
  OBVIOUS
<1>1. /\ UNCHANGED <<spec, stored, heads>> /\ pc = "dropResolveMR" /\ merge \in Status /\ ~Fault
      /\ NamesThere'
  BY Unmoved DEF DropResolveMR, gitlab
<1> DEFINE x == NoConflictState(merge)
<1>2. Goto("dropFinalMR", x)
  BY <1>1 DEF DropResolveMR, Answered
<1>3. Wording(merge, x)
  BY <1>1, WordingCopies DEF Undisturbed
<1> HIDE DEF x
<1> QED BY <1>1, <1>2, <1>3, EarlyGoesOn DEF Early

\* As long as users edit nothing, no branch is taken out of the release.
LEMMA DropFinalMRCandid == Undisturbed /\ DropFinalMR => Candid'
<1> SUFFICES ASSUME Undisturbed, DropFinalMR PROVE Candid'
  OBVIOUS
<1>1. /\ UNCHANGED <<spec, stored, heads>> /\ pc = "dropFinalMR" /\ merge \in Status /\ ~Fault
      /\ NamesThere' /\ want = spec /\ Honest(pc, merge, at, spec.branches)
  BY Unmoved DEF DropFinalMR, gitlab
<1>2. ~Shrunk(merge, want)
  BY <1>1 DEF Honest, Shrunk, Names
<1>3. merge.finalTag = 0
  BY <1>1, Unmoved DEF Undisturbed, Inv, StepOK
<1> DEFINE x == ReleaseForgotten(merge)
<1>4. Goto("branches", merge) \/ Goto("branches", x)
  BY <1>1, <1>2 DEF DropFinalMR, Answered
<1>5. Wording(merge, merge)
  BY DEF Wording
<1>6. Wording(merge, x)
  <2>1. x.branches = merge.branches /\ x.conditions = merge.conditions
    BY <1>1 DEF ReleaseForgotten, Status
  <2>2. merge.conditions.branchMerged # "True"
    BY <1>1, <1>3 DEF Honest
  <2> HIDE DEF x
  <2> QED BY <2>1, <2>2 DEF Wording
<1> HIDE DEF x
<1> QED BY <1>1, <1>4, <1>5, <1>6, EarlyGoesOn DEF Early

\* The branches are all there, and the new ones have no object yet.
LEMMA AddBranchesToStatusCandid == Undisturbed /\ AddBranchesToStatus => Candid'
<1> SUFFICES ASSUME Undisturbed, AddBranchesToStatus PROVE Candid'
  OBVIOUS
<1>1. /\ UNCHANGED <<spec, stored, heads>> /\ pc = "branches" /\ merge \in Status /\ ~Fault
      /\ NamesThere' /\ want = spec /\ Honest(pc, merge, at, spec.branches)
      /\ ConstantsOK /\ Inv /\ TypeOK /\ NamesThere
  BY Unmoved DEF AddBranchesToStatus, gitlab
<1>2. /\ Distinct(merge.branches) /\ want \in SpecType /\ merge.branches \in BranchList
      /\ heads \in [Branch -> Commit]
  BY <1>1 DEF Inv, TypeOK, Sound, SpecType, Status, BranchList
<1> DEFINE old == merge.branches
           bs == Extended(merge, want)
           vs == Validated(bs, 0)
           x == [merge EXCEPT !.branches = vs]
<1>3. Names(vs) = Listed(spec.branches)
  BY <1>1, AddedBranches
<1>4. /\ bs \in BranchList /\ DOMAIN old \subseteq DOMAIN bs /\ \A k \in DOMAIN old : bs[k] = old[k]
      /\ \A k \in DOMAIN bs \ DOMAIN old : bs[k] = NewBranch(bs[k].name)
  BY <1>1, <1>2, ExtendedKeeps
<1>5. Goto("build", x)
  BY <1>1 DEF AddBranchesToStatus
<1>6. /\ x.branches = vs /\ x.conditions = merge.conditions /\ x.finalTag = merge.finalTag
      /\ x.finalMR = merge.finalMR
  BY <1>1 DEF Status
<1>7. \A k \in DOMAIN bs \ DOMAIN old : bs[k].nmr = 0 /\ ~bs[k].processed
  <2>1. \A n : NewBranch(n).nmr = 0 /\ ~NewBranch(n).processed
    BY DEF NewBranch
  <2> HIDE DEF bs
  <2> QED BY <1>4, <2>1
<1> HIDE DEF bs
<1>8. /\ DOMAIN vs = DOMAIN bs
      /\ \A k \in DOMAIN bs : vs[k].nmr = bs[k].nmr /\ vs[k].processed = bs[k].processed
  BY <1>1, <1>2, <1>4, ValidatedKeeps
<1>9. \A k \in DOMAIN vs : vs[k].valid
  <2>1. DOMAIN bs = 1 .. Len(bs) /\ \A k \in DOMAIN bs : bs[k] \in BranchStatus
    BY <1>1, <1>4, BranchListIsSeq
  <2>2. ASSUME NEW k \in DOMAIN bs PROVE vs[k].valid
    <3>1. k # 0 /\ bs[k] \in BranchStatus
      BY <2>1
    <3>2. bs[k].name \in Name
      BY <3>1 DEF BranchStatus
    <3>3. heads[bs[k].name].exists
      BY <1>1, <3>2 DEF NamesThere
    <3>4. vs[k] = [bs[k] EXCEPT !.valid = heads[bs[k].name].exists /\ k # 0]
      BY DEF Validated
    <3> QED BY <3>1, <3>3, <3>4 DEF BranchStatus
  <2> QED BY <1>8, <2>2
<1> HIDE DEF vs
<1>10. merge.conditions.branchMerged = "absent" =>
         \A k \in DOMAIN vs : ~vs[k].processed /\ vs[k].nmr = 0
  <2>1. merge.conditions.branchMerged = "absent" =>
          \A k \in DOMAIN old : ~old[k].processed /\ old[k].nmr = 0
    BY <1>1 DEF Honest, Rest
  <2> QED BY <1>4, <1>7, <1>8, <2>1
<1> HIDE DEF x
<1>11. Honest("build", x, at', spec.branches)
  BY <1>1, <1>3, <1>6, <1>9, <1>10 DEF Honest, Rest, Late
<1> QED BY <1>1, <1>5, <1>11, CandidGoesOn

LEMMA GetOrCreateBuildBranchCandid == Undisturbed /\ GetOrCreateBuildBranch => Candid'
<1> SUFFICES ASSUME Undisturbed, GetOrCreateBuildBranch PROVE Candid'
  OBVIOUS
<1>1. /\ UNCHANGED <<spec, stored, at>> /\ pc = "build" /\ ~Fault /\ Honest(pc, merge, at, spec.branches)
  BY Unmoved DEF GetOrCreateBuildBranch
<1>2. NamesThere'
  <2>1. GetOrCreateBranch(build)
    BY <1>1 DEF GetOrCreateBuildBranch
  <2> QED BY <2>1, Unmoved, NamesStay
<1>3. Goto("nmrs", merge)
  BY <1>1 DEF GetOrCreateBuildBranch, Answered
<1>4. Honest("nmrs", merge, at', spec.branches)
  BY <1>1 DEF Honest, Rest, Late
<1> QED BY <1>1, <1>2, <1>3, <1>4, CandidGoesOn

\* An object that was just created was not processed.
LEMMA EnsureBranchMRCandid == Undisturbed /\ EnsureBranchMR => Candid'
<1> SUFFICES ASSUME Undisturbed, EnsureBranchMR PROVE Candid'
  OBVIOUS
<1>1. /\ UNCHANGED <<spec, stored, heads>> /\ pc = "nmrs" /\ merge \in Status /\ at' = at + 1
      /\ merge.branches \in BranchList /\ ~Fault /\ NamesThere' /\ ConstantsOK /\ Inv
      /\ Honest(pc, merge, at, spec.branches)
  BY Unmoved DEF EnsureBranchMR, gitlab, Status, BranchList
<1>2. at \in DOMAIN merge.branches /\ at \in Nat /\ DOMAIN merge.branches = 1 .. Len(merge.branches)
  BY <1>1, AtEntry, EnsuredBranchMR
<1>3. PICK r \in NMR :
        /\ Goto("nmrs", [merge EXCEPT !.branches = Noted(merge.branches, at, r)])
        /\ Obtains(merge.branches[at].nmr, merge.branches[at].name, build, TRUE, r)
  BY <1>1, EnsuredBranchMR DEF Loses, Fault
<1> DEFINE bs == Noted(merge.branches, at, r)
           x == [merge EXCEPT !.branches = bs]
<1>4. nmr' \in [NMR -> Object]
  BY <1>1, InvNext DEF Next, Step, Inv, TypeOK
<1>5. /\ DOMAIN bs = DOMAIN merge.branches /\ Names(bs) = Names(merge.branches)
      /\ \A l \in DOMAIN bs : l # at => bs[l] = merge.branches[l]
      /\ bs[at].valid = merge.branches[at].valid /\ bs[at].processed = nmr'[r].processed
  BY <1>1, <1>2, <1>4, EntryNoted
<1>6. Goto("nmrs", x)
  BY <1>3
<1> HIDE DEF bs
<1>7. /\ x.branches = bs /\ x.conditions = merge.conditions /\ x.finalTag = merge.finalTag
      /\ x.finalMR = merge.finalMR
  BY <1>1 DEF Status
<1> HIDE DEF x
<1>8. \A k \in DOMAIN bs : bs[k].valid
  <2>1. \A k \in DOMAIN merge.branches : merge.branches[k].valid
    BY <1>1 DEF Honest
  <2> QED BY <1>2, <1>5, <2>1
<1>9. merge.conditions.branchMerged = "absent" =>
        \A k \in DOMAIN bs : ~bs[k].processed /\ (bs[k].nmr # 0 => k < at')
  <2>1. CASE merge.conditions.branchMerged = "absent"
    <3>1. \A k \in DOMAIN merge.branches :
            ~merge.branches[k].processed /\ (merge.branches[k].nmr # 0 => k < at)
      BY <1>1, <2>1 DEF Honest, Rest
    <3>2. merge.branches[at].nmr = 0
      BY <1>2, <3>1
    <3>3. ~bs[at].processed
      BY <1>3, <1>5, <3>2 DEF Obtains, Found
    <3>4. ASSUME NEW k \in DOMAIN bs PROVE ~bs[k].processed /\ (bs[k].nmr # 0 => k < at')
      <4>1. k \in Nat
        BY <1>2, <1>5
      <4>2. CASE k = at
        BY <1>1, <1>2, <3>3, <4>2
      <4>3. CASE k # at
        BY <1>1, <1>2, <1>5, <3>1, <4>1, <4>3
      <4> QED BY <4>2, <4>3
    <3> QED BY <3>4
  <2> QED BY <2>1
<1>10. Honest("nmrs", x, at', spec.branches)
  <2>1. x.branches = <<>> \/ Names(x.branches) = Listed(spec.branches)
    BY <1>1, <1>2, <1>5, <1>7 DEF Honest
  <2>2. x.conditions.branchMerged = "True" => x.finalTag # 0 /\ x.finalMR # 0
    BY <1>1, <1>7 DEF Honest
  <2> QED BY <1>7, <1>8, <1>9, <2>1, <2>2 DEF Honest, Rest, Late
<1> QED BY <1>1, <1>6, <1>10, CandidGoesOn

\* The first reconcile that judges finds branches that are not processed yet,
\* because there are branches at all.
LEMMA JudgeCandid == Undisturbed /\ Judge => Candid'
<1> SUFFICES ASSUME Undisturbed, Judge PROVE Candid'
  OBVIOUS
<1>1. /\ UNCHANGED <<spec, stored, heads>> /\ pc = "nmrs" /\ merge \in Status
      /\ NamesThere' /\ want = spec /\ Honest(pc, merge, at, spec.branches)
      /\ spec.branches # <<>> /\ spec \in SpecType
  BY Unmoved DEF Judge, gitlab, bounds, Undisturbed, TypeOK, SpecType
<1> DEFINE exist == [merge EXCEPT !.conditions.branchesExist = "True"]
           await == [exist EXCEPT !.conditions.branchMerged = "False"]
<1>2. /\ exist.branches = merge.branches
      /\ exist.conditions.branchMerged = merge.conditions.branchMerged
      /\ exist.finalTag = merge.finalTag /\ exist.finalMR = merge.finalMR
      /\ await.branches = merge.branches /\ await.conditions.branchMerged = "False"
  BY <1>1 DEF Status, Conditions
<1>3. \/ Return(await)
      \/ /\ AllProcessed(merge)
         /\ Goto("recreate", exist) \/ Goto("resolveBranch", exist) \/ Goto("compare", exist)
  <2>1. \A k \in DOMAIN merge.branches : merge.branches[k].valid
    BY <1>1 DEF Honest
  <2> QED BY <2>1 DEF Judge
<1> HIDE DEF exist, await
<1>4. CASE Return(await)
  <2>1. Honest("conditions", await, at', spec.branches)
    BY <1>1, <1>2 DEF Honest, Rest, Late
  <2> QED BY <1>1, <1>4, <2>1, CandidGoesOn DEF Return
<1>5. ASSUME AllProcessed(merge), NEW p \in Late, Goto(p, exist) PROVE Candid'
  <2>1. Names(merge.branches) = Listed(spec.branches)
    BY <1>1 DEF Undisturbed, Inv, StepOK, Changed
  <2>2. PICK b : b \in Listed(spec.branches)
    <3>1. PICK k \in DOMAIN spec.branches : TRUE
      BY <1>1 DEF SpecType, Lists
    <3> QED BY <3>1 DEF Listed
  <2>3. PICK k \in DOMAIN merge.branches : TRUE
    BY <2>1, <2>2 DEF Names
  <2>4. merge.conditions.branchMerged # "absent"
    BY <1>1, <1>5, <2>3 DEF Honest, Rest, AllProcessed
  <2>5. Honest(p, exist, at', spec.branches)
    BY <1>1, <1>2, <1>5, <2>4 DEF Honest, Rest, Late, AllProcessed
  <2> QED BY <1>1, <1>5, <2>5, CandidGoesOn DEF Late
<1> QED BY <1>3, <1>4, <1>5 DEF Late

LEMMA RecreateBuildCandid == Undisturbed /\ RecreateBuild => Candid'
<1> SUFFICES ASSUME Undisturbed, RecreateBuild PROVE Candid'
  OBVIOUS
<1>1. UNCHANGED <<spec, stored>> /\ pc = "recreate" /\ ~Fault
  BY Unmoved DEF RecreateBuild
<1>2. NamesThere'
  <2>1. RemoveBranch(build)
    BY <1>1 DEF RecreateBuild
  <2> QED BY <2>1, Unmoved, NamesStay
<1>3. Goto("createBuild", merge)
  BY <1>1 DEF RecreateBuild, Answered
<1>4. Wording(merge, merge)
  BY DEF Wording
<1> QED BY <1>1, <1>2, <1>3, <1>4, LateGoesOnCandid DEF Late

LEMMA CreateBuildCandid == Undisturbed /\ CreateBuild => Candid'
<1> SUFFICES ASSUME Undisturbed, CreateBuild PROVE Candid'
  OBVIOUS
<1>1. UNCHANGED <<spec, stored>> /\ pc = "createBuild" /\ ~Fault /\ merge \in Status
  BY Unmoved DEF CreateBuild
<1>2. NamesThere'
  <2>1. heads' = [heads EXCEPT ![build] = heads[main]]
    BY <1>1 DEF CreateBuild
  <2> QED BY <2>1, Unmoved, NamesStay
<1> DEFINE x == [merge EXCEPT !.recreated = TRUE]
<1>3. Goto("resolveBranch", x)
  BY <1>1 DEF CreateBuild, Answered
<1>4. Wording(merge, x)
  BY <1>1, WordingCopies DEF Undisturbed
<1> HIDE DEF x
<1> QED BY <1>1, <1>2, <1>3, <1>4, LateGoesOnCandid DEF Late

LEMMA GetOrCreateResolveBranchCandid == Undisturbed /\ GetOrCreateResolveBranch => Candid'
<1> SUFFICES ASSUME Undisturbed, GetOrCreateResolveBranch PROVE Candid'
  OBVIOUS
<1>1. /\ UNCHANGED <<spec, stored>> /\ pc = "resolveBranch" /\ ~Fault /\ merge \in Status
      /\ ConstantsOK /\ Inv
  BY Unmoved DEF GetOrCreateResolveBranch
<1>2. NamesThere'
  <2>1. ResolveName(merge) \in Lists
    BY <1>1, ResolveNameIsList DEF Inv, Sound, Status, BranchList
  <2>2. GetOrCreateBranch(ResolveName(merge))
    BY <1>1 DEF GetOrCreateResolveBranch
  <2> QED BY <2>1, <2>2, Unmoved, NamesStay
<1>3. Goto("resolveMR", merge)
  BY <1>1 DEF GetOrCreateResolveBranch, Answered
<1>4. Wording(merge, merge)
  BY DEF Wording
<1> QED BY <1>1, <1>2, <1>3, <1>4, LateGoesOnCandid DEF Late

LEMMA EnsureResolveMRCandid == Undisturbed /\ EnsureResolveMR => Candid'
<1> SUFFICES ASSUME Undisturbed, EnsureResolveMR PROVE Candid'
  OBVIOUS
<1>1. /\ UNCHANGED <<spec, stored, heads>> /\ pc = "resolveMR" /\ ~Fault /\ merge \in Status
      /\ NamesThere' /\ ConstantsOK /\ Inv
  BY Unmoved DEF EnsureResolveMR, gitlab
<1>2. PICK r \in NMR :
        \/ Return([WithResolveMR(merge, r) EXCEPT !.conditions.resolved = "False"])
        \/ Goto("compare", [WithResolveMR(merge, r) EXCEPT !.conditions.resolved = "True"])
  BY <1>1, EnsuredResolveMR DEF Loses, Fault
<1>3. ASSUME NEW p \in {"conditions", "compare"}, NEW c,
             Goto(p, [WithResolveMR(merge, r) EXCEPT !.conditions.resolved = c])
      PROVE  Candid'
  <2> DEFINE x == [WithResolveMR(merge, r) EXCEPT !.conditions.resolved = c]
  <2>1. /\ x.branches = merge.branches /\ x.finalTag = merge.finalTag /\ x.finalMR = merge.finalMR
        /\ x.conditions.branchMerged = merge.conditions.branchMerged
    BY <1>1 DEF Status, Conditions, WithResolveMR
  <2>2. Goto(p, x)
    BY <1>3
  <2> HIDE DEF x
  <2>3. Wording(merge, x)
    BY <2>1 DEF Wording
  <2> QED BY <1>1, <2>2, <2>3, LateGoesOnCandid DEF Late
<1> QED BY <1>2, <1>3 DEF Return

LEMMA CompareWithMainCandid == Undisturbed /\ CompareWithMain => Candid'
<1> SUFFICES ASSUME Undisturbed, CompareWithMain PROVE Candid'
  OBVIOUS
<1>1. UNCHANGED <<spec, stored, heads>> /\ pc = "compare" /\ NamesThere'
  BY Unmoved DEF CompareWithMain, gitlab
<1>2. Goto("tag", merge) \/ Goto("conditions", merge)
  BY DEF CompareWithMain, Return
<1>3. Wording(merge, merge)
  BY DEF Wording
<1> QED BY <1>1, <1>2, <1>3, LateGoesOnCandid DEF Late

\* A release that was reported keeps its tag,
LEMMA CreateFinalTagCandid == Undisturbed /\ CreateFinalTag => Candid'
<1> SUFFICES ASSUME Undisturbed, CreateFinalTag PROVE Candid'
  OBVIOUS
<1>1. /\ UNCHANGED <<spec, stored, heads>> /\ pc = "tag" /\ ~Fault /\ merge \in Status
      /\ NamesThere' /\ Honest(pc, merge, at, spec.branches)
  BY Unmoved DEF CreateFinalTag
<1> DEFINE x == WithTag(merge, TagOf(merge))
<1>2. Goto("finalMR", x)
  BY <1>1 DEF CreateFinalTag, Answered, WithTag
<1>3. /\ x.branches = merge.branches /\ x.conditions = merge.conditions
      /\ x.finalMR = merge.finalMR /\ x.finalTag = TagOf(merge)
  BY <1>1 DEF WithTag, Status
<1> HIDE DEF x
<1>4. Wording(merge, x)
  BY <1>1, <1>3 DEF Wording, Honest, TagOf
<1> QED BY <1>1, <1>2, <1>4, LateGoesOnCandid DEF Late

\* and has a final merge request, if it is another one.
LEMMA EnsureFinalMRCandid == Undisturbed /\ EnsureFinalMR => Candid'
<1> SUFFICES ASSUME Undisturbed, EnsureFinalMR PROVE Candid'
  OBVIOUS
<1>1. /\ UNCHANGED <<spec, stored, heads>> /\ pc = "finalMR" /\ ~Fault /\ merge \in Status
      /\ NamesThere' /\ Honest(pc, merge, at, spec.branches) /\ ConstantsOK /\ Inv
  BY Unmoved DEF EnsureFinalMR, gitlab
<1>2. PICK r \in NMR : Goto("setAuto", WithFinalMR(merge, r))
  BY <1>1, EnsuredFinalMR DEF Loses, Fault
<1> DEFINE x == WithFinalMR(merge, r)
<1>3. /\ x.branches = merge.branches /\ x.conditions = merge.conditions
      /\ x.finalTag = merge.finalTag /\ x.finalMR # 0
  <2>1. r # 0
    BY DEF NMR
  <2> QED BY <1>1, <2>1 DEF WithFinalMR, Status
<1>4. Goto("setAuto", x)
  BY <1>2
<1> HIDE DEF x
<1>5. Honest("setAuto", x, at', spec.branches)
  BY <1>1, <1>3 DEF Honest, Rest, Late, AllProcessed
<1> QED BY <1>1, <1>4, <1>5, CandidGoesOn

\* AllBranchMerged becomes True last.
LEMMA SetAutoAcceptCandid == Undisturbed /\ SetAutoAccept => Candid'
<1> SUFFICES ASSUME Undisturbed, SetAutoAccept PROVE Candid'
  OBVIOUS
<1>1. /\ UNCHANGED <<spec, stored, heads>> /\ pc = "setAuto" /\ ~Fault /\ merge \in Status
      /\ NamesThere' /\ Honest(pc, merge, at, spec.branches)
  BY Unmoved DEF SetAutoAccept, gitlab
<1>2. merge.finalMR # 0 /\ merge.finalTag # 0
  BY <1>1 DEF Undisturbed, Inv, StepOK, Sound
<1> DEFINE x == Merged(merge)
<1>3. Goto("conditions", x)
  BY <1>1 DEF SetAutoAccept, Return
<1>4. /\ x.branches = merge.branches /\ x.conditions.branchMerged = "True"
      /\ x.finalTag = merge.finalTag /\ x.finalMR = merge.finalMR
  BY <1>1 DEF Merged, Status, Conditions
<1> HIDE DEF x
<1>5. Honest("conditions", x, at', spec.branches)
  BY <1>1, <1>2, <1>4 DEF Honest, Rest, Late, AllProcessed
<1> QED BY <1>1, <1>3, <1>5, CandidGoesOn

LEMMA PatchConditionsCandid == Undisturbed /\ PatchConditions => Candid'
<1> SUFFICES ASSUME Undisturbed, PatchConditions PROVE Candid'
  OBVIOUS
<1>1. /\ UNCHANGED <<spec, heads, merge>> /\ pc = "conditions" /\ pc' = "object" /\ ~Fault
      /\ NamesThere' /\ Honest(pc, merge, at, spec.branches) /\ stored \in Status
  BY Unmoved DEF PatchConditions, gitlab
<1>2. stored.phase = "live"
  BY DEF Undisturbed, Candid
<1> DEFINE c == [merge.conditions EXCEPT !.ready = Summary(merge)]
<1>3. stored' = [stored EXCEPT !.conditions = c]
  BY <1>1, <1>2 DEF PatchConditions, Stored
<1> HIDE DEF c
<1>4. stored'.phase = "live" /\ stored'.conditions = c
  BY <1>1, <1>2, <1>3 DEF Status
<1>5. Summary(merge)' = Summary(merge)
  BY <1>1 DEF Summary, HasConflict
<1>6. stored'.conditions = [merge'.conditions EXCEPT !.ready = Summary(merge)']
  BY <1>1, <1>4, <1>5 DEF c
<1>7. Honest(pc', merge', at', spec'.branches)
  BY <1>1 DEF Honest, Rest, Late
<1> QED BY <1>1, <1>4, <1>6, <1>7 DEF Candid

\* When AllBranchMerged is False, so is Ready; when no condition is there yet, Ready is
\* not there either.
LEMMA SummaryIsHonest ==
  ASSUME NEW m, \/ m.conditions = NoConditions /\ m.branches = <<>>
                \/ m.conditions.branchMerged = "False"
                \/ m.conditions.branchMerged = "True"
  PROVE  /\ m.conditions = NoConditions => Summary(m) = "absent"
         /\ Summary(m) = "True" => m.conditions.branchMerged = "True"
<1>1. CASE m.conditions = NoConditions /\ m.branches = <<>>
  <2>1. ~HasConflict(m)
    BY <1>1 DEF HasConflict
  <2>2. /\ m.conditions.repositories = "absent" /\ m.conditions.releaseBranch = "absent"
        /\ m.conditions.branchesExist = "absent" /\ m.conditions.branchMerged = "absent"
        /\ m.conditions.ready = "absent"
    BY <1>1 DEF NoConditions
  <2> QED BY <2>1, <2>2 DEF Summary
<1>2. CASE m.conditions.branchMerged = "False"
  <2>1. m.conditions # NoConditions
    BY <1>2 DEF NoConditions
  <2> QED BY <1>2, <2>1 DEF Summary
<1>3. CASE m.conditions.branchMerged = "True"
  <2>1. m.conditions # NoConditions
    BY <1>3 DEF NoConditions
  <2> QED BY <1>3, <2>1
<1> QED BY <1>1, <1>2, <1>3

LEMMA PatchObjectCandid == Undisturbed /\ PatchObject => Candid'
<1> SUFFICES ASSUME Undisturbed, PatchObject PROVE Candid'
  OBVIOUS
<1>1. /\ UNCHANGED <<spec, heads>> /\ pc = "object" /\ pc' = "idle" /\ ~Fault
      /\ NamesThere' /\ Honest(pc, merge, at, spec.branches) /\ stored \in Status /\ merge \in Status
  BY Unmoved DEF PatchObject, Done, gitlab
<1>2. /\ stored.phase = "live"
      /\ stored.conditions = [merge.conditions EXCEPT !.ready = Summary(merge)]
  BY <1>1 DEF Undisturbed, Candid
<1>3. stored' = Patched(stored, merge)
  BY <1>1, <1>2 DEF PatchObject, Stored
<1>4. /\ stored'.phase = "live" /\ stored'.branches = merge.branches
      /\ stored'.finalTag = merge.finalTag /\ stored'.finalMR = merge.finalMR
      /\ stored'.conditions = stored.conditions
  BY <1>1, <1>2, <1>3 DEF Patched, Status
<1>5. /\ stored'.conditions.branchMerged = merge.conditions.branchMerged
      /\ stored'.conditions.ready = Summary(merge)
  BY <1>1, <1>2, <1>4 DEF Status, Conditions
<1>6. /\ merge.conditions = NoConditions => Summary(merge) = "absent"
      /\ Summary(merge) = "True" => merge.conditions.branchMerged = "True"
  BY <1>1, SummaryIsHonest DEF Honest, Rest
<1>7. merge.conditions = NoConditions => stored'.conditions = NoConditions
  BY <1>2, <1>4, <1>6 DEF NoConditions
<1>8. Honest("idle", stored', at', spec'.branches)
  BY <1>1, <1>4, <1>5, <1>7 DEF Honest, Rest, Late, AllProcessed
<1> QED BY <1>1, <1>4, <1>5, <1>6, <1>8 DEF Candid

\* The other controller merges into the build branch and main only.
LEMMA OthersCandid == Undisturbed /\ Others /\ edits' = 0 => Candid'
<1> SUFFICES ASSUME Undisturbed, Others, edits' = 0 PROVE Candid'
  OBVIOUS
<1>1. OthersLeave /\ ConstantsOK /\ TypeOK /\ NamesThere /\ edits = 0 /\ ~Fault
  BY Unmoved, OthersFrame DEF Undisturbed
<1>2. UNCHANGED <<pc, merge, want, at, spec>> /\ ~Edit
  BY <1>1 DEF OthersLeave, worker, Edit
<1>3. UNCHANGED heads => NamesThere'
  BY Unmoved
<1>4. ASSUME NEW n \in NMR, Settling(n) \/ Reports(n) \/ Failing(n) \/ CollectGarbage(n)
      PROVE  stored' = stored /\ NamesThere'
  <2>1. CASE Accept(n)
    <3>1. nmr[n].target \in {build, main}
      BY <1>1 DEF TypeOK, Object
    <3>2. PICK b \in {build, main} : \E c : heads' = [heads EXCEPT ![b] = c]
      BY <2>1, <3>1 DEF Accept, MergedInto
    <3> QED BY <1>1, <2>1, <3>2, NamesStay DEF Accept
  <2>2. CASE FindConflict(n) \/ Reports(n) \/ Failing(n) \/ CollectGarbage(n)
    BY <1>1, <1>3, <2>2 DEF FindConflict, Reports, ReportReady, ReportProcessed, ReportConflict,
       Vanish, Failing, FailToRemove, Reopen, Retract, CollectGarbage, gitlab
  <2> QED BY <1>4, <2>1, <2>2 DEF Settling
<1>5. ASSUME NEW b \in Name, UserPushes(b) PROVE stored' = stored /\ NamesThere'
  <2>1. heads \in [Branch -> Commit] /\ Name \subseteq Branch
    BY <1>1 DEF TypeOK, Branch
  <2>2. HeadAt(0, {b}).exists
    BY DEF HeadAt
  <2> QED BY <1>1, <1>5, <2>1, <2>2 DEF UserPushes, NamesThere
<1>6. ASSUME NEW l \in Lists \ {<<>>}, PushResolution(l) PROVE stored' = stored /\ NamesThere'
  <2>1. PICK c : heads' = [heads EXCEPT ![l] = c]
    BY <1>6 DEF PushResolution
  <2> QED BY <1>1, <1>6, <2>1, NamesStay DEF PushResolution
<1>7. ASSUME Users PROVE stored' = stored /\ NamesThere'
  <2>1. \/ \E b \in Name : UserPushes(b)
        \/ \E l \in Lists \ {<<>>} : PushResolution(l)
    BY <1>2, <1>7 DEF Users, ChangeSpec, DeleteMerge, UserMerges, UserCloses, UserRemovesBranch
  <2> QED BY <1>5, <1>6, <2>1
<1>8. stored' = stored /\ NamesThere'
  BY <1>4, <1>7 DEF Others
<1> QED BY <1>2, <1>8 DEF Undisturbed, Candid, Summary, HasConflict

LEMMA ReadyInit == ConstantsOK /\ Init => ReadyInv
<1> SUFFICES ASSUME ConstantsOK, Init PROVE Candid
  BY DEF ReadyInv
<1>1. stored = NewStatus /\ pc = "idle"
  BY DEF Init
<1>2. NamesThere
  <2>1. \A b \in Name : b \in Branch /\ b # main
    BY DEF Branch, ConstantsOK
  <2>2. \A b \in Name : heads[b] = HeadAt(0, {b})
    BY <2>1 DEF Init
  <2>3. \A b : HeadAt(0, {b}).exists
    BY DEF HeadAt
  <2> QED BY <2>2, <2>3 DEF NamesThere
<1>3. /\ stored.phase = "live" /\ stored.branches = <<>> /\ stored.conditions = NoConditions
      /\ stored.conditions.branchMerged = "absent" /\ stored.conditions.ready = "absent"
  BY <1>1 DEF NewStatus, NoConditions
<1>4. Honest("idle", stored, at, spec.branches)
  BY <1>3 DEF Honest, Rest, Late
<1> QED BY <1>1, <1>2, <1>3, <1>4 DEF Candid

LEMMA StepCandid == Undisturbed /\ Step => Candid'
<1>1. Undisturbed => ~DropBuild /\ ~DropBranchMRs
  BY DEF Undisturbed, Candid, DropBuild, DropBranchMRs
<1> QED BY <1>1, DropResolveBranchCandid, DropResolveMRCandid, DropFinalMRCandid,
           AddBranchesToStatusCandid, GetOrCreateBuildBranchCandid, EnsureBranchMRCandid,
           JudgeCandid, RecreateBuildCandid, CreateBuildCandid, GetOrCreateResolveBranchCandid,
           EnsureResolveMRCandid, CompareWithMainCandid, CreateFinalTagCandid,
           EnsureFinalMRCandid, SetAutoAcceptCandid, PatchConditionsCandid, PatchObjectCandid
        DEF Step

\* What was free of failures and edits stays so only as long as a step brings none.
LEMMA CountsGrow ==
  ConstantsOK /\ Inv /\ [Next]_vars /\ faults' = 0 /\ edits' = 0 =>
    faults = 0 /\ edits = 0 /\ spec' = spec
<1> SUFFICES ASSUME ConstantsOK, Inv, [Next]_vars, faults' = 0, edits' = 0
             PROVE  faults = 0 /\ edits = 0 /\ spec' = spec
  OBVIOUS
<1>1. faults \in Nat /\ edits \in Nat
  BY DEF Inv, TypeOK, ConstantsOK
<1>2. CASE Others
  <2>1. OthersLeave
    BY <1>2, OthersFrame DEF Inv
  <2> QED BY <1>1, <2>1 DEF OthersLeave, ConstantsOK
<1>3. CASE Reconcile \/ Step
  <2>1. Keeps
    BY <1>3, ReconcileKeeps, StepKeeps
  <2> QED BY <1>1, <2>1 DEF Keeps
<1>4. CASE Crash \/ UNCHANGED vars
  BY <1>1, <1>4 DEF Crash, Fault, vars, bounds
<1> QED BY <1>2, <1>3, <1>4 DEF Next, Others

LEMMA ReadyNext == ConstantsOK /\ Inv /\ ReleaseInv /\ ReadyInv /\ [Next]_vars => ReadyInv'
<1> SUFFICES ASSUME ConstantsOK, Inv, ReleaseInv, ReadyInv, [Next]_vars,
                    faults' = 0, edits' = 0, spec'.branches # <<>>
             PROVE  Candid'
  BY DEF ReadyInv
<1>1. Undisturbed
  BY CountsGrow DEF ReadyInv, Undisturbed
<1>2. CASE UNCHANGED vars
  BY <1>1, <1>2 DEF vars, gitlab, worker, Undisturbed, Candid, NamesThere, Summary, HasConflict
<1>3. ~Crash
  BY <1>1, Unmoved DEF Crash
<1> QED BY <1>1, <1>2, <1>3, ReconcileCandid, StepCandid, OthersCandid DEF Next, Others

\* Every reachable state satisfies the invariant behind the property below: what the
\* conditions say of the copy and of the object in a run without failures and edits.
THEOREM ReadyInvariance == Spec => [](Inv /\ ReleaseInv /\ ReadyInv)
<1>1. Init => ReadyInv
  BY ConstantsOK, ReadyInit
<1>2. Inv /\ ReleaseInv /\ ReadyInv /\ [Next]_vars => ReadyInv'
  BY ConstantsOK, ReadyNext
<1> QED BY <1>1, <1>2, ReleaseInvariance, PTL DEF Spec

\* Without failures and users' edits, a Merge that names branches is only Ready
\* between two reconciles (merge_controller.go:660-674) when every branch was
\* processed, the release is tagged and its final merge request is asked for.
THEOREM ReadyIsReleased == Spec => []ReadyMeansReleased
<1>1. ReadyInv => ReadyMeansReleased
  <2> SUFFICES ASSUME ReadyInv, faults = 0, edits = 0, pc = "idle",
                      stored.conditions.ready = "True", spec.branches # <<>>
               PROVE  Released
    BY DEF ReadyMeansReleased
  <2>1. Honest("idle", stored, at, spec.branches) /\ stored.conditions.branchMerged = "True"
    BY DEF ReadyInv, Candid
  <2>2. stored.conditions # NoConditions
    BY <2>1 DEF NoConditions
  <2> QED BY <2>1, <2>2 DEF Honest, Rest, Released
<1> QED BY <1>1, ReadyInvariance, PTL

=============================================================================
