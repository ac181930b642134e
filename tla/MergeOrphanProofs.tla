--------------------------- MODULE MergeOrphanProofs ---------------------------
(***************************************************************************)
(* How many NativeMergeRequest objects the Merge controller loses track    *)
(* of: none without a failure, and at most one for each branch with each.  *)
(***************************************************************************)
EXTENDS MergeProofs

-----------------------------------------------------------------------------
(* The inductive invariant.                                                *)

\* What the copy m newly refers to, compared with what is stored, s.
Fresh(m, s) == Refs(m) \ (Refs(s) \cup {0})

\* The objects of the branches.
BranchRefs(m) == {m.branches[k].nmr : k \in DOMAIN m.branches}

\* At the step p and the branch i the copy m refers to few new objects: those
\* of branches that are not processed yet, or one for the resolve branch, or
\* one for the final merge request.
FreshOK(p, m, s, i) ==
  LET new == Fresh(m, s) IN
  /\ p = "nmrs" =>
       /\ new \cap {m.resolveMR, m.finalMR} = {}
       /\ \A k \in DOMAIN m.branches :
            m.branches[k].nmr \in new => k < i /\ ~m.branches[k].processed
  /\ p = "setAuto" => new \subseteq {m.finalMR}
  /\ p \in {"conditions", "object"} =>
       \/ new \subseteq BranchRefs(m)
       \/ new \subseteq {m.resolveMR}
       \/ new \subseteq {m.finalMR}
  /\ p \notin {"nmrs", "setAuto", "conditions", "object"} => new = {}

\* The deletion of the branches' objects has come to the branch i.
DroppedOK(p, m, i) ==
  /\ p \in {"dropResolveBranch", "dropResolveMR", "dropFinalMR", "dropBuild"} => i = 1
  /\ p = "dropMRs" => \A k \in DOMAIN m.branches : k < i => m.branches[k].nmr = 0

\* What the copy no longer refers to is not alive.
LostAreDead(m, s, objs) ==
  \A n \in Refs(s) \ (Refs(m) \cup {0}) : objs[n].phase # "live"

\* What is orphaned is among what a copy newly refers to when it is lost, or what
\* was created by a call that failed; hence it is counted at the failure.
OrphanInv ==
  /\ FreshOK(pc, merge, stored, at)
  /\ DroppedOK(pc, merge, at)
  /\ pc # "idle" => LostAreDead(merge, stored, nmr)
  /\ OrphansNeedFaults

-----------------------------------------------------------------------------
(* Counting.                                                               *)

\* An object that is not alive stays so, once it was created.
LEMMA DeadStay ==
  ASSUME ConstantsOK, TypeOK, ObjectsOK, ObjectsNext, NEW n \in 1 .. lastNMR
  PROVE  n \in NMR /\ (nmr'[n].phase = "live" => nmr[n].phase = "live")
<1>1. n \in NMR /\ ~(n > lastNMR)
  BY DEF TypeOK, NMR, ConstantsOK
<1>2. nmr[n].phase # "none"
  BY <1>1 DEF ObjectsOK
<1>3. Promise!Lives(Shown(nmr[n]), Shown(nmr'[n]))
  BY <1>1 DEF ObjectsNext, Promise!Moves
<1> QED BY <1>1, <1>2, <1>3 DEF Promise!Lives, Shown

\* The objects that are orphaned by a step are among F.
LEMMA Counted ==
  ASSUME ConstantsOK, TypeOK, OrphansNeedFaults, faults' \in Nat, stored.phase = "live",
         NEW F, IsFiniteSet(F), Orphans' \subseteq Orphans \cup F,
         \/ F = {} /\ faults' >= faults
         \/ Cardinality(F) <= Cardinality(Name) /\ faults' = faults + 1
  PROVE  OrphansNeedFaults'
<1>1. IsFiniteSet(NMR) /\ Orphans \subseteq NMR
  <2>1. 1 \in Int /\ MaxNMR \in Int
    BY DEF ConstantsOK
  <2>2. IsFiniteSet(1 .. MaxNMR)
    BY <2>1, FS_Interval, Zenon
  <2> QED BY <2>2 DEF NMR, Orphans
<1>2. IsFiniteSet(Orphans)
  BY <1>1, FS_Subset
<1>3. /\ IsFiniteSet(Orphans \cup F)
      /\ Cardinality(Orphans \cup F) <= Cardinality(Orphans) + Cardinality(F)
  <2>1. Cardinality(Orphans \cup F) = Cardinality(Orphans) + Cardinality(F) - Cardinality(Orphans \cap F)
    BY <1>2, FS_Union
  <2>2. IsFiniteSet(Orphans \cup F) /\ IsFiniteSet(Orphans \cap F)
    BY <1>2, FS_Union, FS_Intersection
  <2>3. /\ Cardinality(Orphans) \in Nat /\ Cardinality(F) \in Nat
        /\ Cardinality(Orphans \cap F) \in Nat
    BY <1>2, <2>2, FS_CardinalityType
  <2> QED BY <2>1, <2>2, <2>3
<1>4. Cardinality(Orphans') <= Cardinality(Orphans \cup F)
  BY <1>3, FS_Subset
<1>5. /\ Cardinality(Orphans) \in Nat /\ Cardinality(F) \in Nat /\ Cardinality(Name) \in Nat
      /\ Cardinality(Orphans \cup F) \in Nat /\ Cardinality(Orphans') \in Nat
      /\ faults \in Nat
  <2>1. IsFiniteSet(Orphans')
    BY <1>3, FS_Subset
  <2> QED BY <1>2, <1>3, <2>1, FS_CardinalityType, NamesNumber DEF TypeOK, ConstantsOK
<1>6. Cardinality(Orphans) <= faults * Cardinality(Name)
  BY DEF OrphansNeedFaults
<1>7. Cardinality(Orphans') <= faults' * Cardinality(Name)
  <2>1. \A f, g, c \in Nat : g >= f => f * c <= g * c
    OBVIOUS
  <2>2. \A f, c \in Nat : (f + 1) * c = f * c + c
    OBVIOUS
  <2>3. faults * Cardinality(Name) \in Nat /\ faults' * Cardinality(Name) \in Nat
    BY <1>5
  <2>4. CASE F = {} /\ faults' >= faults
    <3>1. Cardinality(F) = 0
      BY <2>4, FS_EmptySet
    <3>2. faults * Cardinality(Name) <= faults' * Cardinality(Name)
      BY <1>5, <2>1, <2>4
    <3> QED BY <1>3, <1>4, <1>5, <1>6, <2>3, <3>1, <3>2
  <2>5. CASE Cardinality(F) <= Cardinality(Name) /\ faults' = faults + 1
    <3>1. faults' * Cardinality(Name) = faults * Cardinality(Name) + Cardinality(Name)
      BY <1>5, <2>2, <2>5
    <3> QED BY <1>3, <1>4, <1>5, <1>6, <2>3, <2>5, <3>1
  <2> QED BY <2>4, <2>5
<1> QED BY <1>7 DEF OrphansNeedFaults

\* There is at least one branch to name.
LEMMA OneName ==
  ASSUME ConstantsOK
  PROVE  /\ 1 <= Cardinality(Name)
         /\ \A x : IsFiniteSet({x}) /\ Cardinality({x}) <= Cardinality(Name)
<1>1. Cardinality(Name) # 0 /\ Cardinality(Name) \in Nat
  BY NamesNumber, FS_EmptySet DEF ConstantsOK
<1>2. 1 <= Cardinality(Name)
  BY <1>1
<1>3. ASSUME NEW x PROVE IsFiniteSet({x}) /\ Cardinality({x}) <= Cardinality(Name)
  <2>1. IsFiniteSet({x}) /\ Cardinality({x}) = 1
    BY FS_Singleton
  <2> QED BY <1>2, <2>1
<1> QED BY <1>2, <1>3

\* A status refers to at most one object for each branch, besides two others.
LEMMA BranchRefsNumber ==
  ASSUME ConstantsOK, NEW m \in Status, Distinct(m.branches)
  PROVE  IsFiniteSet(BranchRefs(m)) /\ Cardinality(BranchRefs(m)) <= Cardinality(Name)
<1> DEFINE bs == m.branches
<1>1. /\ bs \in [1 .. Len(bs) -> BranchStatus] /\ DOMAIN bs = 1 .. Len(bs) /\ Len(bs) \in Nat
      /\ Len(bs) <= Cardinality(Name)
  BY BranchListIsSeq DEF Status, BranchList
<1>2. IsFiniteSet(1 .. Len(bs)) /\ Cardinality(1 .. Len(bs)) = Len(bs)
  <2>1. 1 \in Int /\ Len(bs) \in Int
    BY <1>1
  <2>2. /\ IsFiniteSet(1 .. Len(bs))
        /\ Cardinality(1 .. Len(bs)) = IF 1 > Len(bs) THEN 0 ELSE Len(bs) - 1 + 1
    BY <2>1, FS_Interval, Zenon
  <2> QED BY <1>1, <2>2
<1> DEFINE f == [k \in 1 .. Len(bs) |-> bs[k].nmr]
<1>3. BranchRefs(m) = {f[k] : k \in 1 .. Len(bs)}
  BY <1>1 DEF BranchRefs
<1>4. f \in Surjection(1 .. Len(bs), BranchRefs(m))
  BY <1>3 DEF Surjection
<1>5. IsFiniteSet(BranchRefs(m)) /\ Cardinality(BranchRefs(m)) <= Len(bs)
  <2> HIDE DEF f
  <2> QED BY <1>2, <1>4, FS_Surjection
<1>6. Cardinality(BranchRefs(m)) \in Nat /\ Cardinality(Name) \in Nat
  BY <1>5, FS_CardinalityType, NamesNumber
<1> QED BY <1>1, <1>5, <1>6

-----------------------------------------------------------------------------
(* What a step of the worker does to what the copy refers to.              *)

\* A call creates at most one object, which the copy then refers to unless the
\* call failed.
CreatesFor(x) ==
  \/ lastNMR' = lastNMR
  \/ /\ lastNMR' = lastNMR + 1
     /\ lastNMR' \in Refs(x) \/ faults' = faults + 1

\* A step that stores nothing orphans at most the object it created and lost.
LEMMA OrphansMove ==
  ASSUME ConstantsOK, Inv, OrphanInv, ObjectsNext, faults' \in Nat, faults' >= faults,
         Refs(stored') = Refs(stored), stored'.phase = "live" => stored.phase = "live",
         LostAreDead(merge', merge, nmr'), CreatesFor(merge')
  PROVE  OrphansNeedFaults'
<1> SUFFICES ASSUME stored'.phase = "live" PROVE OrphansNeedFaults'
  BY DEF OrphansNeedFaults
<1>1. /\ TypeOK /\ ObjectsOK /\ ObjectsOK' /\ lastNMR \in Nat /\ lastNMR' \in Nat
      /\ \A n \in NMR : n \in Nat /\ n >= 1
  BY DEF Inv, TypeOK, ObjectsNext, ConstantsOK, NMR
<1>2. ASSUME NEW n \in Orphans', n <= lastNMR PROVE n \in Orphans
  <2>1. n \in NMR /\ nmr'[n].phase = "live" /\ n \notin Refs(stored) \cup Refs(merge')
    BY DEF Orphans
  <2>2. n \in 1 .. lastNMR
    BY <1>1, <1>2, <2>1
  <2>3. nmr[n].phase = "live"
    BY <1>1, <2>1, <2>2, DeadStay
  <2>4. n \notin Refs(merge)
    BY <1>1, <2>1 DEF LostAreDead
  <2> QED BY <2>1, <2>3, <2>4 DEF Orphans
<1>3. ASSUME NEW n \in Orphans', n > lastNMR
      PROVE  n = lastNMR + 1 /\ lastNMR' = lastNMR + 1 /\ faults' = faults + 1
  <2>1. n \in NMR /\ nmr'[n].phase = "live" /\ n \notin Refs(merge')
    BY DEF Orphans
  <2>2. n <= lastNMR'
    BY <1>1, <2>1 DEF ObjectsOK
  <2>3. lastNMR' # lastNMR
    BY <1>1, <1>3, <2>1, <2>2
  <2>5. lastNMR' = lastNMR + 1 /\ (lastNMR' \in Refs(merge') \/ faults' = faults + 1)
    BY <2>3 DEF CreatesFor
  <2>4. n = lastNMR + 1
    BY <1>1, <1>3, <2>1, <2>2, <2>5
  <2> QED BY <2>1, <2>4, <2>5
<1>4. \A n \in Orphans' : n \in Nat
  BY <1>1 DEF Orphans
<1>5. CASE lastNMR + 1 \in Orphans'
  <2>1. Orphans' \subseteq Orphans \cup {lastNMR + 1}
    BY <1>1, <1>2, <1>3, <1>4
  <2>2. faults' = faults + 1
    BY <1>1, <1>3, <1>5
  <2> QED BY <1>1, <2>1, <2>2, OneName, Counted DEF OrphanInv
<1>6. CASE lastNMR + 1 \notin Orphans'
  <2>1. Orphans' \subseteq Orphans \cup {}
    BY <1>1, <1>2, <1>3, <1>4, <1>6
  <2>2. IsFiniteSet({})
    BY FS_EmptySet
  <2> QED BY <1>1, <2>1, <2>2, Counted DEF OrphanInv
<1> QED BY <1>5, <1>6

\* The references of the two copies are among the objects there are.
LEMMA RefsExist ==
  ASSUME ConstantsOK, Inv
  PROVE  /\ \A n \in Refs(stored) \cup Refs(merge) : n \in 0 .. lastNMR
         /\ lastNMR \in Nat
BY DEF Inv, Sound, TypeOK, ConstantsOK

\* What was lost stays dead.
LEMMA LostStayDead ==
  ASSUME ConstantsOK, Inv, ObjectsNext, LostAreDead(merge, stored, nmr), NEW x,
         LostAreDead(x, merge, nmr')
  PROVE  LostAreDead(x, stored, nmr')
<1> SUFFICES ASSUME NEW n \in Refs(stored) \ (Refs(x) \cup {0}) PROVE nmr'[n].phase # "live"
  BY DEF LostAreDead
<1>1. CASE n \in Refs(merge)
  BY <1>1 DEF LostAreDead
<1>2. CASE n \notin Refs(merge)
  <2>1. nmr[n].phase # "live"
    BY <1>2 DEF LostAreDead
  <2>2. n \in 1 .. lastNMR
    BY RefsExist
  <2> QED BY <2>1, <2>2, DeadStay DEF Inv
<1> QED BY <1>1, <1>2

\* The worker goes on.
LEMMA OrphansGoOn ==
  ASSUME ConstantsOK, Inv, OrphanInv, pc # "idle", ObjectsNext, faults' \in 0 .. MaxFaults,
         faults' >= faults, UNCHANGED stored, NEW p, NEW x, Goto(p, x),
         LostAreDead(x, merge, nmr'), CreatesFor(x), FreshOK(p, x, stored, at'),
         DroppedOK(p, x, at')
  PROVE  OrphanInv'
<1>1. pc' = p /\ merge' = x /\ stored' = stored /\ faults' \in Nat
  BY DEF Goto, ConstantsOK
<1>2. OrphansNeedFaults'
  BY <1>1, OrphansMove
<1>3. LostAreDead(merge', stored', nmr')
  BY <1>1, LostStayDead DEF OrphanInv
<1> QED BY <1>1, <1>2, <1>3 DEF OrphanInv

\* Copies that refer to the same objects.
SameRefs(m, x) ==
  x.branches = m.branches /\ x.resolveMR = m.resolveMR /\ x.finalMR = m.finalMR

LEMMA AlikeRefs ==
  ASSUME NEW m, NEW x, Alike(m, x)
  PROVE  SameRefs(m, x)
BY DEF Alike, SameRefs

\* They are alike in everything that is counted.
LEMMA SameRefsRefer ==
  ASSUME NEW m, NEW x, SameRefs(m, x)
  PROVE  /\ Refs(x) = Refs(m) /\ BranchRefs(x) = BranchRefs(m)
         /\ \A objs : LostAreDead(x, m, objs)
         /\ \A s : Fresh(x, s) = Fresh(m, s) /\ Fresh(s, x) = Fresh(s, m)
BY DEF SameRefs, Refs, BranchRefs, LostAreDead, Fresh

\* The reconcile returns, with a copy that refers to the same objects.
LEMMA OrphansReturn ==
  ASSUME ConstantsOK, Inv, OrphanInv, pc # "idle", ObjectsNext, faults' \in 0 .. MaxFaults,
         faults' >= faults, UNCHANGED stored, NEW e, Return(e), SameRefs(merge, e),
         CreatesFor(e)
  PROVE  OrphanInv'
<1>1. LostAreDead(e, merge, nmr')
  BY SameRefsRefer
<1>2. Refs(merge) = BranchRefs(merge) \cup {merge.resolveMR, merge.finalMR}
  BY DEF Refs, BranchRefs
<1>3. FreshOK("conditions", e, stored, at')
  <2>1. Fresh(merge, stored) \subseteq Refs(merge)
    BY DEF Fresh
  <2>2. Fresh(e, stored) = Fresh(merge, stored) /\ BranchRefs(e) = BranchRefs(merge)
        /\ e.resolveMR = merge.resolveMR /\ e.finalMR = merge.finalMR
    BY SameRefsRefer DEF SameRefs
  <2> QED BY <1>2, <2>1, <2>2 DEF OrphanInv, FreshOK
<1>4. DroppedOK("conditions", e, at')
  BY DEF DroppedOK
<1> QED BY <1>1, <1>3, <1>4, OrphansGoOn DEF Return

\* A step that changes neither the references nor the objects' numbers.
LEMMA OrphansPass ==
  ASSUME ConstantsOK, Inv, OrphanInv, pc # "idle", ObjectsNext, faults' \in 0 .. MaxFaults,
         faults' >= faults, UNCHANGED <<stored, lastNMR, at>>, NEW p, NEW x, Goto(p, x),
         SameRefs(merge, x), pc \notin {"nmrs", "conditions", "object", "setAuto"},
         p \notin {"dropResolveBranch", "dropMRs"},
         p \in {"dropResolveMR", "dropFinalMR", "dropBuild"} => at = 1
  PROVE  OrphanInv'
<1>1. LostAreDead(x, merge, nmr') /\ Fresh(x, stored) = {}
  BY SameRefsRefer DEF OrphanInv, FreshOK
<1>2. FreshOK(p, x, stored, at')
  BY <1>1 DEF FreshOK
<1> QED BY <1>1, <1>2, OrphansGoOn DEF CreatesFor, DroppedOK

-----------------------------------------------------------------------------
(* The reconcile, step by step.                                            *)

\* What every step does, see StepKeeps.
LEMMA StepsGoOn ==
  ASSUME ConstantsOK, Inv, Step
  PROVE  ObjectsNext /\ faults' \in 0 .. MaxFaults /\ faults' >= faults
BY StepKeeps DEF Keeps

\* Copies that only differ in what refers to nothing.
LEMMA SameRefsCopies ==
  ASSUME ConstantsOK, NEW m \in Status
  PROVE  /\ SameRefs(m, m) /\ SameRefs(m, ReleaseBranchFailed(m)) /\ SameRefs(m, Merged(m))
         /\ \A c : /\ SameRefs(m, [m EXCEPT !.conditions.branchesExist = c])
                   /\ SameRefs(m, [m EXCEPT !.conditions.branchMerged = c])
                   /\ SameRefs(m, [m EXCEPT !.conditions.resolved = c])
         /\ SameRefs(m, [m EXCEPT !.recreated = TRUE])
         /\ \A t : SameRefs(m, WithTag(m, t))
BY DEF SameRefs, Status, ReleaseBranchFailed, Merged, WithTag

\* RemoveBranch or not: no step but getOrCreateNativeMR creates an object.
LEMMA DropResolveBranchOrphans ==
  ConstantsOK /\ Inv /\ OrphanInv /\ DropResolveBranch => OrphanInv'
<1> SUFFICES ASSUME ConstantsOK, Inv, OrphanInv, DropResolveBranch PROVE OrphanInv'
  OBVIOUS
<1>1. ObjectsNext /\ faults' \in 0 .. MaxFaults /\ faults' >= faults
  BY StepsGoOn DEF Step
<1>2. /\ pc = "dropResolveBranch" /\ UNCHANGED <<stored, lastNMR, at>>
      /\ Goto("dropResolveMR", merge) \/ Return(merge)
  BY DEF DropResolveBranch, Answered
<1>3. SameRefs(merge, merge) /\ at = 1
  BY <1>2 DEF SameRefs, OrphanInv, DroppedOK
<1>4. CASE Goto("dropResolveMR", merge)
  BY <1>1, <1>2, <1>3, <1>4, OrphansPass
<1>5. CASE Return(merge)
  BY <1>1, <1>2, <1>3, <1>5, OrphansReturn DEF CreatesFor
<1> QED BY <1>2, <1>4, <1>5

LEMMA DropResolveMROrphans == ConstantsOK /\ Inv /\ OrphanInv /\ DropResolveMR => OrphanInv'
<1> SUFFICES ASSUME ConstantsOK, Inv, OrphanInv, DropResolveMR PROVE OrphanInv'
  OBVIOUS
<1> DEFINE x == NoConflictState(merge)
<1>1. ObjectsNext /\ faults' \in 0 .. MaxFaults /\ faults' >= faults
  BY StepsGoOn DEF Step
<1>2. /\ pc = "dropResolveMR" /\ UNCHANGED <<stored, lastNMR, at>>
      /\ \/ Goto("dropFinalMR", x) /\ (merge.resolveMR = 0 \/ DeleteNativeMR(merge.resolveMR))
         \/ Return(merge)
  BY DEF DropResolveMR, Answered, DeleteNativeMR, objects
<1>3. /\ SameRefs(merge, merge) /\ at = 1 /\ Fresh(merge, stored) = {}
      /\ merge \in Status /\ TypeOK /\ ObjectsOK /\ merge.resolveMR \in 0 .. MaxNMR
  BY <1>2 DEF SameRefs, OrphanInv, DroppedOK, FreshOK, Inv, TypeOK, Status
<1>4. x.branches = merge.branches /\ x.finalMR = merge.finalMR /\ x.resolveMR = 0
  BY <1>3 DEF NoConflictState, Status
<1> HIDE DEF x
<1>5. CASE Goto("dropFinalMR", x) /\ (merge.resolveMR = 0 \/ DeleteNativeMR(merge.resolveMR))
  <2>1. merge.resolveMR # 0 => nmr'[merge.resolveMR].phase # "live"
    BY <1>3, <1>5, DeletedObjects
  <2>2. LostAreDead(x, merge, nmr')
    BY <1>4, <2>1 DEF LostAreDead, Refs
  <2>3. Fresh(x, stored) = {}
    BY <1>3, <1>4 DEF Fresh, Refs
  <2>4. FreshOK("dropFinalMR", x, stored, at') /\ DroppedOK("dropFinalMR", x, at')
    BY <1>2, <1>3, <2>3 DEF FreshOK, DroppedOK
  <2> QED BY <1>1, <1>2, <1>5, <2>2, <2>4, OrphansGoOn DEF CreatesFor
<1>6. CASE Return(merge)
  BY <1>1, <1>2, <1>3, <1>6, OrphansReturn DEF CreatesFor
<1> QED BY <1>2, <1>5, <1>6

LEMMA DropFinalMROrphans == ConstantsOK /\ Inv /\ OrphanInv /\ DropFinalMR => OrphanInv'
<1> SUFFICES ASSUME ConstantsOK, Inv, OrphanInv, DropFinalMR PROVE OrphanInv'
  OBVIOUS
<1> DEFINE next == IF Shrunk(merge, want) THEN "dropBuild" ELSE "branches"
           x == ReleaseForgotten(merge)
<1>1. ObjectsNext /\ faults' \in 0 .. MaxFaults /\ faults' >= faults
  BY StepsGoOn DEF Step
<1>2. /\ pc = "dropFinalMR" /\ UNCHANGED <<stored, lastNMR, at>>
      /\ \/ merge.finalMR = 0 /\ Goto(next, merge)
         \/ DeleteNativeMR(merge.finalMR) /\ Goto(next, x)
         \/ Return(merge)
  BY DEF DropFinalMR, Answered, DeleteNativeMR, objects
<1>3. /\ SameRefs(merge, merge) /\ at = 1 /\ Fresh(merge, stored) = {}
      /\ merge \in Status /\ TypeOK /\ ObjectsOK /\ merge.finalMR \in 0 .. MaxNMR
  BY <1>2 DEF SameRefs, OrphanInv, DroppedOK, FreshOK, Inv, TypeOK, Status
<1>4. x.branches = merge.branches /\ x.resolveMR = merge.resolveMR /\ x.finalMR = 0
  BY <1>3 DEF ReleaseForgotten, Status
<1>5. next \in {"dropBuild", "branches"}
  OBVIOUS
<1> HIDE DEF x, next
<1>6. CASE merge.finalMR = 0 /\ Goto(next, merge)
  BY <1>1, <1>2, <1>3, <1>5, <1>6, OrphansPass
<1>7. CASE DeleteNativeMR(merge.finalMR) /\ Goto(next, x)
  <2>1. merge.finalMR # 0 => nmr'[merge.finalMR].phase # "live"
    BY <1>3, <1>7, DeletedObjects
  <2>2. LostAreDead(x, merge, nmr')
    BY <1>4, <2>1 DEF LostAreDead, Refs
  <2>3. Fresh(x, stored) = {}
    BY <1>3, <1>4 DEF Fresh, Refs
  <2>4. FreshOK(next, x, stored, at') /\ DroppedOK(next, x, at')
    BY <1>2, <1>3, <1>5, <2>3 DEF FreshOK, DroppedOK
  <2> QED BY <1>1, <1>2, <1>7, <2>2, <2>4, OrphansGoOn DEF CreatesFor
<1>8. CASE Return(merge)
  BY <1>1, <1>2, <1>3, <1>8, OrphansReturn DEF CreatesFor
<1> QED BY <1>2, <1>6, <1>7, <1>8

LEMMA DropBuildOrphans == ConstantsOK /\ Inv /\ OrphanInv /\ DropBuild => OrphanInv'
<1> SUFFICES ASSUME ConstantsOK, Inv, OrphanInv, DropBuild PROVE OrphanInv'
  OBVIOUS
<1>1. ObjectsNext /\ faults' \in 0 .. MaxFaults /\ faults' >= faults
  BY StepsGoOn DEF Step
<1>2. /\ pc = "dropBuild" /\ UNCHANGED <<stored, lastNMR, at>>
      /\ Goto("dropMRs", merge) \/ Return(ReleaseBranchFailed(merge))
  BY DEF DropBuild, Answered
<1>3. /\ at = 1 /\ Fresh(merge, stored) = {} /\ merge \in Status
      /\ SameRefs(merge, merge) /\ SameRefs(merge, ReleaseBranchFailed(merge))
  BY <1>2, SameRefsCopies DEF OrphanInv, DroppedOK, FreshOK, Inv, TypeOK
<1>4. CASE Goto("dropMRs", merge)
  <2>1. LostAreDead(merge, merge, nmr')
    BY DEF LostAreDead
  <2>2. DOMAIN merge.branches = 1 .. Len(merge.branches) /\ Len(merge.branches) \in Nat
    BY <1>2, AtEntry
  <2>3. FreshOK("dropMRs", merge, stored, at') /\ DroppedOK("dropMRs", merge, at')
    BY <1>2, <1>3, <2>2 DEF FreshOK, DroppedOK
  <2> QED BY <1>1, <1>2, <1>4, <2>1, <2>3, OrphansGoOn DEF CreatesFor
<1>5. CASE Return(ReleaseBranchFailed(merge))
  BY <1>1, <1>2, <1>3, <1>5, OrphansReturn DEF CreatesFor
<1> QED BY <1>2, <1>4, <1>5

LEMMA DropBranchMRsOrphans == ConstantsOK /\ Inv /\ OrphanInv /\ DropBranchMRs => OrphanInv'
<1> SUFFICES ASSUME ConstantsOK, Inv, OrphanInv, DropBranchMRs PROVE OrphanInv'
  OBVIOUS
<1>1. ObjectsNext /\ faults' \in 0 .. MaxFaults /\ faults' >= faults
  BY StepsGoOn DEF Step
<1>2. /\ pc = "dropMRs" /\ UNCHANGED <<stored, lastNMR>>
      /\ merge.resolveMR = 0 /\ merge.finalMR = 0
      /\ \A k \in DOMAIN merge.branches : k < at => merge.branches[k].nmr = 0
      /\ Fresh(merge, stored) = {} /\ TypeOK /\ ObjectsOK
  BY DEF DropBranchMRs, Inv, StepOK, OrphanInv, DroppedOK, FreshOK, DeleteNativeMR, objects
<1>3. /\ merge \in Status /\ merge.branches \in BranchList
      /\ DOMAIN merge.branches = 1 .. Len(merge.branches)
      /\ at \in Nat /\ at >= 1 /\ Len(merge.branches) \in Nat
  BY <1>2, AtEntry
<1>4. SameRefs(merge, merge) /\ SameRefs(merge, ReleaseBranchFailed(merge))
  BY <1>3, SameRefsCopies
<1>5. CASE at > Len(merge.branches) /\ Goto("branches", [merge EXCEPT !.branches = <<>>])
  <2> DEFINE x == [merge EXCEPT !.branches = <<>>]
  <2>1. x.branches = <<>> /\ x.resolveMR = 0 /\ x.finalMR = 0 /\ DOMAIN x.branches = {}
    BY <1>2, <1>3 DEF Status
  <2>2. \A k \in DOMAIN merge.branches : merge.branches[k].nmr = 0
    BY <1>2, <1>3, <1>5
  <2>3. Refs(merge) = {0} /\ Refs(x) = {0}
    BY <1>2, <2>1, <2>2 DEF Refs
  <2> HIDE DEF x
  <2>4. LostAreDead(x, merge, nmr') /\ Fresh(x, stored) = {}
    BY <2>3 DEF LostAreDead, Fresh
  <2>5. FreshOK("branches", x, stored, at') /\ DroppedOK("branches", x, at')
    BY <2>4 DEF FreshOK, DroppedOK
  <2>6. Goto("branches", x)
    BY <1>5 DEF x
  <2> QED BY <1>1, <1>2, <2>4, <2>5, <2>6, OrphansGoOn DEF CreatesFor
<1>6. CASE at <= Len(merge.branches) /\ at' = at + 1 /\ Goto("dropMRs", merge)
           /\ merge.branches[at].nmr = 0
  <2>1. LostAreDead(merge, merge, nmr')
    BY DEF LostAreDead
  <2>2. FreshOK("dropMRs", merge, stored, at') /\ DroppedOK("dropMRs", merge, at')
    BY <1>2, <1>3, <1>6 DEF FreshOK, DroppedOK
  <2> QED BY <1>1, <1>2, <1>6, <2>1, <2>2, OrphansGoOn DEF CreatesFor
<1>7. CASE /\ at <= Len(merge.branches) /\ at' = at + 1
           /\ DeleteNativeMR(merge.branches[at].nmr)
           /\ Goto("dropMRs", [merge EXCEPT !.branches[at].nmr = 0])
  <2> DEFINE bs == [merge.branches EXCEPT ![at].nmr = 0]
             x == [merge EXCEPT !.branches = bs]
             n == merge.branches[at].nmr
  <2>1. at \in DOMAIN merge.branches /\ n \in 0 .. MaxNMR
    BY <1>2, <1>7, AtEntry
  <2>2. /\ DOMAIN bs = DOMAIN merge.branches /\ bs[at].nmr = 0
        /\ \A l \in DOMAIN bs : l # at => bs[l] = merge.branches[l]
    BY <1>3, <2>1, EntryForgotten
  <2>3. Goto("dropMRs", x)
    BY <1>7
  <2>4. x.branches = bs /\ x.resolveMR = 0 /\ x.finalMR = 0
    BY <1>2, <1>3 DEF Status
  <2>5. n # 0 => nmr'[n].phase # "live"
    BY <1>2, <1>7, <2>1, DeletedObjects
  <2> HIDE DEF x, bs
  <2>6. LostAreDead(x, merge, nmr')
    <3> SUFFICES ASSUME NEW r \in Refs(merge) \ (Refs(x) \cup {0}) PROVE nmr'[r].phase # "live"
      BY DEF LostAreDead
    <3>1. r = n
      BY <1>2, <2>2, <2>4 DEF Refs
    <3> QED BY <2>5, <3>1
  <2>7. Fresh(x, stored) = {}
    BY <1>2, <2>2, <2>4 DEF Fresh, Refs
  <2>8. FreshOK("dropMRs", x, stored, at') /\ DroppedOK("dropMRs", x, at')
    BY <1>2, <1>3, <1>7, <2>2, <2>4, <2>7 DEF FreshOK, DroppedOK
  <2> QED BY <1>1, <1>2, <2>3, <2>6, <2>8, OrphansGoOn DEF CreatesFor
<1>8. CASE Return(ReleaseBranchFailed(merge))
  BY <1>1, <1>2, <1>4, <1>8, OrphansReturn DEF CreatesFor
<1> QED BY <1>5, <1>6, <1>7, <1>8 DEF DropBranchMRs, Answered

LEMMA AddBranchesToStatusOrphans ==
  ConstantsOK /\ Inv /\ OrphanInv /\ AddBranchesToStatus => OrphanInv'
<1> SUFFICES ASSUME ConstantsOK, Inv, OrphanInv, AddBranchesToStatus PROVE OrphanInv'
  OBVIOUS
<1>1. ObjectsNext /\ faults' \in 0 .. MaxFaults /\ faults' >= faults
  BY StepsGoOn DEF Step
<1>2. /\ pc = "branches" /\ UNCHANGED <<stored, lastNMR, at>> /\ Fresh(merge, stored) = {}
      /\ merge \in Status /\ Distinct(merge.branches) /\ want \in SpecType
      /\ heads \in [Branch -> Commit]
  BY DEF AddBranchesToStatus, OrphanInv, FreshOK, Inv, TypeOK, SpecType, objects, Sound
<1> DEFINE bs == Extended(merge, want)
<1>3. PICK f : Goto("build", [merge EXCEPT !.branches = Validated(bs, f)])
  BY DEF AddBranchesToStatus
<1>4. /\ bs \in BranchList /\ Distinct(bs)
      /\ DOMAIN merge.branches \subseteq DOMAIN bs
      /\ \A k \in DOMAIN merge.branches : bs[k] = merge.branches[k]
      /\ \A k \in DOMAIN bs \ DOMAIN merge.branches : bs[k] = NewBranch(bs[k].name)
  BY <1>2, ExtendedKeeps
<1> HIDE DEF bs
<1> DEFINE vs == Validated(bs, f)
           x == [merge EXCEPT !.branches = vs]
<1>5. DOMAIN vs = DOMAIN bs /\ \A k \in DOMAIN bs : vs[k].nmr = bs[k].nmr
  BY <1>2, <1>4, ValidatedKeeps
<1>6. x.branches = vs /\ x.resolveMR = merge.resolveMR /\ x.finalMR = merge.finalMR
  BY <1>2 DEF Status
<1>7. Goto("build", x)
  BY <1>3
<1> HIDE DEF vs, x
<1>8. \A k \in DOMAIN bs \ DOMAIN merge.branches : vs[k].nmr = 0
  BY <1>4, <1>5 DEF NewBranch
<1>9. Refs(merge) \subseteq Refs(x) /\ Refs(x) \subseteq Refs(merge) \cup {0}
  BY <1>4, <1>5, <1>6, <1>8 DEF Refs
<1>10. LostAreDead(x, merge, nmr') /\ Fresh(x, stored) = {}
  BY <1>2, <1>9 DEF LostAreDead, Fresh
<1>11. FreshOK("build", x, stored, at') /\ DroppedOK("build", x, at')
  BY <1>10 DEF FreshOK, DroppedOK
<1> QED BY <1>1, <1>2, <1>7, <1>10, <1>11, OrphansGoOn DEF CreatesFor

LEMMA GetOrCreateBuildBranchOrphans ==
  ConstantsOK /\ Inv /\ OrphanInv /\ GetOrCreateBuildBranch => OrphanInv'
<1> SUFFICES ASSUME ConstantsOK, Inv, OrphanInv, GetOrCreateBuildBranch PROVE OrphanInv'
  OBVIOUS
<1>1. ObjectsNext /\ faults' \in 0 .. MaxFaults /\ faults' >= faults
  BY StepsGoOn DEF Step
<1>2. /\ pc = "build" /\ UNCHANGED <<stored, lastNMR, at>>
      /\ Goto("nmrs", merge) \/ Return(ReleaseBranchFailed(merge))
  BY DEF GetOrCreateBuildBranch, Answered, objects
<1>3. SameRefs(merge, merge) /\ SameRefs(merge, ReleaseBranchFailed(merge))
  BY SameRefsCopies DEF Inv, TypeOK
<1>4. CASE Goto("nmrs", merge)
  BY <1>1, <1>2, <1>3, <1>4, OrphansPass
<1>5. CASE Return(ReleaseBranchFailed(merge))
  BY <1>1, <1>2, <1>3, <1>5, OrphansReturn DEF CreatesFor
<1> QED BY <1>2, <1>4, <1>5

LEMMA RecreateBuildOrphans ==
  ConstantsOK /\ Inv /\ OrphanInv /\ RecreateBuild => OrphanInv'
<1> SUFFICES ASSUME ConstantsOK, Inv, OrphanInv, RecreateBuild PROVE OrphanInv'
  OBVIOUS
<1>1. ObjectsNext /\ faults' \in 0 .. MaxFaults /\ faults' >= faults
  BY StepsGoOn DEF Step
<1>2. /\ pc = "recreate" /\ UNCHANGED <<stored, lastNMR, at>>
      /\ Goto("createBuild", merge) \/ Return(ReleaseBranchFailed(merge))
  BY DEF RecreateBuild, Answered
<1>3. SameRefs(merge, merge) /\ SameRefs(merge, ReleaseBranchFailed(merge))
  BY SameRefsCopies DEF Inv, TypeOK
<1>4. CASE Goto("createBuild", merge)
  BY <1>1, <1>2, <1>3, <1>4, OrphansPass
<1>5. CASE Return(ReleaseBranchFailed(merge))
  BY <1>1, <1>2, <1>3, <1>5, OrphansReturn DEF CreatesFor
<1> QED BY <1>2, <1>4, <1>5

LEMMA CreateBuildOrphans == ConstantsOK /\ Inv /\ OrphanInv /\ CreateBuild => OrphanInv'
<1> SUFFICES ASSUME ConstantsOK, Inv, OrphanInv, CreateBuild PROVE OrphanInv'
  OBVIOUS
<1> DEFINE x == [merge EXCEPT !.recreated = TRUE]
<1>1. ObjectsNext /\ faults' \in 0 .. MaxFaults /\ faults' >= faults
  BY StepsGoOn DEF Step
<1>2. /\ pc = "createBuild" /\ UNCHANGED <<stored, lastNMR, at>>
      /\ Goto("resolveBranch", x) \/ Return(ReleaseBranchFailed(merge))
  BY DEF CreateBuild, Answered, objects
<1>3. SameRefs(merge, x) /\ SameRefs(merge, ReleaseBranchFailed(merge))
  BY SameRefsCopies DEF Inv, TypeOK
<1> HIDE DEF x
<1>4. CASE Goto("resolveBranch", x)
  BY <1>1, <1>2, <1>3, <1>4, OrphansPass
<1>5. CASE Return(ReleaseBranchFailed(merge))
  BY <1>1, <1>2, <1>3, <1>5, OrphansReturn DEF CreatesFor
<1> QED BY <1>2, <1>4, <1>5

LEMMA GetOrCreateResolveBranchOrphans ==
  ConstantsOK /\ Inv /\ OrphanInv /\ GetOrCreateResolveBranch => OrphanInv'
<1> SUFFICES ASSUME ConstantsOK, Inv, OrphanInv, GetOrCreateResolveBranch PROVE OrphanInv'
  OBVIOUS
<1>1. ObjectsNext /\ faults' \in 0 .. MaxFaults /\ faults' >= faults
  BY StepsGoOn DEF Step
<1>2. /\ pc = "resolveBranch" /\ UNCHANGED <<stored, lastNMR, at>>
      /\ Goto("resolveMR", merge) \/ Return(ReleaseBranchFailed(merge))
  BY DEF GetOrCreateResolveBranch, Answered, objects
<1>3. SameRefs(merge, merge) /\ SameRefs(merge, ReleaseBranchFailed(merge))
  BY SameRefsCopies DEF Inv, TypeOK
<1>4. CASE Goto("resolveMR", merge)
  BY <1>1, <1>2, <1>3, <1>4, OrphansPass
<1>5. CASE Return(ReleaseBranchFailed(merge))
  BY <1>1, <1>2, <1>3, <1>5, OrphansReturn DEF CreatesFor
<1> QED BY <1>2, <1>4, <1>5

LEMMA CompareWithMainOrphans ==
  ConstantsOK /\ Inv /\ OrphanInv /\ CompareWithMain => OrphanInv'
<1> SUFFICES ASSUME ConstantsOK, Inv, OrphanInv, CompareWithMain PROVE OrphanInv'
  OBVIOUS
<1>1. ObjectsNext /\ faults' \in 0 .. MaxFaults /\ faults' >= faults
  BY StepsGoOn DEF Step
<1>2. /\ pc = "compare" /\ UNCHANGED <<stored, lastNMR, at>>
      /\ Goto("tag", merge) \/ Return(merge)
  BY DEF CompareWithMain, objects
<1>3. SameRefs(merge, merge)
  BY DEF SameRefs
<1>4. CASE Goto("tag", merge)
  BY <1>1, <1>2, <1>3, <1>4, OrphansPass
<1>5. CASE Return(merge)
  BY <1>1, <1>2, <1>3, <1>5, OrphansReturn DEF CreatesFor
<1> QED BY <1>2, <1>4, <1>5

LEMMA CreateFinalTagOrphans ==
  ConstantsOK /\ Inv /\ OrphanInv /\ CreateFinalTag => OrphanInv'
<1> SUFFICES ASSUME ConstantsOK, Inv, OrphanInv, CreateFinalTag PROVE OrphanInv'
  OBVIOUS
<1> DEFINE x == WithTag(merge, TagOf(merge))
<1>1. ObjectsNext /\ faults' \in 0 .. MaxFaults /\ faults' >= faults
  BY StepsGoOn DEF Step
<1>2. /\ pc = "tag" /\ UNCHANGED <<stored, lastNMR, at>>
      /\ Goto("finalMR", x) \/ Return(merge)
  BY DEF CreateFinalTag, Answered, objects, WithTag
<1>3. SameRefs(merge, merge) /\ SameRefs(merge, x)
  BY SameRefsCopies DEF Inv, TypeOK
<1> HIDE DEF x
<1>4. CASE Goto("finalMR", x)
  BY <1>1, <1>2, <1>3, <1>4, OrphansPass
<1>5. CASE Return(merge)
  BY <1>1, <1>2, <1>3, <1>5, OrphansReturn DEF CreatesFor
<1> QED BY <1>2, <1>4, <1>5

\* Once every branch is processed, none of the objects is a new one.
LEMMA JudgeOrphans == ConstantsOK /\ Inv /\ OrphanInv /\ Judge => OrphanInv'
<1> SUFFICES ASSUME ConstantsOK, Inv, OrphanInv, Judge PROVE OrphanInv'
  OBVIOUS
<1> DEFINE exist == [merge EXCEPT !.conditions.branchesExist = "True"]
           missing == [merge EXCEPT !.conditions.branchesExist = "False"]
           waiting == [exist EXCEPT !.conditions.branchMerged = "False"]
<1>1. ObjectsNext /\ faults' \in 0 .. MaxFaults /\ faults' >= faults
  BY StepsGoOn DEF Step
<1>2. pc = "nmrs" /\ UNCHANGED <<stored, lastNMR, at>>
  BY DEF Judge, objects
<1>3. SameRefs(merge, exist) /\ SameRefs(merge, missing) /\ SameRefs(merge, waiting)
  <2>1. merge \in Status /\ exist \in Status
    BY StatusType DEF Inv, TypeOK, Condition
  <2>2. SameRefs(merge, exist) /\ SameRefs(merge, missing)
    BY <2>1, SameRefsCopies
  <2> HIDE DEF exist, missing
  <2>3. SameRefs(exist, waiting)
    BY <2>1, SameRefsCopies
  <2> QED BY <2>2, <2>3 DEF SameRefs
<1>4. \/ Return(missing) \/ Return(waiting)
      \/ AllProcessed(merge) /\ \E p \in {"recreate", "resolveBranch", "compare"} : Goto(p, exist)
  BY DEF Judge
<1> HIDE DEF exist, missing, waiting
<1>5. CASE Return(missing) \/ Return(waiting)
  BY <1>1, <1>2, <1>3, <1>5, OrphansReturn DEF CreatesFor
<1>6. ASSUME AllProcessed(merge), NEW p \in {"recreate", "resolveBranch", "compare"},
             Goto(p, exist)
      PROVE  OrphanInv'
  <2>1. Fresh(merge, stored) = {}
    <3>1. /\ Fresh(merge, stored) \cap {merge.resolveMR, merge.finalMR} = {}
          /\ \A k \in DOMAIN merge.branches : merge.branches[k].nmr \notin Fresh(merge, stored)
      BY <1>2, <1>6 DEF OrphanInv, FreshOK, AllProcessed
    <3> QED BY <3>1 DEF Fresh, Refs
  <2>2. LostAreDead(exist, merge, nmr') /\ Fresh(exist, stored) = {}
    BY <1>3, <2>1, SameRefsRefer
  <2>3. FreshOK(p, exist, stored, at') /\ DroppedOK(p, exist, at')
    BY <2>2 DEF FreshOK, DroppedOK
  <2> QED BY <1>1, <1>2, <1>6, <2>2, <2>3, OrphansGoOn DEF CreatesFor
<1> QED BY <1>4, <1>5, <1>6

\* What getOrCreateNativeMR loses is not alive, and what it creates is new.
LEMMA ObtainedOrLost ==
  ASSUME ConstantsOK, TypeOK, ObjectsOK, NEW n \in 0 .. lastNMR, NEW s, NEW t, NEW auto,
         NEW r, Obtains(n, s, t, auto, r)
  PROVE  \/ r = n /\ lastNMR' = lastNMR
         \/ /\ r = lastNMR + 1 /\ lastNMR' = r /\ ~nmr'[r].processed /\ ~nmr'[r].ready
            /\ n # 0 => nmr'[n].phase # "live"
<1> SUFFICES ASSUME r = lastNMR + 1, lastNMR' = r, ~Found(n),
                    nmr' = [nmr EXCEPT ![r] = NewNMR(s, t, auto)], n # 0
             PROVE  nmr'[n].phase # "live"
  BY DEF Obtains
<1>1. n \in NMR /\ n # r /\ nmr[n].phase # "live"
  BY DEF Found, NMR, TypeOK, ConstantsOK
<1> QED BY <1>1 DEF TypeOK

\* A creation whose answer is lost is a failure.
LEMMA LostCreates ==
  ASSUME NEW s, NEW t, NEW auto, Loses(s, t, auto), NEW x
  PROVE  CreatesFor(x)
BY DEF Loses, CreatesFor

LEMMA EnsureBranchMROrphans ==
  ConstantsOK /\ Inv /\ OrphanInv /\ EnsureBranchMR => OrphanInv'
<1> SUFFICES ASSUME ConstantsOK, Inv, OrphanInv, EnsureBranchMR PROVE OrphanInv'
  OBVIOUS
<1> DEFINE n == merge.branches[at].nmr
           s == merge.branches[at].name
<1>1. /\ ObjectsNext /\ faults' \in 0 .. MaxFaults /\ faults' >= faults /\ at' = at + 1
      /\ at \in DOMAIN merge.branches
      /\ \/ Return(merge) /\ Loses(s, build, TRUE)
         \/ \E r \in NMR :
              /\ Goto("nmrs", [merge EXCEPT !.branches = Noted(merge.branches, at, r)])
              /\ Obtains(n, s, build, TRUE, r)
  BY EnsuredBranchMR
<1>2. /\ pc = "nmrs" /\ UNCHANGED stored /\ TypeOK /\ ObjectsOK /\ SameRefs(merge, merge)
      /\ FreshOK("nmrs", merge, stored, at) /\ lastNMR \in Nat
  BY DEF EnsureBranchMR, Inv, OrphanInv, SameRefs, TypeOK, ConstantsOK
<1>3. /\ merge \in Status /\ merge.branches \in BranchList /\ n \in 0 .. lastNMR
      /\ DOMAIN merge.branches = 1 .. Len(merge.branches) /\ at \in Nat /\ Len(merge.branches) \in Nat
  <2>1. at <= Len(merge.branches) /\ pc # "idle"
    BY <1>2 DEF EnsureBranchMR
  <2> QED BY <2>1, AtEntry
<1> HIDE DEF s
<1>4. CASE Return(merge) /\ Loses(s, build, TRUE)
  BY <1>1, <1>2, <1>4, LostCreates, OrphansReturn
<1>5. ASSUME NEW r \in NMR, Obtains(n, s, build, TRUE, r),
             Goto("nmrs", [merge EXCEPT !.branches = Noted(merge.branches, at, r)])
      PROVE  OrphanInv'
  <2> DEFINE bs == Noted(merge.branches, at, r)
             x == [merge EXCEPT !.branches = bs]
  <2>1. nmr' \in [NMR -> Object]
    BY <1>1 DEF ObjectsNext
  <2>2. /\ DOMAIN bs = DOMAIN merge.branches /\ bs[at].nmr = r
        /\ bs[at].processed = nmr'[r].processed
        /\ \A l \in DOMAIN bs : l # at => bs[l] = merge.branches[l]
    BY <1>1, <1>3, <2>1, EntryNoted
  <2>3. x.branches = bs /\ x.resolveMR = merge.resolveMR /\ x.finalMR = merge.finalMR
    BY <1>3 DEF Status
  <2>4. Goto("nmrs", x)
    BY <1>5
  <2>5. \/ r = n /\ lastNMR' = lastNMR
        \/ /\ r = lastNMR + 1 /\ lastNMR' = r /\ ~nmr'[r].processed
           /\ n # 0 => nmr'[n].phase # "live"
    <3> HIDE DEF n, bs, x
    <3>1. TypeOK /\ ObjectsOK /\ n \in 0 .. lastNMR /\ Obtains(n, s, build, TRUE, r)
      BY <1>2, <1>3, <1>5
    <3>2. \/ r = n /\ lastNMR' = lastNMR
          \/ /\ r = lastNMR + 1 /\ lastNMR' = r /\ ~nmr'[r].processed /\ ~nmr'[r].ready
             /\ n # 0 => nmr'[n].phase # "live"
      BY <3>1, ObtainedOrLost
    <3> QED BY <3>2
  <2>6. \A i \in Refs(merge) : i \in 0 .. lastNMR
    BY RefsExist
  <2> HIDE DEF bs, x
  <2>7. Refs(x) \subseteq Refs(merge) \cup {r} /\ Refs(merge) \subseteq Refs(x) \cup {n}
        /\ r \in Refs(x)
    BY <1>1, <2>2, <2>3 DEF Refs
  <2>8. LostAreDead(x, merge, nmr')
    BY <2>5, <2>7 DEF LostAreDead
  <2>9. CreatesFor(x)
    BY <2>5, <2>7 DEF CreatesFor
  <2>10. FreshOK("nmrs", x, stored, at')
    <3> DEFINE old == Fresh(merge, stored)
               new == Fresh(x, stored)
    <3>1. /\ old \cap {merge.resolveMR, merge.finalMR} = {}
          /\ \A k \in DOMAIN merge.branches :
               merge.branches[k].nmr \in old => k < at /\ ~merge.branches[k].processed
      BY <1>2 DEF FreshOK
    <3>2. new \subseteq old \cup {r} /\ (r = n => new \subseteq old)
      <4>1. n \in Refs(merge)
        BY <1>1 DEF Refs
      <4> HIDE DEF n
      <4> QED BY <2>7, <4>1 DEF Fresh
    <3>3. /\ merge.resolveMR \in Refs(merge) /\ merge.finalMR \in Refs(merge)
          /\ \A k \in DOMAIN merge.branches : merge.branches[k].nmr \in Refs(merge)
      BY DEF Refs
    <3> HIDE DEF old, new
    <3>4. r = lastNMR + 1 => r \notin Refs(merge)
      BY <1>2, <2>6
    <3>5. new \cap {x.resolveMR, x.finalMR} = {}
      BY <2>3, <2>5, <3>1, <3>2, <3>3, <3>4
    <3>6. ASSUME NEW k \in DOMAIN x.branches, x.branches[k].nmr \in new
          PROVE  k < at' /\ ~x.branches[k].processed
      <4>1. k \in DOMAIN merge.branches /\ k \in Nat /\ at' = at + 1
        BY <1>1, <1>3, <2>2, <2>3
      <4>2. CASE k # at
        <5>1. x.branches[k] = merge.branches[k] /\ merge.branches[k].nmr \in old
          BY <2>2, <2>3, <2>5, <3>2, <3>3, <3>4, <3>6, <4>1, <4>2
        <5> QED BY <1>3, <3>1, <4>1, <5>1
      <4>3. CASE k = at
        <5>1. r \in new /\ x.branches[k].processed = nmr'[r].processed
          BY <2>2, <2>3, <3>6, <4>3
        <5>2. n \notin old
          BY <1>1, <1>3, <3>1
        <5>3. r # n
          BY <3>2, <5>1, <5>2
        <5> QED BY <1>3, <2>5, <4>1, <4>3, <5>1, <5>3
      <4> QED BY <4>2, <4>3
    <3> QED BY <3>5, <3>6 DEF FreshOK, new
  <2>11. DroppedOK("nmrs", x, at')
    BY DEF DroppedOK
  <2> QED BY <1>1, <1>2, <2>4, <2>8, <2>9, <2>10, <2>11, OrphansGoOn
<1> QED BY <1>1, <1>4, <1>5

LEMMA EnsureResolveMROrphans ==
  ConstantsOK /\ Inv /\ OrphanInv /\ EnsureResolveMR => OrphanInv'
<1> SUFFICES ASSUME ConstantsOK, Inv, OrphanInv, EnsureResolveMR PROVE OrphanInv'
  OBVIOUS
<1> DEFINE n == merge.resolveMR
           s == ResolveName(merge)
           failed == [merge EXCEPT !.conditions.resolved = "False"]
<1>1. /\ ObjectsNext /\ faults' \in 0 .. MaxFaults /\ faults' >= faults
      /\ \/ Return(failed) /\ Loses(s, build, TRUE)
         \/ \E r \in NMR :
              LET m == WithResolveMR(merge, r) IN
              /\ Obtains(n, s, build, TRUE, r)
              /\ \/ Return([m EXCEPT !.conditions.resolved = "False"])
                 \/ /\ nmr'[r].ready
                    /\ Goto("compare", [m EXCEPT !.conditions.resolved = "True"])
  BY EnsuredResolveMR
<1>2. /\ pc = "resolveMR" /\ UNCHANGED <<stored, at>> /\ TypeOK /\ ObjectsOK
      /\ Fresh(merge, stored) = {} /\ merge \in Status
  BY DEF EnsureResolveMR, Inv, OrphanInv, FreshOK, TypeOK
<1>3. SameRefs(merge, failed) /\ n \in 0 .. lastNMR
  BY <1>2, SameRefsCopies, RefsExist DEF Refs
<1> HIDE DEF s, failed
<1>4. CASE Return(failed) /\ Loses(s, build, TRUE)
  BY <1>1, <1>2, <1>3, <1>4, LostCreates, OrphansReturn
<1>5. ASSUME NEW r \in NMR, Obtains(n, s, build, TRUE, r), NEW p, NEW x,
             x.branches = merge.branches, x.resolveMR = r, x.finalMR = merge.finalMR,
             Goto(p, x), p = "conditions" \/ (p = "compare" /\ nmr'[r].ready)
      PROVE  OrphanInv'
  <2>1. \/ r = n /\ lastNMR' = lastNMR
        \/ /\ r = lastNMR + 1 /\ lastNMR' = r /\ ~nmr'[r].ready
           /\ n # 0 => nmr'[n].phase # "live"
    <3> HIDE DEF n
    <3> QED BY <1>2, <1>3, <1>5, ObtainedOrLost
  <2>2. CASE r = n /\ lastNMR' = lastNMR
    <3>1. SameRefs(merge, x)
      BY <1>5, <2>2 DEF SameRefs
    <3>2. CASE p = "conditions"
      BY <1>1, <1>2, <1>5, <2>2, <3>1, <3>2, OrphansReturn DEF CreatesFor, Return
    <3>3. CASE p = "compare"
      BY <1>1, <1>2, <1>5, <2>2, <3>1, <3>3, OrphansPass
    <3> QED BY <1>5, <3>2, <3>3
  <2>3. CASE /\ r = lastNMR + 1 /\ lastNMR' = r /\ ~nmr'[r].ready
             /\ n # 0 => nmr'[n].phase # "live"
    <3>1. p = "conditions" /\ r \in Refs(x)
      BY <1>5, <2>3 DEF Refs
    <3>2. LostAreDead(x, merge, nmr')
      BY <1>5, <2>3 DEF LostAreDead, Refs
    <3>3. Fresh(x, stored) \subseteq {x.resolveMR}
      BY <1>2, <1>5 DEF Fresh, Refs
    <3>4. FreshOK(p, x, stored, at') /\ DroppedOK(p, x, at')
      BY <3>1, <3>3 DEF FreshOK, DroppedOK
    <3>5. CreatesFor(x)
      BY <2>3, <3>1 DEF CreatesFor
    <3> QED BY <1>1, <1>2, <1>5, <3>2, <3>4, <3>5, OrphansGoOn
  <2> QED BY <2>1, <2>2, <2>3
<1>6. ASSUME NEW r \in NMR
      PROVE  LET m == WithResolveMR(merge, r)
                 x == [m EXCEPT !.conditions.resolved = "False"]
                 y == [m EXCEPT !.conditions.resolved = "True"] IN
             /\ x.branches = merge.branches /\ x.resolveMR = r /\ x.finalMR = merge.finalMR
             /\ y.branches = merge.branches /\ y.resolveMR = r /\ y.finalMR = merge.finalMR
  BY <1>2 DEF WithResolveMR, Status
<1>7. ASSUME NEW r \in NMR, Obtains(n, s, build, TRUE, r),
             Return([WithResolveMR(merge, r) EXCEPT !.conditions.resolved = "False"])
      PROVE  OrphanInv'
  <2> DEFINE x == [WithResolveMR(merge, r) EXCEPT !.conditions.resolved = "False"]
  <2>1. /\ x.branches = merge.branches /\ x.resolveMR = r /\ x.finalMR = merge.finalMR
        /\ Goto("conditions", x)
    BY <1>6, <1>7 DEF Return
  <2> HIDE DEF x
  <2> QED BY <1>5, <1>7, <2>1
<1>8. ASSUME NEW r \in NMR, Obtains(n, s, build, TRUE, r), nmr'[r].ready,
             Goto("compare", [WithResolveMR(merge, r) EXCEPT !.conditions.resolved = "True"])
      PROVE  OrphanInv'
  <2> DEFINE x == [WithResolveMR(merge, r) EXCEPT !.conditions.resolved = "True"]
  <2>1. /\ x.branches = merge.branches /\ x.resolveMR = r /\ x.finalMR = merge.finalMR
        /\ Goto("compare", x)
    BY <1>6, <1>8
  <2> HIDE DEF x
  <2> QED BY <1>5, <1>8, <2>1
<1> QED BY <1>1, <1>4, <1>7, <1>8

LEMMA EnsureFinalMROrphans ==
  ConstantsOK /\ Inv /\ OrphanInv /\ EnsureFinalMR => OrphanInv'
<1> SUFFICES ASSUME ConstantsOK, Inv, OrphanInv, EnsureFinalMR PROVE OrphanInv'
  OBVIOUS
<1> DEFINE n == merge.finalMR
           auto == want.acceptFinalMR
<1>1. /\ ObjectsNext /\ faults' \in 0 .. MaxFaults /\ faults' >= faults
      /\ \/ Return(merge) /\ Loses(build, main, auto)
         \/ \E r \in NMR : /\ Obtains(n, build, main, auto, r)
                           /\ Goto("setAuto", WithFinalMR(merge, r))
  BY EnsuredFinalMR
<1>2. /\ pc = "finalMR" /\ UNCHANGED <<stored, at>> /\ TypeOK /\ ObjectsOK
      /\ Fresh(merge, stored) = {} /\ merge \in Status
  BY DEF EnsureFinalMR, Inv, OrphanInv, FreshOK, TypeOK
<1>3. SameRefs(merge, merge) /\ n \in 0 .. lastNMR
  BY <1>2, SameRefsCopies, RefsExist DEF Refs
<1> HIDE DEF auto
<1>4. CASE Return(merge) /\ Loses(build, main, auto)
  BY <1>1, <1>2, <1>3, <1>4, LostCreates, OrphansReturn
<1>5. ASSUME NEW r \in NMR, Obtains(n, build, main, auto, r),
             Goto("setAuto", WithFinalMR(merge, r))
      PROVE  OrphanInv'
  <2> DEFINE x == WithFinalMR(merge, r)
  <2>1. x.branches = merge.branches /\ x.resolveMR = merge.resolveMR /\ x.finalMR = r
    BY <1>2 DEF WithFinalMR, Status
  <2>2. Goto("setAuto", x)
    BY <1>5
  <2>3. \/ r = n /\ lastNMR' = lastNMR
        \/ /\ r = lastNMR + 1 /\ lastNMR' = r
           /\ n # 0 => nmr'[n].phase # "live"
    <3> HIDE DEF n
    <3> QED BY <1>2, <1>3, <1>5, ObtainedOrLost
  <2> HIDE DEF x
  <2>4. LostAreDead(x, merge, nmr')
    BY <2>1, <2>3 DEF LostAreDead, Refs
  <2>5. Fresh(x, stored) \subseteq {x.finalMR}
    BY <1>2, <2>1 DEF Fresh, Refs
  <2>6. CreatesFor(x)
    BY <2>1, <2>3 DEF CreatesFor, Refs
  <2>7. FreshOK("setAuto", x, stored, at') /\ DroppedOK("setAuto", x, at')
    BY <2>5 DEF FreshOK, DroppedOK
  <2> QED BY <1>1, <1>2, <2>2, <2>4, <2>6, <2>7, OrphansGoOn
<1> QED BY <1>1, <1>4, <1>5

LEMMA SetAutoAcceptOrphans ==
  ConstantsOK /\ Inv /\ OrphanInv /\ SetAutoAccept => OrphanInv'
<1> SUFFICES ASSUME ConstantsOK, Inv, OrphanInv, SetAutoAccept PROVE OrphanInv'
  OBVIOUS
<1>1. ObjectsNext /\ faults' \in 0 .. MaxFaults /\ faults' >= faults
  BY StepsGoOn DEF Step
<1>2. /\ pc = "setAuto" /\ UNCHANGED <<stored, lastNMR, at>>
      /\ Return(merge) \/ Return(Merged(merge))
  BY DEF SetAutoAccept
<1>3. SameRefs(merge, merge) /\ SameRefs(merge, Merged(merge))
  BY SameRefsCopies DEF Inv, TypeOK
<1> QED BY <1>1, <1>2, <1>3, OrphansReturn DEF CreatesFor

-----------------------------------------------------------------------------
(* The end of a reconcile.                                                 *)

LEMMA PatchConditionsOrphans ==
  ConstantsOK /\ Inv /\ OrphanInv /\ PatchConditions => OrphanInv'
<1> SUFFICES ASSUME ConstantsOK, Inv, OrphanInv, PatchConditions PROVE OrphanInv'
  OBVIOUS
<1>1. ObjectsNext /\ faults' \in 0 .. MaxFaults /\ faults' >= faults /\ faults' \in Nat
  BY StepsGoOn DEF Step, ConstantsOK
<1>2. /\ pc = "conditions" /\ pc' = "object" /\ UNCHANGED <<nmr, lastNMR, merge, at>>
      /\ stored \in Status
  BY DEF PatchConditions, Inv, TypeOK, objects
<1>3. Refs(stored') = Refs(stored) /\ (stored'.phase = "live" => stored.phase = "live")
  <2>1. \/ stored' = stored
        \/ \E c : stored' = [stored EXCEPT !.conditions = c]
    BY DEF PatchConditions
  <2> QED BY <1>2, <2>1 DEF Refs, Status
<1>4. Fresh(merge, stored') = Fresh(merge, stored) /\ LostAreDead(merge, stored', nmr')
  BY <1>2, <1>3 DEF Fresh, LostAreDead, OrphanInv
<1>5. FreshOK("object", merge, stored', at) /\ DroppedOK("object", merge, at)
  BY <1>2, <1>4 DEF OrphanInv, FreshOK, DroppedOK
<1>6. OrphansNeedFaults'
  <2>1. LostAreDead(merge', merge, nmr') /\ CreatesFor(merge')
    BY <1>2 DEF LostAreDead, CreatesFor
  <2> QED BY <1>1, <1>3, <2>1, OrphansMove
<1> QED BY <1>2, <1>4, <1>5, <1>6 DEF OrphanInv

\* At the end of a reconcile the copy is given up.
LEMMA DoneOrphans ==
  ASSUME ConstantsOK, Done, OrphansNeedFaults'
  PROVE  OrphanInv'
<1>1. pc' = "idle" /\ Refs(merge') = {0}
  BY DEF Done, NewStatus, Refs
<1>2. Fresh(merge', stored') = {}
  BY <1>1 DEF Fresh
<1> QED BY <1>1, <1>2 DEF OrphanInv, FreshOK, DroppedOK

\* The new objects of one reconcile are at most as many as there are branches.
LEMMA FreshNumber ==
  ASSUME ConstantsOK, Inv, FreshOK(pc, merge, stored, at)
  PROVE  /\ IsFiniteSet(Fresh(merge, stored))
         /\ Cardinality(Fresh(merge, stored)) <= Cardinality(Name)
<1> DEFINE new == Fresh(merge, stored)
<1>1. PICK F : /\ new \subseteq F /\ IsFiniteSet(F) /\ Cardinality(F) <= Cardinality(Name)
  <2>1. merge \in Status /\ Distinct(merge.branches)
    BY DEF Inv, TypeOK, Sound
  <2>2. IsFiniteSet(BranchRefs(merge)) /\ Cardinality(BranchRefs(merge)) <= Cardinality(Name)
    BY <2>1, BranchRefsNumber
  <2>3. \A x : IsFiniteSet({x}) /\ Cardinality({x}) <= Cardinality(Name)
    BY OneName
  <2>4. \/ new \subseteq BranchRefs(merge) \/ new \subseteq {merge.resolveMR}
        \/ new \subseteq {merge.finalMR}
    <3>1. new \subseteq BranchRefs(merge) \cup {merge.resolveMR, merge.finalMR}
      BY DEF Fresh, Refs, BranchRefs
    <3> HIDE DEF new
    <3>2. pc = "nmrs" => new \cap {merge.resolveMR, merge.finalMR} = {}
      BY DEF FreshOK, new
    <3>3. pc = "setAuto" => new \subseteq {merge.finalMR}
      BY DEF FreshOK, new
    <3>4. pc \notin {"nmrs", "setAuto", "conditions", "object"} => new = {}
      BY DEF FreshOK, new
    <3>5. pc \in {"conditions", "object"} =>
            \/ new \subseteq BranchRefs(merge) \/ new \subseteq {merge.resolveMR}
            \/ new \subseteq {merge.finalMR}
      BY DEF FreshOK, new
    <3> QED BY <3>1, <3>2, <3>3, <3>4, <3>5
  <2> HIDE DEF new
  <2> QED BY <2>2, <2>3, <2>4
<1> HIDE DEF new
<1>2. IsFiniteSet(new) /\ Cardinality(new) <= Cardinality(F)
  BY <1>1, FS_Subset
<1>3. Cardinality(new) \in Nat /\ Cardinality(F) \in Nat /\ Cardinality(Name) \in Nat
  BY <1>1, <1>2, FS_CardinalityType, NamesNumber
<1>4. IsFiniteSet(new) /\ Cardinality(new) <= Cardinality(Name)
  BY <1>1, <1>2, <1>3
<1> QED BY <1>4 DEF new

\* The copy is lost: so is what it newly refers to.
LEMMA CopyLost ==
  ASSUME ConstantsOK, Inv, OrphanInv, pc # "idle", Done, Fault, UNCHANGED <<stored, nmr>>
  PROVE  OrphanInv'
<1>1. Orphans' \subseteq Orphans \cup Fresh(merge, stored)
  <2>1. 0 \notin NMR
    BY DEF NMR
  <2> QED BY <2>1 DEF Orphans, Fresh
<1>2. /\ faults' = faults + 1 /\ faults' \in Nat /\ TypeOK /\ OrphansNeedFaults
      /\ FreshOK(pc, merge, stored, at)
  BY DEF Fault, Inv, TypeOK, OrphanInv, ConstantsOK
<1>3. OrphansNeedFaults'
  <2>1. CASE stored.phase = "live"
    <3> DEFINE F == Fresh(merge, stored)
    <3>1. IsFiniteSet(F) /\ Cardinality(F) <= Cardinality(Name)
      BY <1>2, FreshNumber
    <3> HIDE DEF F
    <3>2. Orphans' \subseteq Orphans \cup F
      BY <1>1 DEF F
    <3> QED BY <1>2, <2>1, <3>1, <3>2, Counted
  <2>2. CASE stored.phase # "live"
    BY <2>2 DEF OrphansNeedFaults
  <2> QED BY <2>1, <2>2
<1> QED BY <1>3, DoneOrphans

LEMMA PatchObjectOrphans ==
  ConstantsOK /\ Inv /\ OrphanInv /\ PatchObject => OrphanInv'
<1> SUFFICES ASSUME ConstantsOK, Inv, OrphanInv, PatchObject PROVE OrphanInv'
  OBVIOUS
<1>1. /\ pc = "object" /\ Done /\ UNCHANGED <<nmr, lastNMR>> /\ stored \in Status
      /\ merge \in Status /\ TypeOK /\ OrphansNeedFaults /\ faults \in Nat
  BY DEF PatchObject, objects, Inv, TypeOK, OrphanInv, ConstantsOK
<1>2. CASE stored' = Patched(stored, merge) /\ UNCHANGED faults
  <2>1. /\ Refs(stored') = Refs(merge) /\ (stored'.phase = "live" => stored.phase = "live")
    BY <1>1, <1>2 DEF Refs, Patched, Status
  <2>2. Orphans' \subseteq Orphans \cup {}
    <3> SUFFICES ASSUME NEW n \in Orphans' PROVE n \in Orphans
      OBVIOUS
    <3>1. n \in NMR /\ nmr[n].phase = "live" /\ n \notin Refs(merge) /\ n # 0
      BY <1>1, <2>1 DEF Orphans, NMR
    <3>2. n \notin Refs(stored)
      BY <1>1, <3>1 DEF OrphanInv, LostAreDead
    <3> QED BY <3>1, <3>2 DEF Orphans
  <2>3. OrphansNeedFaults'
    <3>1. CASE stored'.phase = "live"
      <4>1. IsFiniteSet({}) /\ faults' \in Nat /\ faults' >= faults
        BY <1>1, <1>2, FS_EmptySet
      <4> QED BY <1>1, <2>1, <2>2, <3>1, <4>1, Counted
    <3>2. CASE stored'.phase # "live"
      BY <3>2 DEF OrphansNeedFaults
    <3> QED BY <3>1, <3>2
  <2> QED BY <1>1, <2>3, DoneOrphans
<1>3. CASE ~Stored /\ UNCHANGED stored
  <2>1. stored'.phase # "live"
    BY <1>3 DEF Stored
  <2> QED BY <1>1, <2>1, DoneOrphans DEF OrphansNeedFaults
<1>4. CASE Fault /\ UNCHANGED stored
  BY <1>1, <1>4, CopyLost
<1> QED BY <1>2, <1>3, <1>4 DEF PatchObject

LEMMA CrashOrphans == ConstantsOK /\ Inv /\ OrphanInv /\ Crash => OrphanInv'
BY CopyLost DEF Crash, objects

-----------------------------------------------------------------------------
(* The start of a reconcile, and everybody else.                           *)

LEMMA ReconcileOrphans == ConstantsOK /\ Inv /\ OrphanInv /\ Reconcile => OrphanInv'
<1> SUFFICES ASSUME ConstantsOK, Inv, OrphanInv, Reconcile PROVE OrphanInv'
  OBVIOUS
<1>1. ObjectsNext /\ faults' \in 0 .. MaxFaults /\ faults' >= faults /\ faults' \in Nat
  BY ReconcileKeeps DEF Keeps, ConstantsOK
<1>2. /\ pc = "idle" /\ merge = NewStatus /\ at' = 1 /\ UNCHANGED <<stored, lastNMR>>
      /\ stored \in Status
  BY DEF Reconcile, objects, Inv, StepOK, TypeOK
<1>3. /\ SameRefs(stored, merge')
      /\ pc' \in {"dropResolveBranch", "branches", "conditions"}
  BY <1>2 DEF Reconcile, Return, Goto, SameRefs, Status
<1>4. Refs(merge) = {0}
  BY <1>2 DEF NewStatus, Refs
<1>5. LostAreDead(merge', stored, nmr') /\ Fresh(merge', stored) = {}
  BY <1>3 DEF SameRefs, LostAreDead, Fresh, Refs
<1>6. OrphansNeedFaults'
  <2>1. LostAreDead(merge', merge, nmr') /\ CreatesFor(merge')
    BY <1>2, <1>4 DEF LostAreDead, CreatesFor
  <2> QED BY <1>1, <1>2, <2>1, OrphansMove
<1>7. FreshOK(pc', merge', stored, 1) /\ DroppedOK(pc', merge', 1)
  BY <1>3, <1>5 DEF FreshOK, DroppedOK
<1> QED BY <1>2, <1>5, <1>6, <1>7 DEF OrphanInv

\* Nobody but the worker creates objects.
LEMMA OthersCreateNothing == Others => lastNMR' = lastNMR
BY DEF Others, Settling, Accept, FindConflict, Reports, ReportReady, ReportProcessed,
       ReportConflict, Vanish, Failing, FailToRemove, Reopen, Retract, CollectGarbage, Users,
       ChangeSpec, DeleteMerge, UserMerges, UserCloses, UserRemovesBranch, UserPushes,
       PushResolution, objects

LEMMA OthersOrphans == ConstantsOK /\ Inv /\ OrphanInv /\ Others => OrphanInv'
<1> SUFFICES ASSUME ConstantsOK, Inv, OrphanInv, Others PROVE OrphanInv'
  OBVIOUS
<1>1. ObjectsNext /\ OthersLeave /\ lastNMR' = lastNMR
  BY OthersObjects, OthersFrame, OthersCreateNothing DEF Inv
<1>2. /\ UNCHANGED <<pc, merge, at>> /\ faults' \in Nat /\ faults' >= faults
      /\ stored \in Status
  BY <1>1 DEF OthersLeave, worker, Inv, TypeOK, ConstantsOK
<1>3. Refs(stored') = Refs(stored) /\ (stored'.phase = "live" => stored.phase = "live")
  BY <1>1, <1>2 DEF OthersLeave, Refs, Status
<1>4. OrphansNeedFaults'
  <2>1. LostAreDead(merge', merge, nmr') /\ CreatesFor(merge')
    BY <1>1, <1>2 DEF LostAreDead, CreatesFor
  <2> QED BY <1>1, <1>2, <1>3, <2>1, OrphansMove
<1>5. pc # "idle" => LostAreDead(merge, stored', nmr')
  <2>1. LostAreDead(merge, merge, nmr')
    BY DEF LostAreDead
  <2>2. pc # "idle" => LostAreDead(merge, stored, nmr')
    BY <1>1, <2>1, LostStayDead DEF OrphanInv
  <2> QED BY <1>3, <2>2 DEF LostAreDead
<1>6. Fresh(merge, stored') = Fresh(merge, stored)
  BY <1>3 DEF Fresh
<1>7. FreshOK(pc, merge, stored', at) /\ DroppedOK(pc, merge, at)
  BY <1>6 DEF OrphanInv, FreshOK
<1> QED BY <1>2, <1>4, <1>5, <1>7 DEF OrphanInv

LEMMA OrphanInit == ConstantsOK /\ Init => OrphanInv
<1> SUFFICES ASSUME ConstantsOK, Init PROVE OrphanInv
  OBVIOUS
<1>1. Refs(merge) = {0} /\ pc = "idle"
  BY DEF Init, NewStatus, Refs
<1>2. Fresh(merge, stored) = {}
  BY <1>1 DEF Fresh
<1>3. Orphans = {}
  <2>1. \A n \in NMR : nmr[n].phase = "none"
    BY DEF Init, NoNMR
  <2> QED BY <2>1 DEF Orphans
<1>4. Cardinality(Orphans) = 0 /\ Cardinality(Name) \in Nat /\ faults = 0
  BY <1>3, NamesNumber, FS_EmptySet DEF Init
<1>5. OrphansNeedFaults
  BY <1>4 DEF OrphansNeedFaults
<1> QED BY <1>1, <1>2, <1>5 DEF OrphanInv, FreshOK, DroppedOK

LEMMA OrphanNext == ConstantsOK /\ Inv /\ OrphanInv /\ [Next]_vars => OrphanInv'
<1> SUFFICES ASSUME ConstantsOK, Inv, OrphanInv, [Next]_vars PROVE OrphanInv'
  OBVIOUS
<1>1. CASE Step
  BY <1>1, DropResolveBranchOrphans, DropResolveMROrphans, DropFinalMROrphans,
     DropBuildOrphans, DropBranchMRsOrphans, AddBranchesToStatusOrphans,
     GetOrCreateBuildBranchOrphans, EnsureBranchMROrphans, JudgeOrphans,
     RecreateBuildOrphans, CreateBuildOrphans, GetOrCreateResolveBranchOrphans,
     EnsureResolveMROrphans, CompareWithMainOrphans, CreateFinalTagOrphans,
     EnsureFinalMROrphans, SetAutoAcceptOrphans, PatchConditionsOrphans,
     PatchObjectOrphans
     DEF Step
<1>2. CASE Reconcile
  BY <1>2, ReconcileOrphans
<1>3. CASE Crash
  BY <1>3, CrashOrphans
<1>4. CASE Others
  BY <1>4, OthersOrphans
<1>5. CASE UNCHANGED vars
  <2>1. UNCHANGED <<stored, nmr, pc, merge, at, faults>>
    BY <1>5 DEF vars, objects, worker, bounds
  <2>2. OrphansNeedFaults'
    BY <2>1 DEF OrphanInv, OrphansNeedFaults, Orphans
  <2> QED BY <2>1, <2>2 DEF OrphanInv
<1> QED BY <1>1, <1>2, <1>3, <1>4, <1>5 DEF Next, Others

\* However often the reconcile is repeated, without failures no object that
\* goes on merging is lost track of; a failed patch or a crash loses at most
\* one for each branch (merge_controller.go:396-425, 489-516, 536-560).
THEOREM FewOrphans == Spec => []OrphansNeedFaults
<1>1. Init => OrphanInv
  BY ConstantsOK, OrphanInit
<1>2. Inv /\ OrphanInv /\ [Next]_vars => OrphanInv'
  BY ConstantsOK, OrphanNext
<1>3. OrphanInv => OrphansNeedFaults
  BY DEF OrphanInv
<1> QED BY <1>1, <1>2, <1>3, Invariance, PTL DEF Spec

=============================================================================
