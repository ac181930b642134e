---------------------------- MODULE VersionsProofs ----------------------------
(***************************************************************************)
(* What holds of the versions of one project for any number of Merge       *)
(* objects, failures and changes of branches, as long as the project has   *)
(* fewer than a hundred versions: in the states where it has, or for a     *)
(* MaxTag below a hundred.                                                 *)
(***************************************************************************)
EXTENDS Versions, FiniteSetTheorems, WellFoundedInduction, TLAPS

-----------------------------------------------------------------------------
(* The latest version on the page.                                         *)

\* There is a latest version among any.
LEMMA LatestExists ==
  ASSUME ConstantsOK, NEW P, P \subseteq Version, P # {}
  PROVE  Latest(P) \in P /\ \A k \in P : k <= Latest(P)
<1> DEFINE T == {x \in Nat : \E n \in P : x = MaxTag - n}
<1>1. \A n \in P : MaxTag - n \in Nat /\ n \in Nat
  BY DEF ConstantsOK, Version
<1>2. T \subseteq Nat /\ T # {}
  BY <1>1
<1>3. PICK x \in T : \A y \in T : <<y, x>> \notin {ss \in Nat \X Nat : ss[1] < ss[2]}
  <2>1. IsWellFoundedOn({ss \in Nat \X Nat : ss[1] < ss[2]}, Nat)
    BY NatLessThanWellFounded, Zenon DEF OpToRel
  <2> HIDE DEF T
  <2> QED BY <1>2, <2>1, WFMin, Zenon
<1>4. \A y \in T : ~(y < x)
  BY <1>2, <1>3
<1>5. PICK n \in P : x = MaxTag - n
  OBVIOUS
<1>6. \A k \in P : k <= n
  <2> TAKE k \in P
  <2>1. MaxTag - k \in T
    BY <1>1
  <2>2. ~(MaxTag - k < MaxTag - n)
    BY <1>4, <1>5, <2>1
  <2> QED BY <1>1, <2>2 DEF ConstantsOK
<1> QED BY <1>6 DEF Latest

\* A page that holds the names of nine versions.
WidePage == PageSize > 8

\* Never as many as a hundred versions.
Few == MaxTag < 100 /\ WidePage

\* Of two versions below a hundred, the lesser has the later name only if it
\* has one digit, and that is not 1.
LEMMA LaterName ==
  ASSUME NEW n \in 1 .. 99, NEW k \in 1 .. 99, k <= n, NameLess(n, k)
  PROVE  k \in 2 .. 9
<1>1. CASE n < 10
  <2>1. Digits(n) = <<n>> /\ Digits(k) = <<k>>
    BY <1>1 DEF Digits
  <2> QED BY <2>1 DEF NameLess
<1>2. CASE n >= 10 /\ k < 10
  <2>1. Digits(n) = <<n \div 10, n % 10>> /\ Digits(k) = <<k>>
    BY <1>2 DEF Digits
  <2>2. n \div 10 < k
    BY <2>1 DEF NameLess
  <2>3. n \div 10 >= 1
    BY <1>2
  <2> QED BY <1>2, <2>2, <2>3
<1>3. CASE n >= 10 /\ k >= 10
  <2>1. Digits(n) = <<n \div 10, n % 10>> /\ Digits(k) = <<k \div 10, k % 10>>
    BY <1>3 DEF Digits
  <2>2. n \div 10 < k \div 10 \/ (n \div 10 = k \div 10 /\ n % 10 < k % 10)
    BY <2>1 DEF NameLess
  <2> QED BY <1>3, <2>2
<1> QED BY <1>1, <1>2, <1>3

\* With fewer than a hundred the latest version is on the page, and the next one is later than all.
LEMMA NextIsLater ==
  ASSUME ConstantsOK, WidePage, UnderHundred
  PROVE  /\ NextVersion \in Nat \ {0}
         /\ \A k \in Existing : k < NextVersion
<1>1. /\ Existing \subseteq Version /\ Page \subseteq Existing
      /\ Existing \subseteq 1 .. 99
  BY DEF Existing, Page, Version, UnderHundred, ConstantsOK
<1>2. CASE Existing = {}
  BY <1>1, <1>2 DEF NextVersion
<1>3. CASE Existing # {}
  <2> DEFINE top == Latest(Existing)
             later == After[top] \cap Existing
  <2>1. top \in Existing /\ \A k \in Existing : k <= top
    BY <1>1, <1>3, LatestExists
  <2> HIDE DEF top
  <2>2. later \subseteq 2 .. 9
    BY <1>1, <2>1, LaterName DEF After
  <2>3. Cardinality(later) <= 8
    <3>1. IsFiniteSet(2 .. 9) /\ Cardinality(2 .. 9) = 8
      <4>1. 2 \in Int /\ 9 \in Int
        OBVIOUS
      <4>2. IsFiniteSet(2 .. 9)
            /\ Cardinality(2 .. 9) = IF 2 > 9 THEN 0 ELSE 9 - 2 + 1
        BY <4>1, FS_Interval
      <4> QED BY <4>2
    <3> HIDE DEF later
    <3>2. Cardinality(later) <= Cardinality(2 .. 9)
      BY <2>2, <3>1, FS_Subset
    <3> QED BY <3>1, <3>2
  <2>4. top \in Page
    <3>1. IsFiniteSet(later) /\ Cardinality(later) \in Nat
      <4>0. 2 \in Int /\ 9 \in Int
        OBVIOUS
      <4>1. IsFiniteSet(2 .. 9)
        BY <4>0, FS_Interval
      <4> HIDE DEF later
      <4>2. IsFiniteSet(later)
        BY <2>2, <4>1, FS_Subset
      <4> QED BY <4>2, FS_CardinalityType
    <3>2. Cardinality(later) < PageSize
      BY <2>3, <3>1 DEF WidePage, ConstantsOK
    <3> QED BY <2>1, <3>2 DEF Page
  <2>5. Latest(Page) \in Page /\ \A k \in Page : k <= Latest(Page)
    BY <1>1, <2>4, LatestExists
  <2>6. NextVersion = Latest(Page) + 1 /\ Latest(Page) \in 1 .. 99 /\ top \in 1 .. 99
    BY <1>1, <2>4, <2>5 DEF NextVersion
  <2>7. \A k \in Existing : k \in 1 .. 99 /\ k <= top /\ top <= Latest(Page)
    BY <1>1, <2>1, <2>4, <2>5
  <2> QED BY <2>6, <2>7
<1> QED BY <1>2, <1>3

-----------------------------------------------------------------------------
(* Type correctness, and the order of the releases: what is built was      *)
(* stored, what is stored was asked for, and what is asked for beyond the  *)
(* first release was edited.                                               *)

\* A release is built after it is stored, and stored after it is asked for; a copy
\* is between what is stored and what was read.
Ordered ==
  /\ \A m \in Merges : /\ built[m] <= stored[m].release /\ stored[m].release <= asked[m]
                       /\ 1 <= asked[m] /\ asked[m] <= edits + 1
  /\ pc # "idle" =>
       /\ stored[cur].release <= copy.release /\ copy.release <= want
       /\ 1 <= want /\ want <= asked[cur]
  /\ pc = "drop" => copy = stored[cur] /\ stored[cur].release < want
  /\ pc \in {"list", "get", "create"} =>
       /\ copy.release = stored[cur].release /\ built[cur] = copy.release /\ 1 <= copy.release
  /\ pc = "finalMR" => 1 <= copy.release

\* Type correctness needs the order: a release that were not asked for yet would
\* be none.
TInv == TypeOK /\ Ordered

\* What the code changes of a status.
LEMMA StatusType ==
  ASSUME ConstantsOK, NEW c \in Status
  PROVE  /\ \A t \in 0 .. MaxTag : [c EXCEPT !.tag = t] \in Status
         /\ [c EXCEPT !.finalMR = TRUE] \in Status
         /\ \A r \in Release : [Forgotten(c) EXCEPT !.release = r] \in Status
         /\ NewStatus \in Status
<1>0. 0 \in Release /\ 0 \in 0 .. MaxTag
  BY DEF Release, ConstantsOK
<1>1. NewStatus \in Status /\ [c EXCEPT !.finalMR = TRUE] \in Status
  BY <1>0 DEF Status, NewStatus
<1>2. \A t \in 0 .. MaxTag : [c EXCEPT !.tag = t] \in Status
  BY DEF Status
<1>3. Forgotten(c) \in Status
  BY <1>0 DEF Status, Forgotten
<1>4. \A r \in Release : [Forgotten(c) EXCEPT !.release = r] \in Status
  BY <1>3 DEF Status
<1> QED BY <1>1, <1>2, <1>4

LEMMA TInvInit == ASSUME ConstantsOK, Init PROVE TInv
<1>1. TypeOK
  BY DEF Init, TypeOK, ConstantsOK, Release, Status, NewStatus, Version, Commit, Tagged, Untagged
<1>2. Ordered
  BY DEF Init, Ordered, NewStatus
<1> QED BY <1>1, <1>2 DEF TInv

\* With a fault, and without one, the number of faults stays within its bound.
LEMMA FaultType ==
  ASSUME ConstantsOK, TypeOK, UNCHANGED faults \/ Fault
  PROVE  faults' \in 0 .. MaxFaults
BY DEF TypeOK, Fault, ConstantsOK

\* What does not concern the worker and the status of Merge objects.
LEMMA TInvOthers ==
  ASSUME ConstantsOK, TInv,
         \/ \E m \in Merges : MergeBranches(m) \/ ChangeBranches(m)
         \/ UserTags \/ \E o \in {"above", "below"} : UserTagsOther(o)
  PROVE  TInv'
<1> USE DEF TInv, worker, bounds, gitlab
<1>1. ASSUME NEW m \in Merges, MergeBranches(m) PROVE TInv'
  <2>1. TypeOK'
    BY <1>1 DEF MergeBranches, TypeOK, Status
  <2>2. Ordered'
    BY <1>1 DEF MergeBranches, TypeOK, Ordered, Status, Release, ConstantsOK
  <2> QED BY <2>1, <2>2
<1>2. ASSUME NEW m \in Merges, ChangeBranches(m) PROVE TInv'
  <2>1. edits \in Nat /\ edits' = edits + 1 /\ edits < MaxEdits /\ asked[m] \in Nat
    BY <1>2 DEF ChangeBranches, TypeOK, Release, ConstantsOK
  <2>2. \A k \in Merges : asked'[k] = IF k = m THEN asked[k] + 1 ELSE asked[k]
    BY <1>2 DEF ChangeBranches, TypeOK
  <2>3. asked[m] + 1 \in Release
    BY <2>1 DEF Ordered, Release, ConstantsOK
  <2>4. TypeOK'
    BY <1>2, <2>1, <2>3 DEF ChangeBranches, TypeOK, ConstantsOK
  <2>5. Ordered'
    BY <1>2, <2>1, <2>2 DEF ChangeBranches, TypeOK, Ordered, Status, Release, ConstantsOK
  <2> QED BY <2>4, <2>5
<1>3. ASSUME UserTags \/ \E o \in {"above", "below"} : UserTagsOther(o) PROVE TInv'
  <2>1. /\ UNCHANGED <<asked, stored, built, pc, cur, copy, want, version, faults, edits>>
        /\ meddling' = meddling + 1 /\ meddling < MaxMeddling
    BY <1>3 DEF UserTags, UserTagsOther, Meddle
  <2>2. Tagged(Nobody, 0) \in Commit
    BY DEF Tagged, Commit, Release, ConstantsOK
  <2>3. tags' \in [Version -> Commit \cup {Untagged}] /\ others' \subseteq {"above", "below"}
    BY <1>3, <2>2 DEF UserTags, UserTagsOther, TypeOK
  <2>4. TypeOK'
    BY <2>1, <2>3 DEF TypeOK, ConstantsOK
  <2>5. Ordered'
    BY <2>1 DEF Ordered
  <2> QED BY <2>4, <2>5
<1> QED BY <1>1, <1>2, <1>3

LEMMA TInvReconcile ==
  ASSUME ConstantsOK, TInv, NEW m \in Merges, Reconcile(m)
  PROVE  TInv'
<1> USE DEF TInv, bounds, gitlab
<1>1. /\ UNCHANGED <<asked, stored, built, tags, others, faults, edits, meddling>>
      /\ cur' = m /\ want' = asked[m] /\ copy' = stored[m] /\ stored[m] \in Status
      /\ m # Nobody
  BY DEF Reconcile, ToTag, Goto, Return, TypeOK, ConstantsOK
<1>2. \/ pc' = "drop" /\ stored[m].release # asked[m] /\ version' = version
      \/ /\ pc' \in {"patch", "list", "get"} /\ stored[m].release = asked[m]
         /\ version' = stored[m].tag
         /\ pc' # "patch" => built[m] = stored[m].release
         /\ pc' = "get" => stored[m].tag # 0
  BY <1>1 DEF Reconcile, ToTag, Goto, Return
<1>a. pc' = "get" => version' \in Version
  BY <1>1, <1>2 DEF Status, Version, ConstantsOK
<1>3. TypeOK'
  BY <1>1, <1>2, <1>a DEF TypeOK, Status
<1>4. Ordered'
  <2>1. /\ stored[m].release \in Nat /\ asked[m] \in Nat
        /\ stored[m].release <= asked[m] /\ 1 <= asked[m]
    BY <1>1 DEF TypeOK, Ordered, Status, Release, ConstantsOK
  <2> QED BY <1>1, <1>2, <2>1 DEF Ordered
<1> QED BY <1>3, <1>4

\* What the worker's steps leave alone, and how far each of them goes on.
Inside == UNCHANGED <<asked, stored, built, others, cur, want, edits, meddling>>

LEMMA TInvInside ==
  ASSUME ConstantsOK, TInv, pc # "idle", pc' # "idle", Inside,
         faults' \in 0 .. MaxFaults, tags' \in [Version -> Commit \cup {Untagged}],
         pc' \in {"list", "get", "create", "finalMR", "patch"}, copy' \in Status,
         version' \in 0 .. MaxTag, stored[cur].release <= copy'.release, copy'.release <= want,
         pc' \in {"get", "create", "finalMR"} => version' \in Version,
         pc' \in {"list", "get", "create"} =>
           /\ copy'.release = stored[cur].release /\ built[cur] = copy'.release
           /\ 1 <= copy'.release,
         pc' = "finalMR" => 1 <= copy'.release
  PROVE  TInv'
<1>1. TypeOK'
  BY DEF TInv, TypeOK, Inside
<1>2. Ordered'
  BY DEF TInv, Ordered, Inside
<1> QED BY <1>1, <1>2 DEF TInv

\* The status a reconcile goes on with after the final merge request is gone.
LEMMA TInvDrop ==
  ASSUME ConstantsOK, TInv, DropFinalMR
  PROVE  /\ TInv' /\ pc = "drop" /\ pc' = "patch" /\ Inside /\ UNCHANGED tags
         /\ UNCHANGED faults \/ faults' = faults + 1
         /\ \/ copy' = [Forgotten(copy) EXCEPT !.release = want] /\ UNCHANGED faults
            \/ copy' = copy /\ faults' = faults + 1
<1> DEFINE c == [Forgotten(copy) EXCEPT !.release = want]
<1> USE DEF TInv, bounds, gitlab
<1>1. /\ pc = "drop" /\ Inside /\ UNCHANGED tags /\ cur \in Merges /\ cur' = cur
      /\ copy \in Status /\ want \in Release /\ version \in 0 .. MaxTag
      /\ stored[cur].release < want /\ built[cur] <= stored[cur].release
      /\ copy.release <= want
  BY DEF DropFinalMR, Inside, TypeOK, Ordered
<1>2. c \in Status /\ c.release = want
  BY <1>1, StatusType DEF Forgotten, Status
<1>3. built[cur] \in Nat /\ stored[cur].release \in Nat /\ want \in Nat
  BY <1>1 DEF TypeOK, Status, Release, ConstantsOK
<1>4. built[cur] # want
  BY <1>1, <1>3
<1> HIDE DEF c
<1>5. \/ copy' = c /\ pc' = "patch" /\ version' = c.tag /\ UNCHANGED faults
      \/ copy' = copy /\ pc' = "patch" /\ version' = version /\ Fault
  BY <1>1, <1>2, <1>4 DEF DropFinalMR, ToTag, Goto, Return, c
<1>6. c.tag \in 0 .. MaxTag
  BY <1>2 DEF Status
<1>7. faults' \in 0 .. MaxFaults
  BY <1>5, FaultType
<1>8. /\ stored[cur].release <= copy'.release /\ copy'.release <= want
  BY <1>1, <1>2, <1>3, <1>5 DEF Ordered
<1>9. TInv'
  <2>1. /\ pc # "idle" /\ pc' = "patch" /\ copy' \in Status /\ version' \in 0 .. MaxTag
        /\ tags' \in [Version -> Commit \cup {Untagged}]
    BY <1>1, <1>2, <1>5, <1>6 DEF TypeOK
  <2> HIDE DEF TInv
  <2> QED BY <1>1, <1>7, <1>8, <2>1, TInvInside
<1> QED BY <1>1, <1>5, <1>9 DEF c, Fault

LEMMA TInvListTags ==
  ASSUME ConstantsOK, TInv, ListTags
  PROVE  /\ TInv' /\ pc = "list" /\ Inside /\ UNCHANGED tags /\ copy' = copy
         /\ UNCHANGED faults \/ faults' = faults + 1
         /\ \/ pc' = "patch"
            \/ /\ pc' = "get" /\ UNCHANGED faults /\ version' = NextVersion
               /\ NextVersion \in Version
<1> USE DEF TInv, bounds, gitlab
<1>1. NextVersion \in Nat \ {0}
  <2>1. Page \subseteq Version
    BY DEF Page, Existing
  <2>2. Page # {} => Latest(Page) \in Version
    BY <2>1, LatestExists
  <2> QED BY <2>2 DEF NextVersion, Version
<1>2. /\ pc = "list" /\ Inside /\ UNCHANGED tags /\ copy' = copy
      /\ UNCHANGED faults \/ Fault
      /\ \/ pc' = "patch" /\ version' = version
         \/ /\ pc' = "get" /\ UNCHANGED faults /\ version' = NextVersion
            /\ NextVersion <= MaxTag
  BY DEF ListTags, Inside, Goto, Return
<1>3. NextVersion <= MaxTag => NextVersion \in Version /\ NextVersion \in 0 .. MaxTag
  BY <1>1 DEF Version, ConstantsOK
<1>4. faults' \in 0 .. MaxFaults
  BY <1>2, FaultType
<1>5. /\ tags' \in [Version -> Commit \cup {Untagged}] /\ copy' \in Status
      /\ version' \in 0 .. MaxTag /\ (pc' = "get" => version' \in Version)
      /\ stored[cur].release <= copy'.release /\ copy'.release <= want
      /\ copy'.release = stored[cur].release /\ built[cur] = copy'.release
      /\ 1 <= copy'.release
  BY <1>2, <1>3 DEF TypeOK, Ordered
<1>6. TInv'
  <2> HIDE DEF TInv
  <2> QED BY <1>2, <1>4, <1>5, TInvInside
<1> QED BY <1>2, <1>3, <1>6 DEF Fault

LEMMA TInvGetTag ==
  ASSUME ConstantsOK, TInv, GetTag
  PROVE  /\ TInv' /\ pc = "get" /\ Inside /\ UNCHANGED <<tags, version>>
         /\ UNCHANGED faults \/ faults' = faults + 1
         /\ \/ /\ pc' = "finalMR" /\ ~Free(version) /\ copy' = [copy EXCEPT !.tag = version]
               /\ UNCHANGED faults
            \/ pc' = "create" /\ Free(version) /\ copy' = copy /\ UNCHANGED faults
            \/ pc' = "patch" /\ copy' = copy /\ faults' = faults + 1
<1> USE DEF TInv, bounds, gitlab
<1>1. /\ pc = "get" /\ Inside /\ UNCHANGED <<tags, version>>
      /\ UNCHANGED faults \/ Fault
      /\ \/ /\ pc' = "finalMR" /\ ~Free(version) /\ copy' = [copy EXCEPT !.tag = version]
            /\ UNCHANGED faults
         \/ pc' = "create" /\ Free(version) /\ copy' = copy /\ UNCHANGED faults
         \/ pc' = "patch" /\ copy' = copy /\ Fault
  BY DEF GetTag, Inside, Goto, Return
<1>2. copy \in Status /\ version \in 0 .. MaxTag
  BY DEF TypeOK
<1>3. copy' \in Status /\ copy'.release = copy.release
  BY <1>1, <1>2, StatusType DEF Status
<1>4. faults' \in 0 .. MaxFaults
  BY <1>1, FaultType
<1>5. /\ tags' \in [Version -> Commit \cup {Untagged}] /\ version' \in 0 .. MaxTag
      /\ version' \in Version
      /\ stored[cur].release <= copy'.release /\ copy'.release <= want
      /\ copy'.release = stored[cur].release /\ built[cur] = copy'.release
      /\ 1 <= copy'.release
  BY <1>1, <1>3 DEF TypeOK, Ordered
<1>6. TInv'
  <2> HIDE DEF TInv
  <2> QED BY <1>1, <1>3, <1>4, <1>5, TInvInside
<1> QED BY <1>1, <1>6 DEF Fault

LEMMA TInvCreateTag ==
  ASSUME ConstantsOK, TInv, CreateTag
  PROVE  /\ TInv' /\ pc = "create" /\ Inside /\ UNCHANGED version
         /\ UNCHANGED faults \/ faults' = faults + 1
         /\ \/ /\ Free(version) /\ tags' = [tags EXCEPT ![version] = Tagged(cur, built[cur])]
               /\ \/ /\ pc' = "finalMR" /\ copy' = [copy EXCEPT !.tag = version]
                     /\ UNCHANGED faults
                  \/ pc' = "patch" /\ copy' = copy /\ faults' = faults + 1
            \/ /\ pc' = "patch" /\ copy' = copy /\ UNCHANGED tags
               /\ ~Free(version) \/ faults' = faults + 1
<1> USE DEF TInv, bounds, gitlab
<1>1. /\ pc = "create" /\ Inside /\ UNCHANGED version
      /\ UNCHANGED faults \/ Fault
      /\ \/ /\ Free(version) /\ tags' = [tags EXCEPT ![version] = Tagged(cur, built[cur])]
            /\ \/ /\ pc' = "finalMR" /\ copy' = [copy EXCEPT !.tag = version]
                  /\ UNCHANGED faults
               \/ pc' = "patch" /\ copy' = copy /\ Fault
         \/ /\ pc' = "patch" /\ copy' = copy /\ UNCHANGED tags
            /\ ~Free(version) \/ Fault
  BY DEF CreateTag, Inside, Goto, Return, Answered
<1>2. copy \in Status /\ version \in 0 .. MaxTag /\ cur \in Merges
  BY <1>1 DEF TypeOK
<1>3. copy' \in Status /\ copy'.release = copy.release
  BY <1>1, <1>2, StatusType DEF Status
<1>4. faults' \in 0 .. MaxFaults
  BY <1>1, FaultType
<1>5. tags' \in [Version -> Commit \cup {Untagged}]
  <2>1. Tagged(cur, built[cur]) \in Commit
    BY <1>2 DEF TypeOK, Tagged, Commit
  <2> QED BY <1>1, <2>1 DEF TypeOK
<1>6. /\ version' \in 0 .. MaxTag /\ version' \in Version
      /\ stored[cur].release <= copy'.release /\ copy'.release <= want
      /\ copy'.release = stored[cur].release /\ built[cur] = copy'.release
      /\ 1 <= copy'.release
  BY <1>1, <1>3 DEF TypeOK, Ordered
<1>7. TInv'
  <2> HIDE DEF TInv
  <2> QED BY <1>1, <1>3, <1>4, <1>5, <1>6, TInvInside
<1> QED BY <1>1, <1>7 DEF Fault

LEMMA TInvEnsureFinalMR ==
  ASSUME ConstantsOK, TInv, EnsureFinalMR
  PROVE  /\ TInv' /\ pc = "finalMR" /\ pc' = "patch" /\ Inside /\ UNCHANGED <<tags, version>>
         /\ UNCHANGED faults \/ faults' = faults + 1
         /\ \/ copy' = [copy EXCEPT !.finalMR = TRUE]
            \/ copy' = copy /\ faults' = faults + 1
<1> USE DEF TInv, bounds, gitlab
<1>1. /\ pc = "finalMR" /\ pc' = "patch" /\ Inside /\ UNCHANGED <<tags, version>>
      /\ UNCHANGED faults \/ Fault
      /\ copy' = [copy EXCEPT !.finalMR = TRUE] \/ (copy' = copy /\ Fault)
  BY DEF EnsureFinalMR, Inside, Goto, Return, Answered
<1>2. copy' \in Status /\ copy'.release = copy.release
  BY <1>1, StatusType DEF Status, TypeOK
<1>3. faults' \in 0 .. MaxFaults
  BY <1>1, FaultType
<1>4. /\ tags' \in [Version -> Commit \cup {Untagged}] /\ version' \in 0 .. MaxTag
      /\ stored[cur].release <= copy'.release /\ copy'.release <= want
  BY <1>1, <1>2 DEF TypeOK, Ordered
<1>5. TInv'
  <2> HIDE DEF TInv
  <2> QED BY <1>1, <1>2, <1>3, <1>4, TInvInside
<1> QED BY <1>1, <1>5 DEF Fault

LEMMA TInvPatch ==
  ASSUME ConstantsOK, TInv, PatchStatus \/ Crash
  PROVE  /\ TInv' /\ pc # "idle" /\ pc' = "idle" /\ cur' = Nobody /\ copy' = NewStatus
         /\ UNCHANGED <<asked, built, tags, others, edits, meddling>>
         /\ UNCHANGED faults \/ faults' = faults + 1
         /\ \/ pc = "patch" /\ stored' = [stored EXCEPT ![cur] = copy]
            \/ stored' = stored /\ faults' = faults + 1
<1> USE DEF TInv, bounds, gitlab
<1>1. /\ pc # "idle" /\ cur \in Merges /\ copy \in Status
      /\ pc' = "idle" /\ cur' = Nobody /\ copy' = NewStatus /\ want' = 0 /\ version' = 0
      /\ UNCHANGED <<asked, built, tags, others, edits, meddling>>
      /\ UNCHANGED faults \/ Fault
      /\ \/ pc = "patch" /\ stored' = [stored EXCEPT ![cur] = copy]
         \/ stored' = stored /\ Fault
  BY DEF PatchStatus, Crash, Done, TypeOK
<1>2. faults' \in 0 .. MaxFaults
  BY <1>1, FaultType
<1>3. TypeOK'
  <2>1. 0 \in Release /\ 0 \in 0 .. MaxTag /\ NewStatus \in Status
    <3>1. 0 \in Release /\ 0 \in 0 .. MaxTag
      BY DEF Release, ConstantsOK
    <3> QED BY <1>1, <3>1, StatusType
  <2> QED BY <1>1, <1>2, <2>1 DEF TypeOK
<1>4. Ordered'
  <2>1. /\ built[cur] <= stored[cur].release /\ stored[cur].release <= copy.release
        /\ copy.release <= want /\ want <= asked[cur]
        /\ built[cur] \in Nat /\ stored[cur].release \in Nat /\ copy.release \in Nat
        /\ want \in Nat /\ asked[cur] \in Nat
    BY <1>1 DEF Ordered, TypeOK, Status, Release, ConstantsOK
  <2>2. \A m \in Merges : stored'[m] = stored[m] \/ (m = cur /\ stored'[m] = copy)
    BY <1>1 DEF TypeOK
  <2> QED BY <1>1, <2>1, <2>2 DEF Ordered
<1> QED BY <1>1, <1>3, <1>4 DEF Fault

LEMMA TInvNext == ASSUME ConstantsOK, TInv, [Next]_vars PROVE TInv'
<1>1. CASE UNCHANGED vars
  BY <1>1 DEF vars, gitlab, worker, bounds, TInv, TypeOK, Ordered
<1>2. CASE Next
  <2>1. CASE \E m \in Merges : Reconcile(m)
    BY <2>1, TInvReconcile
  <2>2. CASE \/ \E m \in Merges : MergeBranches(m) \/ ChangeBranches(m)
             \/ UserTags \/ \E o \in {"above", "below"} : UserTagsOther(o)
    BY <2>2, TInvOthers
  <2>3. CASE Step \/ Crash
    BY <2>3, TInvDrop, TInvListTags, TInvGetTag, TInvCreateTag, TInvEnsureFinalMR, TInvPatch
       DEF Step
  <2> QED BY <1>2, <2>1, <2>2, <2>3 DEF Next, Users
<1> QED BY <1>1, <1>2

\* Every reachable state is well typed, and releases are in order.
THEOREM TypedAndOrdered == Spec => []TInv
<1>1. Init => TInv
  BY TInvInit, ConstantsOK
<1>2. TInv /\ [Next]_vars => TInv'
  BY TInvNext, ConstantsOK
<1> QED BY <1>1, <1>2, PTL DEF Spec

\* Every reachable state is well typed.
THEOREM TypeCorrect == Spec => []TypeOK
<1>1. TInv => TypeOK
  BY DEF TInv
<1> QED BY <1>1, TypedAndOrdered, PTL

-----------------------------------------------------------------------------
(* Tags, as long as users leave versions alone.                            *)

\* The status c of m, with the tags ts, after f failures and e edits: its tag
\* was made for it, and of the very release unless both happened.
Sound(c, m, ts, f, e) ==
  /\ c.finalMR => c.tag # 0
  /\ c.tag # 0 =>
       /\ 1 <= c.release
       /\ \E r \in 0 .. c.release : /\ ts[c.tag] = Tagged(m, r)
                                    /\ f = 0 \/ e = 0 => r = c.release

\* The version is later than all there are.
Fresh == version \in Version /\ \A k \in Existing : k < version

\* A tag that is stored was made for its Merge; without a final merge request it
\* was left by a failure.
StoredSound ==
  \A m \in Merges : /\ Sound(stored[m], m, tags, faults, edits)
                    /\ stored[m].tag # 0 /\ ~stored[m].finalMR => faults > 0

\* No release is tagged before it is stored.
TagsStored ==
  \A n \in Version, m \in Merges, r \in Release :
    tags[n] = Tagged(m, r) => r <= stored[m].release

\* A tag without a final merge request was left by a failure, or is about to
\* get one; a version is only created fresh.
CopySound ==
  /\ pc # "idle" =>
       /\ Sound(copy, cur, tags, faults, edits)
       /\ copy.tag # 0 /\ ~copy.finalMR => faults > 0 \/ pc = "finalMR"
  /\ pc \in {"list", "create"} => copy.tag = 0
  /\ pc = "get" =>
       version \in Version /\ (version = copy.tag \/ (copy.tag = 0 /\ Fresh))
  /\ pc = "create" => Fresh
  /\ pc = "finalMR" => copy.tag # 0

\* The invariant while users leave versions alone.
VSound == StoredSound /\ TagsStored /\ CopySound

\* What holds then, below a hundred: meddling counts what users did to versions.
VInv == meddling = 0 /\ UnderHundred => VSound

\* The versions given to the release r of m.
TagsFor(m, r) == {n \in Version : tags[n] = Tagged(m, r)}

\* The release r of m may be given a version before anything fails again.
Pending(m, r) ==
  IF cur = m THEN copy.release = r /\ copy.tag = 0
  ELSE stored[m].release = r /\ stored[m].tag = 0

\* A release has one version for each failure, and one more unless it may be given
\* another before anything fails.
Counted ==
  \A m \in Merges : \A r \in Release \ {0} :
    /\ Cardinality(TagsFor(m, r)) <= 1 + faults
    /\ Pending(m, r) => Cardinality(TagsFor(m, r)) <= faults

\* As above, while users leave versions alone.
CInv == meddling = 0 => Counted

LEMMA VersionsInit == ASSUME ConstantsOK, Init PROVE VSound
<1>1. TagsStored
  BY DEF Init, TagsStored, Tagged, Untagged, ConstantsOK
<1>2. StoredSound /\ CopySound
  BY DEF Init, StoredSound, CopySound, Sound, NewStatus
<1> QED BY <1>1, <1>2 DEF VSound

\* More failures and edits make a status no less sound.
LEMMA SoundStays ==
  ASSUME NEW c, NEW m, NEW ts, NEW ts2, NEW f \in Nat, NEW f2 \in Nat, NEW e \in Nat, NEW e2 \in Nat,
         Sound(c, m, ts, f, e), f <= f2, e <= e2, c.tag # 0 => ts2[c.tag] = ts[c.tag]
  PROVE  Sound(c, m, ts2, f2, e2)
BY DEF Sound

\* The numbers of failures and edits.
LEMMA Bounds ==
  ASSUME ConstantsOK, TInv, [Next]_vars
  PROVE  /\ faults \in Nat /\ edits \in Nat /\ faults' \in Nat /\ edits' \in Nat
         /\ \A m \in Merges : stored[m] \in Status /\ stored'[m] \in Status
         /\ copy \in Status /\ copy' \in Status /\ TypeOK /\ TypeOK'
<1>1. TInv'
  BY TInvNext
<1> QED BY <1>1 DEF TInv, TypeOK, ConstantsOK

\* Tags that are there are of a version, and a fresh version is no one's.
LEMMA FreshIsFree ==
  ASSUME TypeOK, Fresh
  PROVE  Free(version) /\ version \in Version /\ tags[version] = Untagged
BY DEF Fresh, Existing, Free, Version, ConstantsOK, TypeOK

\* A tag that a sound status has is there.
LEMMA SoundIsThere ==
  ASSUME ConstantsOK, NEW c \in Status, NEW m \in Merges, Sound(c, m, tags, faults, edits), c.tag # 0
  PROVE  ~Free(c.tag) /\ c.tag \in Existing
<1>1. c.tag \in Version
  BY DEF Status, Version, ConstantsOK
<1>2. PICK r \in 0 .. c.release : tags[c.tag] = Tagged(m, r)
  BY DEF Sound
<1>3. Tagged(m, r) # Untagged
  BY DEF Tagged, Untagged, ConstantsOK
<1> QED BY <1>1, <1>2, <1>3 DEF Free, Existing

\* What a step leaves of it that touches neither tags nor stored statuses.
LEMMA StoredStays ==
  ASSUME ConstantsOK, TInv, [Next]_vars, VSound, UNCHANGED <<stored, tags>>,
         faults <= faults', edits <= edits'
  PROVE  StoredSound' /\ TagsStored'
<1>1. ASSUME NEW m \in Merges
      PROVE  /\ Sound(stored[m], m, tags, faults', edits')
             /\ stored[m].tag # 0 /\ ~stored[m].finalMR => faults' > 0
  BY Bounds, SoundStays DEF VSound, StoredSound
<1> QED BY <1>1 DEF VSound, StoredSound, TagsStored

\* A copy that stays is as sound as before.
LEMMA CopyStays ==
  ASSUME ConstantsOK, TInv, [Next]_vars, VSound, UNCHANGED <<tags, cur, copy>>, pc # "idle",
         faults <= faults', edits <= edits'
  PROVE  Sound(copy', cur', tags', faults', edits')
BY Bounds, SoundStays DEF VSound, CopySound

LEMMA VersionsReconcile ==
  ASSUME ConstantsOK, TInv, [Next]_vars, VSound, NEW m \in Merges, Reconcile(m)
  PROVE  VSound'
<1>1. /\ UNCHANGED <<stored, tags, faults, edits>> /\ cur' = m /\ copy' = stored[m]
      /\ stored[m] \in Status /\ faults \in Nat /\ edits \in Nat
  BY Bounds DEF Reconcile, ToTag, Goto, Return, bounds, gitlab
<1>2. \/ pc' = "drop" \/ pc' = "patch"
      \/ pc' = "list" /\ stored[m].tag = 0
      \/ pc' = "get" /\ stored[m].tag # 0 /\ version' = stored[m].tag
  BY <1>1 DEF Reconcile, ToTag, Goto, Return
<1>3. Sound(copy', m, tags, faults, edits) /\ (copy'.tag # 0 /\ ~copy'.finalMR => faults > 0)
  BY <1>1 DEF VSound, StoredSound
<1>4. copy'.tag # 0 => copy'.tag \in Version
  BY <1>1 DEF Status, Version, ConstantsOK
<1>5. CopySound'
  BY <1>1, <1>2, <1>3, <1>4 DEF CopySound
<1> QED BY <1>1, <1>5, StoredStays DEF VSound

LEMMA VersionsOthers ==
  ASSUME ConstantsOK, TInv, [Next]_vars, VSound,
         \E m \in Merges : MergeBranches(m) \/ ChangeBranches(m)
  PROVE  VSound'
<1>1. /\ UNCHANGED <<stored, tags, faults, pc, cur, copy, version>>
      /\ edits' = edits \/ edits' = edits + 1
  BY DEF MergeBranches, ChangeBranches, worker, bounds, gitlab
<1>2. faults <= faults' /\ edits <= edits' /\ faults' \in Nat /\ edits' \in Nat
  BY <1>1, Bounds
<1>3. pc # "idle" => Sound(copy', cur', tags', faults', edits')
  BY <1>1, <1>2, CopyStays
<1>4. CopySound'
  BY <1>1, <1>3 DEF VSound, CopySound, Fresh, Existing, Free
<1> QED BY <1>1, <1>2, <1>4, StoredStays DEF VSound

LEMMA VersionsDrop ==
  ASSUME ConstantsOK, TInv, [Next]_vars, VSound, DropFinalMR
  PROVE  VSound'
<1>1. /\ pc = "drop" /\ pc' = "patch" /\ UNCHANGED <<stored, tags, cur, edits>>
      /\ UNCHANGED faults \/ faults' = faults + 1
      /\ \/ copy' = [Forgotten(copy) EXCEPT !.release = want] /\ UNCHANGED faults
         \/ copy' = copy /\ faults' = faults + 1
  BY TInvDrop DEF Inside
<1>2. /\ faults <= faults' /\ edits <= edits' /\ copy \in Status /\ cur \in Merges
      /\ faults \in Nat /\ edits \in Nat
  BY <1>1, Bounds DEF TypeOK
<1>3. CASE copy' = copy /\ faults' = faults + 1
  BY <1>1, <1>2, <1>3, CopyStays, StoredStays DEF VSound, CopySound
<1>4. CASE copy' = [Forgotten(copy) EXCEPT !.release = want] /\ UNCHANGED faults
  <2>1. /\ copy = stored[cur] /\ copy.release < want /\ want <= edits + 1
        /\ copy.release \in Nat /\ want \in Nat
    BY <1>1, <1>2, Bounds DEF TInv, Ordered, TypeOK, Status, Release, ConstantsOK
  <2>2. /\ copy'.tag # 0 => ~copy.finalMR /\ copy'.tag = copy.tag
        /\ ~copy'.finalMR /\ copy'.release = want
    BY <1>2, <1>4 DEF Forgotten, Status
  <2>3. ASSUME copy'.tag # 0
        PROVE  faults > 0 /\ Sound(copy', cur, tags, faults, edits)
    <3>1. copy.tag # 0 /\ ~copy.finalMR /\ faults > 0 /\ 1 <= copy.release
      BY <1>2, <2>1, <2>2, <2>3 DEF VSound, StoredSound, Sound
    <3>2. edits # 0 /\ faults # 0
      BY <1>2, <2>1, <3>1
    <3>3. PICK r \in 0 .. copy.release : tags[copy.tag] = Tagged(cur, r)
      BY <1>1, <3>1 DEF VSound, CopySound, Sound
    <3>4. r \in 0 .. want /\ 1 <= want
      BY <2>1, <3>1, <3>3
    <3> QED BY <2>2, <2>3, <3>1, <3>2, <3>3, <3>4 DEF Sound
  <2>4. Sound(copy', cur, tags, faults, edits)
    BY <2>2, <2>3 DEF Sound
  <2> QED BY <1>1, <1>2, <1>4, <2>3, <2>4, StoredStays DEF VSound, CopySound
<1> QED BY <1>1, <1>3, <1>4

\* The version after the latest on the page is fresh.
LEMMA VersionsListTags ==
  ASSUME ConstantsOK, WidePage, UnderHundred, TInv, [Next]_vars, VSound, ListTags
  PROVE  VSound'
<1>1. /\ pc = "list" /\ UNCHANGED <<stored, tags, cur, edits>> /\ copy' = copy
      /\ UNCHANGED faults \/ faults' = faults + 1
      /\ \/ pc' = "patch"
         \/ /\ pc' = "get" /\ version' = NextVersion /\ NextVersion \in Version
  BY TInvListTags DEF Inside
<1>2. /\ faults <= faults' /\ edits <= edits' /\ copy.tag = 0
  BY <1>1, Bounds DEF VSound, CopySound
<1>3. Sound(copy', cur', tags', faults', edits')
  BY <1>1, <1>2, CopyStays
<1>4. pc' = "get" => Fresh'
  BY <1>1, NextIsLater DEF Fresh, Existing, Free
<1>5. CopySound'
  BY <1>1, <1>2, <1>3, <1>4 DEF VSound, CopySound, Fresh
<1> QED BY <1>1, <1>2, <1>5, StoredStays DEF VSound

\* A tag that is found there is the status's own.
LEMMA VersionsGetTag ==
  ASSUME ConstantsOK, TInv, [Next]_vars, VSound, GetTag
  PROVE  VSound'
<1>1. /\ pc = "get" /\ UNCHANGED <<stored, tags, version, cur, edits>>
      /\ UNCHANGED faults \/ faults' = faults + 1
      /\ \/ /\ pc' = "finalMR" /\ ~Free(version) /\ copy' = [copy EXCEPT !.tag = version]
         \/ pc' = "create" /\ Free(version) /\ copy' = copy
         \/ pc' = "patch" /\ copy' = copy /\ faults' = faults + 1
  BY TInvGetTag DEF Inside
<1>2. /\ faults <= faults' /\ edits <= edits' /\ faults \in Nat /\ edits \in Nat
      /\ copy \in Status /\ cur \in Merges /\ TypeOK
  BY <1>1, Bounds DEF TypeOK
<1>3. /\ version \in Version /\ (version = copy.tag \/ (copy.tag = 0 /\ Fresh))
      /\ Sound(copy, cur, tags, faults, edits)
      /\ copy.tag # 0 /\ ~copy.finalMR => faults > 0
  BY <1>1 DEF VSound, CopySound
<1>4. CASE pc' = "finalMR" /\ ~Free(version) /\ copy' = [copy EXCEPT !.tag = version]
  <2>1. version = copy.tag /\ version # 0
    BY <1>2, <1>3, <1>4, FreshIsFree DEF Version
  <2>2. copy' = copy
    BY <1>2, <1>4, <2>1 DEF Status
  <2> QED BY <1>1, <1>2, <1>4, <2>1, <2>2, CopyStays, StoredStays DEF VSound, CopySound
<1>5. CASE pc' = "create" /\ Free(version) /\ copy' = copy
  <2>0. copy.tag # 0 => ~Free(copy.tag)
    BY <1>2, <1>3, SoundIsThere DEF Existing
  <2>1. copy.tag = 0 /\ Fresh
    BY <1>3, <1>5, <2>0 DEF Version
  <2>2. Fresh'
    BY <1>1, <2>1 DEF Fresh, Existing, Free
  <2> QED BY <1>1, <1>2, <1>5, <2>1, <2>2, CopyStays, StoredStays DEF VSound, CopySound
<1>6. CASE pc' = "patch" /\ copy' = copy
  BY <1>1, <1>2, <1>3, <1>6, CopyStays, StoredStays DEF VSound, CopySound
<1> QED BY <1>1, <1>4, <1>5, <1>6

LEMMA VersionsCreateTag ==
  ASSUME ConstantsOK, TInv, [Next]_vars, VSound, CreateTag
  PROVE  VSound'
<1>1. /\ pc = "create" /\ UNCHANGED <<stored, cur, edits>>
      /\ UNCHANGED faults \/ faults' = faults + 1
      /\ \/ /\ Free(version) /\ tags' = [tags EXCEPT ![version] = Tagged(cur, built[cur])]
            /\ \/ pc' = "finalMR" /\ copy' = [copy EXCEPT !.tag = version]
               \/ pc' = "patch" /\ copy' = copy
         \/ pc' = "patch" /\ copy' = copy /\ UNCHANGED tags
  BY TInvCreateTag DEF Inside
<1>2. /\ faults <= faults' /\ edits <= edits' /\ faults \in Nat /\ edits \in Nat
      /\ faults' \in Nat /\ edits' \in Nat
      /\ copy \in Status /\ cur \in Merges /\ TypeOK /\ Fresh /\ copy.tag = 0
  BY <1>1, Bounds DEF TypeOK, VSound, CopySound
<1>3. /\ copy.release = stored[cur].release /\ built[cur] = copy.release /\ 1 <= copy.release
      /\ copy.release \in Nat
  BY <1>1, <1>2 DEF TInv, Ordered, Status, Release, ConstantsOK
<1>4. CASE pc' = "patch" /\ copy' = copy /\ UNCHANGED tags
  BY <1>1, <1>2, <1>4, CopyStays, StoredStays DEF VSound, CopySound
<1>5. CASE Free(version) /\ tags' = [tags EXCEPT ![version] = Tagged(cur, built[cur])]
  <2>1. \A n \in Version : tags'[n] = IF n = version THEN Tagged(cur, copy.release) ELSE tags[n]
    BY <1>2, <1>3, <1>5 DEF TypeOK
  <2>2. ASSUME NEW m \in Merges
        PROVE  Sound(stored[m], m, tags', faults', edits')
    <3>1. stored[m] \in Status /\ Sound(stored[m], m, tags, faults, edits)
      BY Bounds DEF VSound, StoredSound
    <3>2. stored[m].tag # 0 => ~Free(stored[m].tag) /\ stored[m].tag \in Version
      BY <3>1, SoundIsThere DEF Existing
    <3>3. stored[m].tag # 0 => tags'[stored[m].tag] = tags[stored[m].tag]
      BY <1>5, <2>1, <3>2
    <3> QED BY <1>2, <3>1, <3>3, SoundStays
  <2>3. StoredSound'
    BY <1>1, <1>2, <2>2 DEF VSound, StoredSound
  <2>4. ASSUME NEW n \in Version, NEW m \in Merges, NEW r \in Release, tags'[n] = Tagged(m, r)
        PROVE  r <= stored[m].release
    <3>1. CASE n = version
      <4>1. m = cur /\ r = copy.release
        BY <2>1, <2>4, <3>1 DEF Tagged
      <4> QED BY <1>3, <4>1
    <3>2. CASE n # version
      BY <2>1, <2>4, <3>2 DEF VSound, TagsStored
    <3> QED BY <3>1, <3>2
  <2>5. CASE pc' = "patch" /\ copy' = copy
    <3>1. Sound(copy, cur, tags', faults', edits')
      BY <1>1, <1>2 DEF VSound, CopySound, Sound
    <3> QED BY <1>1, <1>2, <2>3, <2>4, <2>5, <3>1 DEF VSound, CopySound, TagsStored
  <2>6. CASE pc' = "finalMR" /\ copy' = [copy EXCEPT !.tag = version]
    <3>1. copy'.tag = version /\ copy'.release = copy.release /\ copy'.finalMR = copy.finalMR
      BY <1>2, <2>6 DEF Status
    <3>2. version \in Version /\ version # 0
      BY <1>2 DEF Fresh, Version
    <3>3. copy.release \in 0 .. copy.release
      BY <1>3
    <3>4. Sound(copy', cur, tags', faults', edits')
      BY <1>3, <2>1, <3>1, <3>2, <3>3 DEF Sound
    <3> QED BY <1>1, <2>3, <2>4, <2>6, <3>1, <3>2, <3>4 DEF VSound, CopySound, TagsStored
  <2> QED BY <1>1, <1>2, <1>5, <2>5, <2>6, <1>4
<1> QED BY <1>1, <1>4, <1>5

LEMMA VersionsFinalMR ==
  ASSUME ConstantsOK, TInv, [Next]_vars, VSound, EnsureFinalMR
  PROVE  VSound'
<1>1. /\ pc = "finalMR" /\ pc' = "patch" /\ UNCHANGED <<stored, tags, cur, edits>>
      /\ UNCHANGED faults \/ faults' = faults + 1
      /\ \/ copy' = [copy EXCEPT !.finalMR = TRUE]
         \/ copy' = copy /\ faults' = faults + 1
  BY TInvEnsureFinalMR DEF Inside
<1>2. /\ faults <= faults' /\ edits <= edits' /\ faults \in Nat /\ edits \in Nat
      /\ faults' \in Nat /\ edits' \in Nat
      /\ copy \in Status /\ copy.tag # 0 /\ Sound(copy, cur, tags, faults, edits)
  BY <1>1, Bounds DEF VSound, CopySound
<1>3. /\ copy'.tag = copy.tag /\ copy'.release = copy.release
      /\ copy'.finalMR \/ faults' = faults + 1
  BY <1>1, <1>2 DEF Status
<1>4. Sound(copy', cur, tags, faults', edits')
  BY <1>2, <1>3, <1>1 DEF Sound
<1>5. faults' = faults + 1 => faults' > 0
  BY <1>2
<1>6. CopySound'
  BY <1>1, <1>3, <1>4, <1>5 DEF CopySound
<1> QED BY <1>1, <1>2, <1>6, StoredStays DEF VSound

LEMMA VersionsPatch ==
  ASSUME ConstantsOK, TInv, [Next]_vars, VSound, PatchStatus \/ Crash
  PROVE  VSound'
<1>1. /\ pc # "idle" /\ pc' = "idle" /\ cur' = Nobody /\ UNCHANGED <<tags, edits>>
      /\ UNCHANGED faults \/ faults' = faults + 1
      /\ \/ pc = "patch" /\ stored' = [stored EXCEPT ![cur] = copy]
         \/ stored' = stored
  BY TInvPatch
<1>2. /\ faults <= faults' /\ edits <= edits' /\ faults \in Nat /\ edits \in Nat
      /\ faults' \in Nat /\ edits' \in Nat /\ TypeOK /\ cur \in Merges
  BY <1>1, Bounds DEF TypeOK
<1>3. CopySound'
  BY <1>1 DEF CopySound
<1>4. CASE stored' = stored
  BY <1>1, <1>2, <1>3, <1>4, StoredStays DEF VSound
<1>5. CASE pc = "patch" /\ stored' = [stored EXCEPT ![cur] = copy]
  <2>1. \A m \in Merges : stored'[m] = IF m = cur THEN copy ELSE stored[m]
    BY <1>2, <1>5 DEF TypeOK
  <2>2. /\ Sound(copy, cur, tags, faults, edits)
        /\ copy.tag # 0 /\ ~copy.finalMR => faults > 0
    BY <1>1, <1>5 DEF VSound, CopySound
  <2>3. ASSUME NEW m \in Merges
        PROVE  /\ Sound(stored'[m], m, tags, faults', edits')
               /\ stored'[m].tag # 0 /\ ~stored'[m].finalMR => faults' > 0
    <3>1. /\ Sound(stored'[m], m, tags, faults, edits)
          /\ stored'[m].tag # 0 /\ ~stored'[m].finalMR => faults > 0
      BY <2>1, <2>2 DEF VSound, StoredSound
    <3> QED BY <1>2, <3>1, SoundStays
  <2>4. stored[cur].release <= copy.release
    BY <1>1 DEF TInv, Ordered
  <2>5. ASSUME NEW n \in Version, NEW m \in Merges, NEW r \in Release, tags[n] = Tagged(m, r)
        PROVE  r <= stored'[m].release
    <3>1. r <= stored[m].release
      BY <2>5 DEF VSound, TagsStored
    <3>2. r \in Nat /\ stored[m].release \in Nat /\ copy.release \in Nat
      BY Bounds DEF Status, Release, ConstantsOK
    <3> QED BY <2>1, <2>4, <3>1, <3>2
  <2> QED BY <1>1, <1>3, <2>3, <2>5 DEF VSound, StoredSound, TagsStored
<1> QED BY <1>1, <1>4, <1>5

\* Versions are not taken away while users leave them alone.
LEMMA UnderHundredBefore ==
  ASSUME ConstantsOK, TInv, [Next]_vars, meddling' = meddling, UnderHundred'
  PROVE  UnderHundred
<1>1. meddling \in Nat /\ meddling # meddling + 1 /\ TypeOK
  BY DEF TInv, TypeOK, ConstantsOK
<1>2. ~(UserTags \/ \E o \in {"above", "below"} : UserTagsOther(o))
  BY <1>1 DEF UserTags, UserTagsOther, Meddle
<1>3. CASE UNCHANGED tags
  BY <1>3 DEF UnderHundred, Existing, Free
<1>4. CASE tags' # tags
  <2>1. CreateTag
    BY <1>2, <1>4
       DEF Next, Step, Users, DropFinalMR, ListTags, GetTag, CreateTag, EnsureFinalMR,
           PatchStatus, Crash, Reconcile, MergeBranches, ChangeBranches, vars, gitlab
  <2>2. tags' = [tags EXCEPT ![version] = Tagged(cur, built[cur])] /\ pc = "create"
    BY <1>4, <2>1 DEF CreateTag
  <2>3. /\ \A k \in Version : k # version => tags'[k] = tags[k]
        /\ version \in Version /\ tags'[version] = Tagged(cur, built[cur]) /\ cur \in Merges
    BY <1>1, <2>2 DEF TypeOK
  <2>4. Tagged(cur, built[cur]) # Untagged
    BY <2>3 DEF Tagged, Untagged, ConstantsOK
  <2> QED BY <2>3, <2>4 DEF UnderHundred, Existing, Free
<1> QED BY <1>3, <1>4

LEMMA VersionsNext ==
  ASSUME ConstantsOK, WidePage, TInv, VInv, [Next]_vars
  PROVE  VInv'
<1> SUFFICES ASSUME meddling' = 0, UnderHundred' PROVE VSound'
  BY DEF VInv
<1>1. meddling \in Nat
  BY DEF TInv, TypeOK, ConstantsOK
<1>2. CASE UNCHANGED vars
  <2>1. UNCHANGED <<stored, tags, faults, edits, pc, cur, copy, version, meddling>>
    BY <1>2 DEF vars, worker, bounds, gitlab
  <2>2. VSound
    BY <2>1 DEF VInv, UnderHundred, Existing, Free
  <2> QED BY <2>1, <2>2 DEF VSound, StoredSound, TagsStored, CopySound, Fresh, Existing, Free
<1>3. CASE UserTags \/ \E o \in {"above", "below"} : UserTagsOther(o)
  <2>1. meddling' = meddling + 1
    BY <1>3 DEF UserTags, UserTagsOther, Meddle
  <2> QED BY <1>1, <2>1
<1>4. CASE ~UNCHANGED vars /\ ~(UserTags \/ \E o \in {"above", "below"} : UserTagsOther(o))
  <2>1. UNCHANGED meddling
    BY <1>4
       DEF Next, Step, Users, DropFinalMR, ListTags, GetTag, CreateTag, EnsureFinalMR,
           PatchStatus, Crash, Reconcile, MergeBranches, ChangeBranches, bounds
  <2>2. VSound /\ UnderHundred
    BY <2>1, UnderHundredBefore DEF VInv
  <2>3. CASE \E m \in Merges : Reconcile(m)
    BY <2>2, <2>3, VersionsReconcile
  <2>4. CASE \E m \in Merges : MergeBranches(m) \/ ChangeBranches(m)
    BY <2>2, <2>4, VersionsOthers
  <2>5. CASE Step \/ Crash
    BY <2>2, <2>5, VersionsDrop, VersionsListTags, VersionsGetTag, VersionsCreateTag,
       VersionsFinalMR, VersionsPatch
       DEF Step
  <2> QED BY <1>4, <2>3, <2>4, <2>5 DEF Next, Users
<1> QED BY <1>2, <1>3, <1>4

\* A release is tagged with a version of its own, never with that of another
\* Merge, whatever fails, for any number of Merge objects: what createFinalTag
\* stores is what getLatestVersion made room for, as long as no user pushes or
\* deletes versions and none above v0.0.99 was made.
THEOREM ReleasesTagged == ASSUME WidePage PROVE Spec => []ReleaseHasItsTag
<1>1. Init => VInv
  BY VersionsInit, ConstantsOK DEF VInv
<1>2. TInv /\ VInv /\ [Next]_vars => VInv'
  BY VersionsNext, ConstantsOK
<1>3. VInv => ReleaseHasItsTag
  BY DEF VInv, VSound, StoredSound, Sound, ReleaseHasItsTag
<1> QED BY <1>1, <1>2, <1>3, TypedAndOrdered, PTL DEF Spec

LEMMA FewAreUnderHundred == ASSUME ConstantsOK, Few PROVE UnderHundred
BY DEF Few, UnderHundred, Existing, Version, ConstantsOK

\* A step that changes a version, and is no user's, creates a fresh one.
LEMMA TagsChangeFresh ==
  ASSUME ConstantsOK, Few, TInv, VInv, [Next]_vars, meddling' = 0,
         NEW n \in Version, tags'[n] # tags[n]
  PROVE  \A k \in Existing : k < n
<1>1. meddling \in Nat
  BY DEF TInv, TypeOK, ConstantsOK
<1>2. ~(UserTags \/ \E o \in {"above", "below"} : UserTagsOther(o))
  BY <1>1 DEF UserTags, UserTagsOther, Meddle
<1>3. CreateTag /\ UNCHANGED meddling
  BY <1>2
     DEF Next, Step, Users, DropFinalMR, ListTags, GetTag, CreateTag, EnsureFinalMR, PatchStatus,
         Crash, Reconcile, MergeBranches, ChangeBranches, vars, gitlab, bounds
<1>4. pc = "create" /\ tags' = [tags EXCEPT ![version] = Tagged(cur, built[cur])]
  BY <1>3, TInvCreateTag
<1>5. n = version
  BY <1>4 DEF TInv, TypeOK
<1>6. Fresh
  BY <1>3, <1>4, FewAreUnderHundred DEF VInv, VSound, CopySound
<1> QED BY <1>5, <1>6 DEF Fresh

\* Versions only grow: what CreateTag tags is later than all there are, although
\* the page was read, and the version chosen, steps before.
THEOREM VersionsOnlyGrow == ASSUME Few PROVE Spec => VersionsGrow
<1>1. Init => VInv
  BY VersionsInit, ConstantsOK DEF VInv
<1>2. TInv /\ VInv /\ [Next]_vars => VInv'
  BY VersionsNext, ConstantsOK DEF Few
<1>3. TInv /\ VInv /\ [Next]_vars =>
        [meddling' = 0 => \A n \in Version : tags'[n] # tags[n] => \A k \in Existing : k < n]_vars
  BY TagsChangeFresh, ConstantsOK
<1> QED BY <1>1, <1>2, <1>3, TypedAndOrdered, PTL DEF Spec, VersionsGrow
-----------------------------------------------------------------------------
(* The versions a release is given.                                        *)

\* Releases have finitely many versions.
LEMMA FiniteTags ==
  ASSUME ConstantsOK, NEW S, S \subseteq Version
  PROVE  IsFiniteSet(S) /\ Cardinality(S) \in Nat
<1>1. 1 \in Int /\ MaxTag \in Int
  BY DEF ConstantsOK
<1>2. IsFiniteSet(Version)
  BY <1>1, FS_Interval DEF Version
<1>3. IsFiniteSet(S)
  BY <1>2, FS_Subset
<1> QED BY <1>3, FS_CardinalityType

LEMMA CountedInit == ASSUME ConstantsOK, Init PROVE Counted
<1> SUFFICES ASSUME NEW m \in Merges, NEW r \in Release \ {0}
             PROVE  /\ Cardinality(TagsFor(m, r)) <= 1 + faults
                    /\ Pending(m, r) => Cardinality(TagsFor(m, r)) <= faults
  BY DEF Counted
<1>1. TagsFor(m, r) = {}
  BY DEF TagsFor, Init, Tagged, Untagged, ConstantsOK
<1>2. Cardinality({}) = 0
  BY FS_EmptySet
<1> QED BY <1>1, <1>2 DEF Init

\* A step that tags nothing keeps the count, unless it makes a release with a
\* version wait for one without a failure.
LEMMA CountsStay ==
  ASSUME ConstantsOK, TInv, [Next]_vars, Counted, UNCHANGED tags,
         UNCHANGED faults \/ faults' = faults + 1,
         \A m \in Merges, r \in Release \ {0} :
           Pending(m, r)' => Pending(m, r) \/ faults' = faults + 1 \/ TagsFor(m, r) = {}
  PROVE  Counted'
<1> SUFFICES ASSUME NEW m \in Merges, NEW r \in Release \ {0}
             PROVE  /\ Cardinality(TagsFor(m, r)') <= 1 + faults'
                    /\ Pending(m, r)' => Cardinality(TagsFor(m, r)') <= faults'
  BY DEF Counted
<1>1. TagsFor(m, r)' = TagsFor(m, r)
  BY DEF TagsFor
<1>2. TagsFor(m, r) \subseteq Version
  BY DEF TagsFor
<1>3. Cardinality(TagsFor(m, r)) \in Nat
  BY <1>2, FiniteTags
<1>4. /\ Cardinality(TagsFor(m, r)) <= 1 + faults
      /\ Pending(m, r) => Cardinality(TagsFor(m, r)) <= faults
  BY DEF Counted
<1>5. faults \in Nat /\ Cardinality({}) = 0
  BY Bounds, FS_EmptySet
<1>6. Pending(m, r)' => Pending(m, r) \/ faults' = faults + 1 \/ TagsFor(m, r) = {}
  OBVIOUS
<1> QED BY <1>1, <1>3, <1>4, <1>5, <1>6

LEMMA CountedReconcile ==
  ASSUME ConstantsOK, TInv, [Next]_vars, Counted, NEW k \in Merges, Reconcile(k)
  PROVE  Counted'
<1>1. /\ UNCHANGED <<stored, tags, faults>> /\ cur' = k /\ copy' = stored[k] /\ cur = Nobody
  BY DEF Reconcile, ToTag, Goto, Return, bounds, gitlab, TInv, TypeOK
<1>2. \A m \in Merges, r \in Release \ {0} : Pending(m, r)' => Pending(m, r)
  BY <1>1 DEF Pending, ConstantsOK
<1> QED BY <1>1, <1>2, CountsStay

LEMMA CountedOthers ==
  ASSUME ConstantsOK, TInv, [Next]_vars, Counted,
         \/ UNCHANGED vars
         \/ \E m \in Merges : MergeBranches(m) \/ ChangeBranches(m)
  PROVE  Counted'
<1>1. UNCHANGED <<stored, tags, faults, cur, copy>>
  BY DEF MergeBranches, ChangeBranches, vars, gitlab, worker, bounds
<1>2. \A m \in Merges, r \in Release \ {0} : Pending(m, r)' => Pending(m, r)
  BY <1>1 DEF Pending
<1> QED BY <1>1, <1>2, CountsStay

\* The release that is asked for now has no version yet.
LEMMA CountedDrop ==
  ASSUME ConstantsOK, TInv, [Next]_vars, VSound, Counted, DropFinalMR
  PROVE  Counted'
<1>1. /\ pc = "drop" /\ UNCHANGED <<stored, tags, cur>>
      /\ UNCHANGED faults \/ faults' = faults + 1
      /\ \/ copy' = [Forgotten(copy) EXCEPT !.release = want]
         \/ copy' = copy /\ faults' = faults + 1
  BY TInvDrop DEF Inside
<1>2. /\ copy \in Status /\ cur \in Merges /\ stored[cur].release < want
      /\ want \in Nat /\ stored[cur].release \in Nat
  BY <1>1 DEF TInv, TypeOK, Ordered, Status, Release, ConstantsOK
<1>3. copy' = [Forgotten(copy) EXCEPT !.release = want] => copy'.release = want
  BY <1>2 DEF Forgotten, Status
<1>4. want \in Release => TagsFor(cur, want) = {}
  BY <1>2 DEF TagsFor, VSound, TagsStored
<1>5. \A m \in Merges, r \in Release \ {0} :
        Pending(m, r)' => Pending(m, r) \/ faults' = faults + 1 \/ TagsFor(m, r) = {}
  BY <1>1, <1>3, <1>4 DEF Pending
<1> QED BY <1>1, <1>5, CountsStay

LEMMA CountedWorker ==
  ASSUME ConstantsOK, TInv, [Next]_vars, VSound, Counted, ListTags \/ GetTag \/ EnsureFinalMR
  PROVE  Counted'
<1>1. /\ UNCHANGED <<stored, tags, cur>> /\ cur \in Merges /\ copy \in Status
      /\ UNCHANGED faults \/ faults' = faults + 1
      /\ \/ copy' = copy
         \/ copy' = [copy EXCEPT !.finalMR = TRUE]
         \/ version # 0 /\ copy' = [copy EXCEPT !.tag = version]
  <2>1. CASE ListTags
    BY <2>1, TInvListTags, Bounds DEF Inside, TypeOK
  <2>2. CASE GetTag
    BY <2>2, TInvGetTag, Bounds DEF Inside, TypeOK, VSound, CopySound, Version
  <2>3. CASE EnsureFinalMR
    BY <2>3, TInvEnsureFinalMR, Bounds DEF Inside, TypeOK
  <2> QED BY <2>1, <2>2, <2>3
<1>2. copy'.release = copy.release /\ (copy'.tag = 0 => copy.tag = 0)
  BY <1>1 DEF Status
<1>3. \A m \in Merges, r \in Release \ {0} : Pending(m, r)' => Pending(m, r)
  BY <1>1, <1>2 DEF Pending
<1> QED BY <1>1, <1>3, CountsStay

LEMMA CountedPatch ==
  ASSUME ConstantsOK, TInv, [Next]_vars, Counted, PatchStatus \/ Crash
  PROVE  Counted'
<1>1. /\ pc # "idle" /\ cur' = Nobody /\ UNCHANGED tags /\ cur \in Merges
      /\ UNCHANGED faults \/ faults' = faults + 1
      /\ \/ stored' = [stored EXCEPT ![cur] = copy]
         \/ stored' = stored /\ faults' = faults + 1
  BY TInvPatch DEF TInv, TypeOK
<1>2. \/ faults' = faults + 1
      \/ \A m \in Merges : stored'[m] = IF m = cur THEN copy ELSE stored[m]
  BY <1>1 DEF TInv, TypeOK
<1>3. \A m \in Merges, r \in Release \ {0} :
        Pending(m, r)' => Pending(m, r) \/ faults' = faults + 1
  BY <1>1, <1>2 DEF Pending, ConstantsOK
<1> QED BY <1>1, <1>3, CountsStay

\* A version is created for a release that waits for one, and if the answer is
\* lost, that was a failure.
LEMMA CountedCreateTag ==
  ASSUME ConstantsOK, TInv, [Next]_vars, VSound, Counted, CreateTag
  PROVE  Counted'
<1>1. /\ pc = "create" /\ UNCHANGED <<stored, cur>>
      /\ UNCHANGED faults \/ faults' = faults + 1
      /\ \/ /\ Free(version) /\ tags' = [tags EXCEPT ![version] = Tagged(cur, built[cur])]
            /\ \/ pc' = "finalMR" /\ copy' = [copy EXCEPT !.tag = version]
               \/ pc' = "patch" /\ copy' = copy /\ faults' = faults + 1
         \/ pc' = "patch" /\ copy' = copy /\ UNCHANGED tags
  BY TInvCreateTag DEF Inside
<1>2. /\ copy \in Status /\ cur \in Merges /\ TypeOK /\ version \in Version /\ version # 0
      /\ copy.tag = 0 /\ built[cur] = copy.release /\ faults \in Nat
  <2>1. Fresh /\ copy.tag = 0
    BY <1>1 DEF VSound, CopySound
  <2>2. copy \in Status /\ TypeOK /\ faults \in Nat
    BY Bounds
  <2>3. cur \in Merges /\ built[cur] = copy.release
    BY <1>1 DEF TInv, TypeOK, Ordered
  <2> QED BY <2>1, <2>2, <2>3 DEF Fresh, Version
<1>3. CASE pc' = "patch" /\ copy' = copy /\ UNCHANGED tags
  <2>1. \A m \in Merges, r \in Release \ {0} : Pending(m, r)' => Pending(m, r)
    BY <1>1, <1>3 DEF Pending
  <2> QED BY <1>1, <1>3, <2>1, CountsStay
<1>4. CASE /\ Free(version) /\ tags' = [tags EXCEPT ![version] = Tagged(cur, built[cur])]
           /\ \/ pc' = "finalMR" /\ copy' = [copy EXCEPT !.tag = version]
              \/ pc' = "patch" /\ copy' = copy /\ faults' = faults + 1
  <2> SUFFICES ASSUME NEW m \in Merges, NEW r \in Release \ {0}
               PROVE  /\ Cardinality(TagsFor(m, r)') <= 1 + faults'
                      /\ Pending(m, r)' => Cardinality(TagsFor(m, r)') <= faults'
    BY DEF Counted
  <2> DEFINE T == TagsFor(m, r)
  <2>1. \A n \in Version : tags'[n] = IF n = version THEN Tagged(cur, copy.release) ELSE tags[n]
    BY <1>2, <1>4 DEF TypeOK
  <2>2. T \subseteq Version /\ IsFiniteSet(T) /\ Cardinality(T) \in Nat /\ version \notin T
    <3>1. T \subseteq Version
      BY DEF TagsFor
    <3>2. version \notin T
      BY <1>4 DEF TagsFor, Free, Tagged, Untagged, ConstantsOK
    <3> QED BY <3>1, <3>2, FiniteTags
  <2>3. /\ Cardinality(T) <= 1 + faults
        /\ Pending(m, r) => Cardinality(T) <= faults
    BY DEF Counted
  <2>4. CASE m = cur /\ r = copy.release
    <3>1. TagsFor(m, r)' = T \cup {version}
      BY <1>2, <2>1, <2>4 DEF TagsFor
    <3>2. Cardinality(T \cup {version}) = Cardinality(T) + 1
      <4> HIDE DEF T
      <4> QED BY <2>2, FS_AddElement
    <3>3. Cardinality(T) <= faults
      BY <1>2, <2>3, <2>4 DEF Pending
    <3>4. Pending(m, r)' => faults' = faults + 1
      <4>1. copy' = [copy EXCEPT !.tag = version] => copy'.tag # 0
        BY <1>2 DEF Status
      <4> QED BY <1>1, <1>4, <2>4, <4>1 DEF Pending
    <3> HIDE DEF T
    <3> QED BY <1>1, <1>2, <2>2, <3>1, <3>2, <3>3, <3>4
  <2>5. CASE ~(m = cur /\ r = copy.release)
    <3>1. Tagged(cur, copy.release) # Tagged(m, r)
      BY <2>5 DEF Tagged
    <3>2. TagsFor(m, r)' = T
      BY <2>1, <2>2, <3>1 DEF TagsFor
    <3>3. copy'.release = copy.release
      BY <1>2, <1>4 DEF Status
    <3>4. Pending(m, r)' => Pending(m, r)
      BY <1>1, <2>5, <3>3 DEF Pending
    <3> HIDE DEF T
    <3> QED BY <1>1, <1>2, <2>2, <2>3, <3>2, <3>4
  <2> QED BY <2>4, <2>5
<1> QED BY <1>1, <1>3, <1>4

LEMMA CountedNext ==
  ASSUME ConstantsOK, Few, TInv, VInv, CInv, [Next]_vars
  PROVE  CInv'
<1> SUFFICES ASSUME meddling' = 0 PROVE Counted'
  BY DEF CInv
<1>1. meddling \in Nat
  BY DEF TInv, TypeOK, ConstantsOK
<1>2. ~(UserTags \/ \E o \in {"above", "below"} : UserTagsOther(o))
  BY <1>1 DEF UserTags, UserTagsOther, Meddle
<1>3. UNCHANGED meddling
  BY <1>2
     DEF Next, Step, Users, DropFinalMR, ListTags, GetTag, CreateTag, EnsureFinalMR, PatchStatus,
         Crash, Reconcile, MergeBranches, ChangeBranches, vars, bounds
<1>4. VSound /\ Counted
  BY <1>3, FewAreUnderHundred DEF VInv, CInv
<1>5. CASE \E m \in Merges : Reconcile(m)
  BY <1>4, <1>5, CountedReconcile
<1>6. CASE UNCHANGED vars \/ \E m \in Merges : MergeBranches(m) \/ ChangeBranches(m)
  BY <1>4, <1>6, CountedOthers
<1>7. CASE Step \/ Crash
  BY <1>4, <1>7, CountedDrop, CountedWorker, CountedCreateTag, CountedPatch DEF Step
<1> QED BY <1>2, <1>5, <1>6, <1>7 DEF Next, Users

\* A release is given one version, and one more only for each call that failed:
\* a reconcile that is repeated does not tag a release that is tagged again.
THEOREM FewVersions == ASSUME Few PROVE Spec => []VersionsNeedFaults
<1>1. Init => VInv /\ CInv
  BY VersionsInit, CountedInit, ConstantsOK DEF VInv, CInv
<1>2. TInv /\ VInv /\ [Next]_vars => VInv'
  BY VersionsNext, ConstantsOK DEF Few
<1>3. TInv /\ VInv /\ CInv /\ [Next]_vars => CInv'
  BY CountedNext, ConstantsOK
<1>4. CInv => VersionsNeedFaults
  BY DEF CInv, Counted, TagsFor, VersionsNeedFaults
<1> QED BY <1>1, <1>2, <1>3, <1>4, TypedAndOrdered, PTL DEF Spec

=============================================================================
