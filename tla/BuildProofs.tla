---------------------------- MODULE BuildProofs ----------------------------
(***************************************************************************)
(* What holds of the Build controller for any Builds, repositories and     *)
(* names, any number of failures, edits and Builds that are created again. *)
(***************************************************************************)
EXTENDS Build, FiniteSetTheorems, WellFoundedInduction, TLAPS

-----------------------------------------------------------------------------
(* Lists of repositories and of branches.                                  *)

\* A set of positions in a list has a last one.
LEMMA LastPosition ==
  ASSUME NEW n \in Nat, NEW S \in SUBSET (1 .. n), S # {}
  PROVE  \E i \in S : \A j \in S : j <= i
<1> DEFINE T == {n - i : i \in S}
<1>1. T \subseteq Nat /\ T # {}
  <2>1. \A i \in S : n - i \in Nat
    OBVIOUS
  <2>2. PICK i \in S : TRUE
    OBVIOUS
  <2>3. n - i \in T
    BY <2>2
  <2> QED BY <2>1, <2>3
<1>2. PICK t \in T : \A s \in T : ~ (<<s, t>> \in OpToRel(<, Nat))
  <2> HIDE DEF T
  <2> QED BY <1>1, NatLessThanWellFounded, WFMin
<1>3. PICK i \in S : t = n - i
  BY <1>2
<1>4. \A j \in S : j <= i
  <2> SUFFICES ASSUME NEW j \in S PROVE j <= i
    OBVIOUS
  <2>1. ~ (<<n - j, n - i>> \in OpToRel(<, Nat))
    BY <1>2, <1>3
  <2>2. ~ (n - j < n - i)
    <3>1. n - j \in Nat /\ n - i \in Nat
      OBVIOUS
    <3> QED BY <2>1, <3>1 DEF OpToRel
  <2> QED BY <2>2
<1> QED BY <1>4

\* The entry of a repository that is asked for is one of the list.
LEMMA EntryIsAsked ==
  ASSUME NEW rs \in Seq(Repo), NEW u \in Asked(rs)
  PROVE  \E i \in DOMAIN rs : Entry(rs, u) = rs[i] /\ rs[i].url = u
<1> DEFINE S == {i \in DOMAIN rs : rs[i].url = u}
<1>1. S # {} /\ S \subseteq 1 .. Len(rs) /\ Len(rs) \in Nat
  BY DEF Asked
<1>2. \E i \in S : \A j \in S : j <= i
  <2> HIDE DEF S
  <2> QED BY <1>1, LastPosition
<1>3. \E i \in DOMAIN rs : rs[i].url = u /\ \A j \in DOMAIN rs : rs[j].url = u => j <= i
  BY <1>2
<1> QED BY <1>3 DEF Entry

\* A list that names none twice has as many members as it is long, and any
\* other list at most as many.
LEMMA MembersCounted ==
  ASSUME NEW S, NEW a \in Seq(S)
  PROVE  /\ IsFiniteSet(Members(a)) /\ Cardinality(Members(a)) \in Nat
         /\ Cardinality(Members(a)) <= Len(a)
         /\ OnceEach(a) => Cardinality(Members(a)) = Len(a)
<1> DEFINE A == 1 .. Len(a)
<1>1. Len(a) \in Nat /\ DOMAIN a = A
  OBVIOUS
<1>2. IsFiniteSet(A) /\ Cardinality(A) = Len(a)
  <2>1. 1 \in Int /\ Len(a) \in Int
    BY <1>1
  <2>2. IsFiniteSet(A) /\ Cardinality(A) = IF 1 > Len(a) THEN 0 ELSE Len(a) - 1 + 1
    BY <2>1, FS_Interval, Zenon
  <2> QED BY <1>1, <2>2
<1>3. a \in Surjection(A, Members(a))
  BY <1>1 DEF Surjection, Members
<1>4. IsFiniteSet(Members(a)) /\ Cardinality(Members(a)) <= Len(a)
  BY <1>2, <1>3, FS_Surjection
<1>5. ASSUME OnceEach(a) PROVE Cardinality(Members(a)) = Len(a)
  <2>1. a \in Bijection(A, Members(a))
    BY <1>1, <1>3, <1>5 DEF OnceEach, Bijection, Injection, IsInjective, Surjection
  <2> QED BY <1>2, <2>1, FS_Bijection DEF ExistsBijection
<1> QED BY <1>4, <1>5, FS_CardinalityType

\* branchEqual says nothing wrong as long as the first list, which is that of
\* the Build, names no branch twice: lists it takes for equal name the same
\* branches.  It tells whether they do if the second one names none twice either.
THEOREM BranchEqualIsSameBranches ==
  ASSUME NEW a \in Seq(BranchName), NEW b \in Seq(BranchName), OnceEach(a)
  PROVE  /\ BranchEqual(a, b) => Members(a) = Members(b)
         /\ OnceEach(b) => (BranchEqual(a, b) <=> Members(a) = Members(b))
<1>1. ASSUME BranchEqual(a, b) PROVE Members(a) = Members(b)
  <2>1. Len(a) = Len(b) /\ Len(a) \in Nat
    BY <1>1 DEF BranchEqual
  <2>2. Members(a) \subseteq Members(b)
    BY <1>1 DEF Members, BranchEqual
  <2>3. Cardinality(Members(a)) = Len(a) /\ Cardinality(Members(a)) <= Cardinality(Members(b))
    BY <2>2, MembersCounted, FS_Subset
  <2>4. Cardinality(Members(b)) <= Len(b) /\ Cardinality(Members(b)) \in Nat
    BY MembersCounted
  <2>5. Cardinality(Members(a)) = Cardinality(Members(b))
    BY <2>1, <2>3, <2>4
  <2> QED BY <2>2, <2>5, MembersCounted, FS_Subset
<1>2. ASSUME OnceEach(b), Members(a) = Members(b) PROVE BranchEqual(a, b)
  <2>1. Len(a) = Len(b)
    <3>1. Cardinality(Members(a)) = Len(a) /\ Cardinality(Members(b)) = Len(b)
      BY <1>2, MembersCounted
    <3> QED BY <1>2, <3>1
  <2>2. ASSUME NEW i \in DOMAIN a PROVE \E j \in DOMAIN b : a[i] = b[j]
    <3>1. a[i] \in Members(b)
      BY <1>2 DEF Members
    <3> QED BY <3>1 DEF Members
  <2> QED BY <2>1, <2>2 DEF BranchEqual
<1> QED BY <1>1, <1>2

-----------------------------------------------------------------------------
(* The inductive invariant.                                                *)

\* Every Merge object has the name of its label and its repository.
NamesMatch ==
  \A n \in Name : merges[n].phase # "none" => n = MergeName[merges[n].build][merges[n].repo.url]

\* The plan is about the copy, and what is to be deleted or
\* patched has not become another Build's.
PlanSound ==
  pc = "apply" =>
    /\ PlanOfCopy
    /\ \A u \in plan.remove \cup plan.update :
         LET n == MergeName[cur][u] IN merges[n].phase # "none" => merges[n].build = cur

\* What the conditions c say of the Merge objects of b.
ReadyAs(b, c) ==
  /\ c \in {"True", "False"}
  /\ c = "True" => \A n \in Labelled(b) : merges[n].finalizer => merges[n].ready
  /\ c = "False" => \E n \in Labelled(b) : ~merges[n].ready

\* No reconcile is due for b, nor is one needed.
Settled(b) ==
  LET c == builds[b].conditions IN
  InSync(b) /\ c.synced = "True" /\ c.ready = c.buildReady /\ ReadyAs(b, c.ready)

\* As Settled, once the plan p for the repositories rs is carried out.
PlanSettles(b, rs, p) ==
  /\ \A u \in Asked(rs) :
       \/ \E i \in p.create : rs[i].url = u
       \/ u \in p.update
       \/ \E n \in Labelled(b) :
            merges[n].repo.url = u /\ BranchEqual(Entry(rs, u).branches, merges[n].repo.branches)
  /\ \A n \in Labelled(b) :
       merges[n].phase = "live" => merges[n].repo.url \in Asked(rs) \cup p.remove
  /\ ReadyAs(b, IF p.ready THEN "True" ELSE "False")

\* Either a reconcile is due, or the one under way leaves b settled.
Attended(b) ==
  \/ b \in queue \/ builds[b].phase # "live"
  \/ cur # b /\ Settled(b)
  \/ /\ cur = b
     /\ CASE pc = "list"       -> obj = builds[b]
          [] pc = "apply"      -> obj = builds[b] /\ PlanSettles(b, obj.repos, plan)
          [] pc = "conditions" -> retry \/ (/\ InSync(b) /\ obj.conditions.synced = "True"
                                            /\ ReadyAs(b, obj.conditions.buildReady))
          [] OTHER             -> retry \/ Settled(b)

IInv == Typed /\ NamesMatch /\ PlanSound /\ \A b \in Builds : Attended(b)

-----------------------------------------------------------------------------
(* Types.                                                                  *)

\* What is stored under a name is a Merge object, or nothing.
LEMMA MergeTyped ==
  ASSUME Typed, NEW n \in Name
  PROVE  /\ merges[n].phase # "none" => merges[n] \in MergeObject
         /\ merges[n].phase = "none" => merges[n] = NoMerge
BY DEF Typed, MergeObject, NoMerge

\* Deletion leaves a Merge object, or nothing.
LEMMA DeletedTyped ==
  ASSUME Typed, NEW n \in Name, merges[n].phase # "none"
  PROVE  Deleted(n) \in MergeObject \cup {NoMerge}
BY MergeTyped DEF Deleted, MergeObject

LEMMA EntryTyped ==
  ASSUME NEW rs \in Seq(Repo), NEW u \in Asked(rs)
  PROVE  Entry(rs, u) \in Repo /\ Entry(rs, u).url = u
<1>1. PICK i \in DOMAIN rs : Entry(rs, u) = rs[i] /\ rs[i].url = u
  BY EntryIsAsked
<1> QED BY <1>1

\* The specs of users are lists of repositories.
LEMMA SpecsTyped ==
  ASSUME NEW b \in Builds
  PROVE  Specs[b] \subseteq Seq(Repo)
BY ConstantsOK

LEMMA FinalizedTyped ==
  ASSUME NEW o \in BuildObject, NEW f \in BOOLEAN
  PROVE  Finalized(o, f) \in BuildObject /\ Finalized(o, f).uid = o.uid
<1>1. o.uid \in Nat /\ o.repos \in Seq(Repo) /\ o.conditions \in Conditions
  BY DEF BuildObject
<1>2. NoConditions \in Conditions /\ <<>> \in Seq(Repo)
  BY DEF NoConditions, Conditions, Condition
<1>3. CASE o.phase = "deleting" /\ ~f
  BY <1>2, <1>3 DEF Finalized, BuildObject
<1>4. CASE ~(o.phase = "deleting" /\ ~f)
  BY <1>4 DEF Finalized, BuildObject
<1> QED BY <1>3, <1>4

\* Init and every step keep the types.
LEMMA InitTypes == Init => Typed
<1> SUFFICES ASSUME Init PROVE Typed
  OBVIOUS
<1>1. PICK asked \in [Builds -> UNION {Specs[b] : b \in Builds}] :
        /\ \A b \in Builds : asked[b] \in Specs[b]
        /\ builds = [b \in Builds |-> NewBuild(1, asked[b])]
  BY DEF Init
<1>2. \A b \in Builds : NewBuild(1, asked[b]) \in BuildObject /\ NewBuild(1, asked[b]).uid = 1
  BY <1>1, SpecsTyped DEF NewBuild, NoBuild, BuildObject, NoConditions, Conditions, Condition
<1>3. builds \in [Builds -> BuildObject] /\ \A b \in Builds : builds[b].uid <= MaxUID[b]
  BY <1>1, <1>2, ConstantsOK
<1>4. NoBuild \in BuildObject /\ NoPlan \in Plan
  BY DEF NoBuild, BuildObject, NoConditions, Conditions, Condition, NoPlan, Plan
<1>5. merges \in [Name -> MergeObject \cup {NoMerge}]
  BY DEF Init
<1>6. /\ queue \subseteq Builds /\ pc = "idle" /\ cur = Nobody
      /\ obj \in BuildObject /\ plan \in Plan /\ retry \in BOOLEAN
  BY <1>4 DEF Init
<1>7. faults \in 0 .. MaxFaults /\ edits \in 0 .. MaxEdits
  BY ConstantsOK DEF Init
<1> QED BY <1>3, <1>5, <1>6, <1>7 DEF Typed

\* The worker in the middle of a reconcile.
Busy ==
  /\ pc \in {"list", "apply", "conditions", "object"}
  /\ obj \in BuildObject /\ plan \in Plan /\ retry \in BOOLEAN

StoreOK ==
  /\ builds \in [Builds -> BuildObject] /\ \A b \in Builds : builds[b].uid <= MaxUID[b]
  /\ merges \in [Name -> MergeObject \cup {NoMerge}]
  /\ queue \subseteq Builds

BoundsOK == faults \in 0 .. MaxFaults /\ edits \in 0 .. MaxEdits

LEMMA FaultTyped ==
  ASSUME Typed
  PROVE  Fault \/ UNCHANGED faults => faults' \in 0 .. MaxFaults
BY ConstantsOK DEF Typed, Fault

LEMMA EditTyped ==
  ASSUME Typed
  PROVE  Edit \/ UNCHANGED edits => edits' \in 0 .. MaxEdits
BY ConstantsOK DEF Typed, Edit

LEMMA SetMergeTyped ==
  ASSUME Typed, NEW n \in Name, NEW m \in MergeObject \cup {NoMerge},
         merges[n].phase # "none", SetMerge(n, m), UNCHANGED builds
  PROVE  StoreOK'
<1>1. merges[n].build \in Builds
  BY MergeTyped DEF MergeObject
<1>2. queue' \subseteq Builds
  BY <1>1 DEF Typed, SetMerge, Told
<1>3. merges' \in [Name -> MergeObject \cup {NoMerge}]
  BY DEF Typed, SetMerge
<1> QED BY <1>2, <1>3 DEF Typed, StoreOK

LEMMA SetBuildTyped ==
  ASSUME Typed, NEW b \in Builds, NEW o \in BuildObject, NEW asked \in BOOLEAN,
         o.uid <= MaxUID[b], SetBuild(b, o, asked), UNCHANGED merges
  PROVE  StoreOK'
<1>1. queue' \subseteq Builds
  BY DEF Typed, SetBuild
<1>2. builds' \in [Builds -> BuildObject] /\ \A c \in Builds : builds'[c].uid <= MaxUID[c]
  BY DEF Typed, SetBuild
<1> QED BY <1>1, <1>2 DEF Typed, StoreOK

LEMMA ReturnTyped ==
  ASSUME NEW o \in BuildObject, NEW again \in BOOLEAN, Return(o, again)
  PROVE  Busy'
BY DEF Return, Busy, NoPlan, Plan

LEMMA NotSyncedTyped ==
  ASSUME NEW o \in BuildObject
  PROVE  NotSynced(o) \in BuildObject
BY DEF NotSynced, BuildObject, Conditions, Condition

LEMMA ProceedTyped ==
  ASSUME Typed, NEW p \in Plan, Proceed(p)
  PROVE  Busy'
<1>1. Concluded(obj, p.ready) \in BuildObject
  BY DEF Typed, Concluded, BuildObject, Conditions, Condition
<1>2. CASE p.create = {} /\ p.remove = {} /\ p.update = {}
  BY <1>1, <1>2, ReturnTyped DEF Proceed
<1>3. CASE ~(p.create = {} /\ p.remove = {} /\ p.update = {})
  BY <1>3 DEF Proceed, Busy, Typed
<1> QED BY <1>2, <1>3

LEMMA AnsweredTyped ==
  ASSUME Typed, NEW p \in Plan, Answered(p)
  PROVE  Busy' /\ faults' \in 0 .. MaxFaults
<1>1. CASE Proceed(p) /\ UNCHANGED faults
  BY <1>1, ProceedTyped, FaultTyped
<1>2. CASE Fault /\ Return(NotSynced(obj), TRUE)
  BY <1>2, ReturnTyped, NotSyncedTyped, FaultTyped DEF Typed
<1> QED BY <1>1, <1>2 DEF Answered

LEMMA RefusedTyped ==
  ASSUME Typed, NEW cond \in BOOLEAN, Refused(cond)
  PROVE  Busy' /\ faults' \in 0 .. MaxFaults /\ UNCHANGED <<merges, queue>>
BY ReturnTyped, NotSyncedTyped, FaultTyped DEF Typed, Refused

\* The parts of the types together.
LEMMA BusyTyped ==
  ASSUME cur \in Builds, UNCHANGED cur, Busy', StoreOK', BoundsOK'
  PROVE  Typed'
BY ConstantsOK DEF Busy, StoreOK, BoundsOK, Typed

LEMMA OutsideTyped ==
  ASSUME Typed, StoreOK', BoundsOK', UNCHANGED worker
  PROVE  Typed'
BY DEF StoreOK, BoundsOK, Typed, worker

LEMMA DoneTyped ==
  ASSUME StoreOK', BoundsOK', Done
  PROVE  Typed'
<1>1. NoBuild \in BuildObject /\ NoPlan \in Plan
  BY DEF NoBuild, BuildObject, NoConditions, Conditions, Condition, NoPlan, Plan
<1> QED BY <1>1 DEF Done, StoreOK, BoundsOK, Typed

\* A worker that is busy has a Build.
LEMMA BusyCur ==
  ASSUME Typed, pc # "idle"
  PROVE  cur \in Builds
BY DEF Typed

LEMMA ReconcileTypes ==
  ASSUME Typed, NEW b \in Builds, Reconcile(b)
  PROVE  Typed'
<1>1. StoreOK'
  BY DEF Reconcile, Typed, StoreOK, worker
<1>2. BoundsOK'
  BY FaultTyped, EditTyped DEF Reconcile, BoundsOK
<1>3. CASE pc' = "list" /\ cur' = b /\ obj' = builds[b] /\ UNCHANGED <<plan, retry>>
  BY <1>1, <1>2, <1>3, ConstantsOK DEF Typed, StoreOK, BoundsOK
<1>4. CASE UNCHANGED worker
  BY <1>1, <1>2, <1>4, OutsideTyped
<1> QED BY <1>3, <1>4 DEF Reconcile

LEMMA PlanTyped ==
  ASSUME Typed, NEW rs \in Seq(Repo), NEW b \in Builds
  PROVE  PlanFor(rs, Labelled(b)) \in Plan
<1>1. \A n \in Labelled(b) : merges[n].repo.url \in URL
  BY MergeTyped DEF Labelled, MergeObject, Repo
<1>2. DOMAIN rs \subseteq Nat
  OBVIOUS
<1> QED BY <1>1, <1>2 DEF PlanFor, Plan

LEMMA ListTypes ==
  ASSUME Typed, List
  PROVE  Typed'
<1>1. cur \in Builds /\ obj \in BuildObject /\ obj.repos \in Seq(Repo)
  BY BusyCur DEF List, Typed, BuildObject
<1>2. StoreOK'
  BY DEF List, Typed, StoreOK
<1>3. BoundsOK'
  BY FaultTyped, EditTyped DEF List, BoundsOK
<1>4. Busy'
  <2>1. \A f \in BOOLEAN : [obj EXCEPT !.finalizer = f] \in BuildObject
    BY <1>1 DEF BuildObject
  <2>2. CASE Return([obj EXCEPT !.finalizer = FALSE], FALSE)
    BY <2>1, <2>2, ReturnTyped
  <2>3. CASE Return([obj EXCEPT !.finalizer = TRUE], TRUE)
    BY <2>1, <2>3, ReturnTyped
  <2>4. CASE Proceed(PlanFor(obj.repos, Labelled(cur)))
    BY <1>1, <2>4, PlanTyped, ProceedTyped
  <2>5. CASE Return(NotSynced(obj), TRUE)
    BY <1>1, <2>5, NotSyncedTyped, ReturnTyped
  <2> QED BY <2>2, <2>3, <2>4, <2>5 DEF List
<1> QED BY <1>1, <1>2, <1>3, <1>4, BusyTyped DEF List

LEMMA NewMergeTyped ==
  ASSUME NEW b \in Builds, NEW uid \in Nat, NEW r \in Repo
  PROVE  NewMerge(b, uid, r) \in MergeObject
BY DEF NewMerge, MergeObject

LEMMA CreateMergeTypes ==
  ASSUME Typed, PlanSound, CreateMerge
  PROVE  Typed'
<1>1. cur \in Builds /\ obj.repos \in Seq(Repo) /\ obj.uid \in Nat /\ plan \in Plan
  BY BusyCur DEF CreateMerge, Typed, BuildObject
<1>2. PICK i \in plan.create :
        LET r == Entry(obj.repos, obj.repos[i].url)
            n == MergeName[cur][r.url] IN
        \/ /\ merges' = [merges EXCEPT ![n] = NewMerge(cur, obj.uid, r)]
           /\ Answered([plan EXCEPT !.create = @ \ {i}])
           /\ UNCHANGED queue
        \/ Refused(merges[n].phase # "none")
  BY DEF CreateMerge
<1> DEFINE r == Entry(obj.repos, obj.repos[i].url)
           n == MergeName[cur][r.url]
<1>3. r \in Repo
  <2>1. obj.repos[i].url \in Asked(obj.repos)
    BY DEF PlanSound, PlanOfCopy, CreateMerge, Asked
  <2> QED BY <1>1, <2>1, EntryTyped
<1>4. CASE /\ merges' = [merges EXCEPT ![n] = NewMerge(cur, obj.uid, r)]
           /\ Answered([plan EXCEPT !.create = @ \ {i}])
           /\ UNCHANGED queue
  <2>1. [plan EXCEPT !.create = @ \ {i}] \in Plan
    BY <1>1 DEF Plan
  <2>2. Busy' /\ faults' \in 0 .. MaxFaults
    BY <1>4, <2>1, AnsweredTyped
  <2>3. NewMerge(cur, obj.uid, r) \in MergeObject
    BY <1>1, <1>3, NewMergeTyped
  <2>4. merges' \in [Name -> MergeObject \cup {NoMerge}]
    <3> HIDE DEF n, r
    <3> QED BY <1>4, <2>3 DEF Typed
  <2>5. StoreOK'
    BY <1>4, <2>4 DEF CreateMerge, Typed, StoreOK
  <2> QED BY <1>1, <2>2, <2>5, EditTyped, BusyTyped DEF CreateMerge, BoundsOK
<1>5. CASE Refused(merges[n].phase # "none")
  <2>1. Busy' /\ faults' \in 0 .. MaxFaults /\ UNCHANGED <<merges, queue>>
    BY <1>5, RefusedTyped
  <2>2. StoreOK'
    BY <2>1 DEF CreateMerge, Typed, StoreOK
  <2> QED BY <1>1, <2>1, <2>2, EditTyped, BusyTyped DEF CreateMerge, BoundsOK
<1> QED BY <1>2, <1>4, <1>5

LEMMA RemoveMergeTypes ==
  ASSUME Typed, NEW u \in URL, RemoveMerge(u)
  PROVE  Typed'
<1> DEFINE n == MergeName[cur][u]
<1>1. cur \in Builds /\ n \in Name /\ plan \in Plan
  BY BusyCur, ConstantsOK DEF RemoveMerge, Typed
<1>2. CASE /\ merges[n].phase # "none"
           /\ SetMerge(n, Deleted(n))
           /\ Answered([plan EXCEPT !.remove = @ \ {u}])
  <2>1. [plan EXCEPT !.remove = @ \ {u}] \in Plan
    BY <1>1 DEF Plan
  <2>2. Busy' /\ faults' \in 0 .. MaxFaults
    BY <1>2, <2>1, AnsweredTyped
  <2>3. StoreOK'
    BY <1>1, <1>2, DeletedTyped, SetMergeTyped DEF RemoveMerge
  <2> QED BY <1>1, <2>2, <2>3, EditTyped, BusyTyped DEF RemoveMerge, BoundsOK
<1>3. CASE Refused(merges[n].phase = "none")
  <2>1. Busy' /\ faults' \in 0 .. MaxFaults /\ UNCHANGED <<merges, queue>>
    BY <1>3, RefusedTyped
  <2>2. StoreOK'
    BY <2>1 DEF RemoveMerge, Typed, StoreOK
  <2> QED BY <1>1, <2>1, <2>2, EditTyped, BusyTyped DEF RemoveMerge, BoundsOK
<1> QED BY <1>2, <1>3 DEF RemoveMerge

LEMMA UpdateMergeTypes ==
  ASSUME Typed, PlanSound, NEW u \in URL, UpdateMerge(u)
  PROVE  Typed'
<1> DEFINE n == MergeName[cur][u]
           m == [merges[n] EXCEPT !.repo = Patched(@, Entry(obj.repos, u))]
<1>1. cur \in Builds /\ n \in Name /\ plan \in Plan /\ obj.repos \in Seq(Repo)
  BY BusyCur, ConstantsOK DEF UpdateMerge, Typed, BuildObject
<1>2. Entry(obj.repos, u) \in Repo
  BY <1>1, EntryTyped DEF UpdateMerge, PlanSound, PlanOfCopy
<1>3. CASE /\ merges[n].phase # "none"
           /\ SetMerge(n, m)
           /\ Answered([plan EXCEPT !.update = @ \ {u}])
  <2>1. [plan EXCEPT !.update = @ \ {u}] \in Plan
    BY <1>1 DEF Plan
  <2>2. Busy' /\ faults' \in 0 .. MaxFaults
    BY <1>3, <2>1, AnsweredTyped
  <2>3. m \in MergeObject
    <3>1. merges[n] \in MergeObject
      BY <1>1, <1>3, MergeTyped
    <3>2. Patched(merges[n].repo, Entry(obj.repos, u)) \in Repo
      BY <1>2, <3>1 DEF Patched, Repo, MergeObject
    <3> QED BY <3>1, <3>2 DEF MergeObject
  <2>4. StoreOK'
    BY <1>1, <1>3, <2>3, SetMergeTyped DEF UpdateMerge
  <2> QED BY <1>1, <2>2, <2>4, EditTyped, BusyTyped DEF UpdateMerge, BoundsOK
<1>4. CASE Refused(merges[n].phase = "none")
  <2>1. Busy' /\ faults' \in 0 .. MaxFaults /\ UNCHANGED <<merges, queue>>
    BY <1>4, RefusedTyped
  <2>2. StoreOK'
    BY <2>1 DEF UpdateMerge, Typed, StoreOK
  <2> QED BY <1>1, <2>1, <2>2, EditTyped, BusyTyped DEF UpdateMerge, BoundsOK
<1> QED BY <1>3, <1>4 DEF UpdateMerge

LEMMA SummarizedTyped ==
  ASSUME NEW c \in Conditions
  PROVE  Summarized(c) \in Conditions
BY DEF Summarized, Conditions, Condition

LEMMA PatchConditionsTypes ==
  ASSUME Typed, PatchConditions
  PROVE  Typed'
<1> DEFINE o == [builds[cur] EXCEPT !.conditions = Summarized(obj.conditions)]
<1>1. cur \in Builds
  BY BusyCur DEF PatchConditions
<1>2. o \in BuildObject /\ o.uid <= MaxUID[cur]
  <2>1. Summarized(obj.conditions) \in Conditions
    BY SummarizedTyped DEF Typed, BuildObject
  <2> QED BY <1>1, <2>1 DEF Typed, BuildObject
<1>3. BoundsOK'
  BY FaultTyped, EditTyped DEF PatchConditions, BoundsOK
<1>4. Busy'
  BY DEF PatchConditions, Busy, Typed
<1>5. CASE SetBuild(cur, o, FALSE)
  <2>1. StoreOK'
    BY <1>1, <1>2, <1>5, SetBuildTyped DEF PatchConditions
  <2> QED BY <1>1, <1>3, <1>4, <2>1, BusyTyped DEF PatchConditions
<1>6. CASE UNCHANGED <<builds, queue>>
  <2>1. StoreOK'
    BY <1>6 DEF PatchConditions, Typed, StoreOK
  <2> QED BY <1>1, <1>3, <1>4, <2>1, BusyTyped DEF PatchConditions
<1> QED BY <1>5, <1>6 DEF PatchConditions

LEMMA PatchObjectTypes ==
  ASSUME Typed, PatchObject
  PROVE  Typed'
<1> DEFINE o == Finalized(builds[cur], obj.finalizer)
<1>1. cur \in Builds /\ builds[cur] \in BuildObject /\ builds[cur].uid <= MaxUID[cur]
  BY BusyCur DEF PatchObject, Typed
<1>2. o \in BuildObject /\ o.uid <= MaxUID[cur]
  <2>1. obj.finalizer \in BOOLEAN
    BY DEF Typed, BuildObject
  <2> QED BY <1>1, <2>1, FinalizedTyped
<1>3. BoundsOK'
  BY FaultTyped, EditTyped DEF PatchObject, BoundsOK
<1>4. StoreOK'
  <2>1. retry \in BOOLEAN
    BY DEF Typed
  <2>2. CASE SetBuild(cur, o, retry)
    <3> HIDE DEF o
    <3> QED BY <1>1, <1>2, <2>1, <2>2, SetBuildTyped DEF PatchObject
  <2>3. CASE SetBuild(cur, o, TRUE)
    <3> HIDE DEF o
    <3> QED BY <1>1, <1>2, <2>3, SetBuildTyped DEF PatchObject
  <2>4. CASE SetBuild(cur, builds[cur], TRUE)
    BY <1>1, <2>4, SetBuildTyped DEF PatchObject
  <2> QED BY <2>2, <2>3, <2>4 DEF PatchObject
<1> QED BY <1>3, <1>4, DoneTyped DEF PatchObject

LEMMA CrashTypes ==
  ASSUME Typed, Crash
  PROVE  Typed'
<1>1. BoundsOK'
  BY FaultTyped, EditTyped DEF Crash, BoundsOK
<1>2. StoreOK'
  BY DEF Crash, Typed, StoreOK
<1> QED BY <1>1, <1>2, DoneTyped DEF Crash

\* The Merge controller, the garbage collector and users leave the worker
\* alone, and what they do to a Merge object or to a Build is typed.
LEMMA MergeAdvancesTyped ==
  ASSUME Typed, NEW n \in Name, merges[n].phase = "live"
  PROVE  /\ [merges[n] EXCEPT !.finalizer = TRUE] \in MergeObject \cup {NoMerge}
         /\ \A r \in BOOLEAN : [merges[n] EXCEPT !.ready = r] \in MergeObject \cup {NoMerge}
<1>1. merges[n] \in MergeObject
  BY MergeTyped
<1> QED BY <1>1 DEF MergeObject

LEMMA SettlingTypes ==
  ASSUME Typed, NEW n \in Name, Settling(n)
  PROVE  Typed'
<1>1. UNCHANGED <<builds, worker, bounds>>
  BY DEF Settling, MergeAdvances, MergeGoes, CollectGarbage
<1>2. StoreOK'
  <2>1. CASE MergeAdvances(n)
    BY <1>1, <2>1, MergeAdvancesTyped, SetMergeTyped DEF MergeAdvances
  <2>2. CASE MergeGoes(n)
    BY <1>1, <2>2, SetMergeTyped DEF MergeGoes
  <2>3. CASE CollectGarbage(n)
    BY <1>1, <2>3, DeletedTyped, SetMergeTyped DEF CollectGarbage
  <2> QED BY <2>1, <2>2, <2>3 DEF Settling
<1>3. BoundsOK'
  BY <1>1 DEF Typed, BoundsOK, bounds
<1> QED BY <1>1, <1>2, <1>3, OutsideTyped

\* What users write.
LEMMA WrittenTyped ==
  ASSUME Typed, NEW b \in Builds
  PROVE  /\ \A rs \in Specs[b] :
              /\ [builds[b] EXCEPT !.repos = rs] \in BuildObject
              /\ \A uid \in Nat : NewBuild(uid, rs) \in BuildObject
         /\ Finalized([builds[b] EXCEPT !.phase = "deleting"], builds[b].finalizer) \in BuildObject
         /\ Finalized([builds[b] EXCEPT !.phase = "deleting"], builds[b].finalizer).uid = builds[b].uid
<1>1. builds[b] \in BuildObject /\ [builds[b] EXCEPT !.phase = "deleting"] \in BuildObject
  BY DEF Typed, BuildObject
<1>2. \A rs \in Specs[b] : [builds[b] EXCEPT !.repos = rs] \in BuildObject
  BY <1>1, SpecsTyped DEF BuildObject
<1>3. \A rs \in Specs[b], uid \in Nat : NewBuild(uid, rs) \in BuildObject
  BY SpecsTyped DEF NewBuild, NoBuild, BuildObject, NoConditions, Conditions, Condition
<1>4. builds[b].finalizer \in BOOLEAN
  BY <1>1 DEF BuildObject
<1> QED BY <1>1, <1>2, <1>3, <1>4, FinalizedTyped DEF BuildObject

LEMMA UserTypes ==
  ASSUME Typed, Users
  PROVE  Typed'
<1>1. UNCHANGED worker /\ BoundsOK'
  BY EditTyped, FaultTyped DEF Users, DeleteBuild, ChangeRepos, RecreateBuild, DeleteMerge,
     MergeFallsBack, BoundsOK, bounds
<1>2. StoreOK'
  <2>1. ASSUME NEW b \in Builds, DeleteBuild(b) PROVE StoreOK'
    <3> DEFINE o == Finalized([builds[b] EXCEPT !.phase = "deleting"], builds[b].finalizer)
    <3>1. o \in BuildObject /\ o.uid <= MaxUID[b]
      BY WrittenTyped DEF Typed
    <3>2. SetBuild(b, o, FALSE) /\ UNCHANGED merges
      BY <2>1 DEF DeleteBuild
    <3> QED BY <3>1, <3>2, SetBuildTyped
  <2>2. ASSUME NEW b \in Builds, NEW rs \in Specs[b], ChangeRepos(b, rs) PROVE StoreOK'
    <3>1. [builds[b] EXCEPT !.repos = rs] \in BuildObject /\ builds[b] \in BuildObject
      BY WrittenTyped DEF Typed
    <3>2. [builds[b] EXCEPT !.repos = rs].uid <= MaxUID[b]
      BY <3>1 DEF Typed, BuildObject
    <3> QED BY <2>2, <3>1, <3>2, SetBuildTyped DEF ChangeRepos
  <2>3. ASSUME NEW b \in Builds, NEW rs \in Specs[b], RecreateBuild(b, rs) PROVE StoreOK'
    <3>1. builds[b].uid + 1 \in Nat /\ builds[b].uid + 1 <= MaxUID[b]
      BY <2>3, ConstantsOK DEF RecreateBuild, Typed, BuildObject
    <3>2. NewBuild(builds[b].uid + 1, rs) \in BuildObject
      BY <3>1, WrittenTyped
    <3>3. NewBuild(builds[b].uid + 1, rs).uid = builds[b].uid + 1
      BY DEF NewBuild, NoBuild
    <3> QED BY <2>3, <3>1, <3>2, <3>3, SetBuildTyped DEF RecreateBuild
  <2>4. ASSUME NEW n \in Name, DeleteMerge(n) PROVE StoreOK'
    BY <2>4, DeletedTyped, SetMergeTyped DEF DeleteMerge
  <2>5. ASSUME NEW n \in Name, MergeFallsBack(n) PROVE StoreOK'
    BY <2>5, MergeAdvancesTyped, SetMergeTyped DEF MergeFallsBack
  <2> QED BY <2>1, <2>2, <2>3, <2>4, <2>5 DEF Users
<1> QED BY <1>1, <1>2, OutsideTyped

LEMMA NextTypes ==
  ASSUME Typed, PlanSound, [Next]_vars
  PROVE  Typed'
<1>1. ASSUME NEW b \in Builds, Reconcile(b) PROVE Typed'
  BY <1>1, ReconcileTypes
<1>2. ASSUME Step PROVE Typed'
  BY <1>2, ListTypes, CreateMergeTypes, RemoveMergeTypes, UpdateMergeTypes,
     PatchConditionsTypes, PatchObjectTypes DEF Step
<1>3. CASE Crash
  BY <1>3, CrashTypes
<1>4. ASSUME NEW n \in Name, Settling(n) PROVE Typed'
  BY <1>4, SettlingTypes
<1>5. CASE Users
  BY <1>5, UserTypes
<1>6. CASE UNCHANGED vars
  BY <1>6 DEF vars, worker, bounds, Typed
<1> QED BY <1>1, <1>2, <1>3, <1>4, <1>5, <1>6 DEF Next

-----------------------------------------------------------------------------
(* Names, labels, and what is read and planned.                            *)

\* A step gives no Merge object another label, and creates none but with that
\* of the Build that is reconciled.
LabelsKept ==
  \A n \in Name : merges'[n].phase # "none" =>
    merges'[n].build = cur \/ (merges[n].phase # "none" /\ merges'[n].build = merges[n].build)

LEMMA SetMergeKeeps ==
  ASSUME Typed, NamesMatch, NEW n \in Name, NEW m, SetMerge(n, m), merges[n].phase # "none",
         m.phase # "none" => m.build = merges[n].build /\ n = MergeName[m.build][m.repo.url]
  PROVE  NamesMatch' /\ LabelsKept
<1>1. merges \in [Name -> MergeObject \cup {NoMerge}]
  BY DEF Typed
<1>2. \A k \in Name : merges'[k] = IF k = n THEN m ELSE merges[k]
  BY <1>1 DEF SetMerge
<1> QED BY <1>2 DEF NamesMatch, LabelsKept

LEMMA SameMergesKeep ==
  ASSUME NamesMatch, UNCHANGED merges
  PROVE  NamesMatch' /\ LabelsKept
BY DEF NamesMatch, LabelsKept

\* Deletion, and changes of finalizer or condition, change neither label nor repository.
LEMMA DeletedKeeps ==
  ASSUME Typed, NEW n \in Name, merges[n].phase # "none"
  PROVE  /\ merges[n] \in MergeObject
         /\ NoMerge.phase = "none"
         /\ Deleted(n).phase # "none" =>
              Deleted(n).build = merges[n].build /\ Deleted(n).repo = merges[n].repo
BY MergeTyped DEF Deleted, MergeObject, NoMerge

LEMMA SettlingKeeps ==
  ASSUME Typed, NamesMatch, NEW n \in Name, Settling(n)
  PROVE  NamesMatch' /\ LabelsKept
<1>1. merges[n].phase # "none"
  BY DEF Settling, MergeAdvances, MergeGoes, CollectGarbage
<1>2. merges[n] \in MergeObject /\ n = MergeName[merges[n].build][merges[n].repo.url]
  BY <1>1, MergeTyped DEF NamesMatch
<1>3. CASE MergeAdvances(n)
  <2>1. PICK m \in {[merges[n] EXCEPT !.finalizer = TRUE], [merges[n] EXCEPT !.ready = TRUE]} : SetMerge(n, m)
    BY <1>3 DEF MergeAdvances
  <2>2. m.build = merges[n].build /\ m.repo = merges[n].repo
    BY <1>2, <2>1 DEF MergeObject
  <2> QED BY <1>1, <1>2, <2>1, <2>2, SetMergeKeeps
<1>4. CASE MergeGoes(n)
  BY <1>1, <1>4, DeletedKeeps, SetMergeKeeps DEF MergeGoes
<1>5. CASE CollectGarbage(n)
  BY <1>1, <1>2, <1>5, DeletedKeeps, SetMergeKeeps DEF CollectGarbage
<1> QED BY <1>3, <1>4, <1>5 DEF Settling

LEMMA UsersKeep ==
  ASSUME Typed, NamesMatch, Users
  PROVE  NamesMatch' /\ LabelsKept
<1>1. CASE UNCHANGED merges
  BY <1>1, SameMergesKeep
<1>2. ASSUME NEW n \in Name, DeleteMerge(n) PROVE NamesMatch' /\ LabelsKept
  <2>1. n = MergeName[merges[n].build][merges[n].repo.url]
    BY <1>2 DEF DeleteMerge, NamesMatch
  <2> QED BY <1>2, <2>1, DeletedKeeps, SetMergeKeeps DEF DeleteMerge
<1>3. ASSUME NEW n \in Name, MergeFallsBack(n) PROVE NamesMatch' /\ LabelsKept
  <2>1. n = MergeName[merges[n].build][merges[n].repo.url] /\ merges[n] \in MergeObject
    BY <1>3, MergeTyped DEF MergeFallsBack, NamesMatch
  <2>2. [merges[n] EXCEPT !.ready = FALSE].build = merges[n].build
    BY <2>1 DEF MergeObject
  <2>3. [merges[n] EXCEPT !.ready = FALSE].repo = merges[n].repo
    BY <2>1 DEF MergeObject
  <2> QED BY <1>3, <2>1, <2>2, <2>3, SetMergeKeeps DEF MergeFallsBack
<1> QED BY <1>1, <1>2, <1>3 DEF Users, DeleteBuild, ChangeRepos, RecreateBuild

LEMMA CreateMergeKeeps ==
  ASSUME Typed, NamesMatch, PlanSound, CreateMerge
  PROVE  NamesMatch' /\ LabelsKept
<1>1. cur \in Builds /\ obj.repos \in Seq(Repo)
  BY BusyCur DEF CreateMerge, Typed, BuildObject
<1>2. PICK i \in plan.create :
        LET r == Entry(obj.repos, obj.repos[i].url)
            n == MergeName[cur][r.url] IN
        \/ merges' = [merges EXCEPT ![n] = NewMerge(cur, obj.uid, r)]
        \/ UNCHANGED merges
  BY DEF CreateMerge, Refused
<1> DEFINE r == Entry(obj.repos, obj.repos[i].url)
           n == MergeName[cur][r.url]
<1>3. r \in Repo
  <2>1. obj.repos[i].url \in Asked(obj.repos)
    BY DEF PlanSound, PlanOfCopy, CreateMerge, Asked
  <2> QED BY <1>1, <2>1, EntryTyped
<1>4. CASE merges' = [merges EXCEPT ![n] = NewMerge(cur, obj.uid, r)]
  <2> HIDE DEF r
  <2>1. \A k \in Name : merges'[k] = IF k = n THEN NewMerge(cur, obj.uid, r) ELSE merges[k]
    BY <1>4 DEF Typed
  <2>2. NewMerge(cur, obj.uid, r).build = cur /\ NewMerge(cur, obj.uid, r).repo = r
    BY DEF NewMerge
  <2> QED BY <2>1, <2>2 DEF NamesMatch, LabelsKept
<1> QED BY <1>2, <1>4, SameMergesKeep

LEMMA RemoveMergeKeeps ==
  ASSUME Typed, NamesMatch, NEW u \in URL, RemoveMerge(u)
  PROVE  NamesMatch' /\ LabelsKept
<1> DEFINE n == MergeName[cur][u]
<1>1. n \in Name
  BY BusyCur, ConstantsOK DEF RemoveMerge
<1>2. CASE merges[n].phase # "none" /\ SetMerge(n, Deleted(n))
  <2>1. n = MergeName[merges[n].build][merges[n].repo.url]
    BY <1>1, <1>2 DEF NamesMatch
  <2> QED BY <1>1, <1>2, <2>1, DeletedKeeps, SetMergeKeeps
<1> QED BY <1>2, SameMergesKeep DEF RemoveMerge, Refused

LEMMA UpdateMergeKeeps ==
  ASSUME Typed, NamesMatch, PlanSound, NEW u \in URL, UpdateMerge(u)
  PROVE  NamesMatch' /\ LabelsKept
<1> DEFINE n == MergeName[cur][u]
           m == [merges[n] EXCEPT !.repo = Patched(@, Entry(obj.repos, u))]
<1>1. n \in Name /\ obj.repos \in Seq(Repo)
  BY BusyCur, ConstantsOK DEF UpdateMerge, Typed, BuildObject
<1>2. CASE merges[n].phase # "none" /\ SetMerge(n, m)
  <2>1. merges[n] \in MergeObject /\ merges[n].build = cur
    BY <1>1, <1>2, MergeTyped DEF UpdateMerge, PlanSound
  <2>2. m.build = cur /\ m.repo = Patched(merges[n].repo, Entry(obj.repos, u))
    BY <2>1 DEF MergeObject
  <2>3. m.repo.url = u
    BY <1>1, <2>2, EntryTyped DEF UpdateMerge, PlanSound, PlanOfCopy, Patched
  <2> HIDE DEF m
  <2> QED BY <1>1, <1>2, <2>1, <2>2, <2>3, SetMergeKeeps
<1> QED BY <1>2, SameMergesKeep DEF UpdateMerge, Refused

LEMMA NextKeeps ==
  ASSUME Typed, NamesMatch, PlanSound, [Next]_vars
  PROVE  NamesMatch' /\ LabelsKept
<1>1. CASE UNCHANGED merges
  BY <1>1, SameMergesKeep
<1>2. CASE CreateMerge \/ \E u \in URL : RemoveMerge(u) \/ UpdateMerge(u)
  BY <1>2, CreateMergeKeeps, RemoveMergeKeeps, UpdateMergeKeeps
<1>3. CASE (\E n \in Name : Settling(n)) \/ Users
  BY <1>3, SettlingKeeps, UsersKeep
<1> QED BY <1>1, <1>2, <1>3 DEF Next, Step, Reconcile, List, PatchConditions, PatchObject, Crash, vars

\* A plan is what List made, and then only shrinks.
LEMMA PlanShrinks ==
  ASSUME Typed, [Next]_vars, pc' = "apply"
  PROVE  /\ cur' = cur /\ cur \in Builds /\ obj' = obj
         /\ \/ pc = "list" /\ plan' = PlanFor(obj.repos, Labelled(cur)) /\ UNCHANGED merges
            \/ /\ pc = "apply" /\ plan'.create \subseteq plan.create
               /\ plan'.remove \subseteq plan.remove /\ plan'.update \subseteq plan.update
<1> DEFINE Shrunk == /\ pc = "apply" /\ plan'.create \subseteq plan.create
                     /\ plan'.remove \subseteq plan.remove /\ plan'.update \subseteq plan.update
<1>1. \A p : Proceed(p) => plan' = p /\ obj' = obj
  BY DEF Proceed, Return
<1>2. \A p : Answered(p) => plan' = p /\ obj' = obj
  BY <1>1 DEF Answered, Return
<1>3. CASE List
  BY <1>1, <1>3, BusyCur DEF List, Return
<1>4. plan \in Plan
  BY DEF Typed
<1>5. CASE CreateMerge
  <2>1. PICK i \in plan.create : Answered([plan EXCEPT !.create = @ \ {i}])
    BY <1>5 DEF CreateMerge, Refused, Return
  <2>2. obj' = obj /\ plan' = [plan EXCEPT !.create = @ \ {i}]
    BY <1>2, <2>1
  <2>3. Shrunk
    BY <1>4, <1>5, <2>2 DEF Plan, CreateMerge
  <2> QED BY <1>5, <2>2, <2>3, BusyCur DEF CreateMerge
<1>6. ASSUME NEW u \in URL, RemoveMerge(u) PROVE cur' = cur /\ cur \in Builds /\ obj' = obj /\ Shrunk
  <2>1. Answered([plan EXCEPT !.remove = @ \ {u}])
    BY <1>6 DEF RemoveMerge, Refused, Return
  <2>2. obj' = obj /\ plan' = [plan EXCEPT !.remove = @ \ {u}]
    BY <1>2, <2>1
  <2>3. Shrunk
    BY <1>4, <1>6, <2>2 DEF Plan, RemoveMerge
  <2> QED BY <1>6, <2>2, <2>3, BusyCur DEF RemoveMerge
<1>7. ASSUME NEW u \in URL, UpdateMerge(u) PROVE cur' = cur /\ cur \in Builds /\ obj' = obj /\ Shrunk
  <2>1. Answered([plan EXCEPT !.update = @ \ {u}])
    BY <1>7 DEF UpdateMerge, Refused, Return
  <2>2. obj' = obj /\ plan' = [plan EXCEPT !.update = @ \ {u}]
    BY <1>2, <2>1
  <2>3. Shrunk
    BY <1>4, <1>7, <2>2 DEF Plan, UpdateMerge
  <2> QED BY <1>7, <2>2, <2>3, BusyCur DEF UpdateMerge
<1>8. CASE UNCHANGED worker
  BY <1>8, BusyCur DEF worker
<1>9. CASE Crash \/ PatchObject \/ PatchConditions \/ \E b \in Builds : Reconcile(b)
  BY <1>8, <1>9 DEF Crash, PatchObject, Done, PatchConditions, Reconcile
<1>10. CASE (\E n \in Name : Settling(n)) \/ Users \/ UNCHANGED vars
  BY <1>8, <1>10 DEF Settling, MergeAdvances, MergeGoes, CollectGarbage, Users, DeleteBuild,
     ChangeRepos, RecreateBuild, DeleteMerge, MergeFallsBack, vars
<1> QED BY <1>3, <1>5, <1>6, <1>7, <1>9, <1>10 DEF Next, Step

LEMMA NextPlanSound ==
  ASSUME Typed, NamesMatch, PlanSound, [Next]_vars
  PROVE  PlanSound'
<1> SUFFICES ASSUME pc' = "apply"
             PROVE  /\ PlanOfCopy'
                    /\ \A u \in plan'.remove \cup plan'.update :
                         LET n == MergeName[cur'][u] IN merges'[n].phase # "none" => merges'[n].build = cur'
  BY DEF PlanSound
<1>1. cur' = cur /\ cur \in Builds /\ obj' = obj /\ LabelsKept
  BY PlanShrinks, NextKeeps
<1>2. \A u \in URL : MergeName[cur][u] \in Name
  BY <1>1, ConstantsOK
<1>3. CASE pc = "list" /\ plan' = PlanFor(obj.repos, Labelled(cur)) /\ UNCHANGED merges
  <2>1. ASSUME NEW u \in plan'.remove \cup plan'.update
        PROVE  LET n == MergeName[cur][u] IN merges[n].phase # "none" => merges[n].build = cur
    <3>1. PICK n \in Labelled(cur) : merges[n].repo.url = u
      BY <1>3, <2>1 DEF PlanFor
    <3>2. merges[n].phase # "none" /\ merges[n].build = cur /\ n = MergeName[cur][u]
      BY <3>1 DEF Labelled, NamesMatch
    <3> QED BY <3>2
  <2>2. PlanOfCopy'
    BY <1>1, <1>3 DEF PlanFor, PlanOfCopy
  <2> QED BY <1>1, <1>3, <2>1, <2>2
<1>4. CASE /\ pc = "apply" /\ plan'.create \subseteq plan.create
           /\ plan'.remove \subseteq plan.remove /\ plan'.update \subseteq plan.update
  <2>1. plan.remove \cup plan.update \subseteq URL
    BY DEF Typed, Plan
  <2> QED BY <1>1, <1>2, <1>4, <2>1 DEF PlanSound, PlanOfCopy, LabelsKept
<1> QED BY <1>3, <1>4, PlanShrinks

-----------------------------------------------------------------------------
(* Builds are attended to.                                                 *)

\* A step that leaves the Merge objects of b alone.
Untouched(b) ==
  \A n \in Name :
    \/ merges[n].phase # "none" /\ merges[n].build = b
    \/ merges'[n].phase # "none" /\ merges'[n].build = b
    => merges'[n] = merges[n]

LEMMA FrameLabelled ==
  ASSUME NEW b \in Builds, Untouched(b)
  PROVE  Labelled(b)' = Labelled(b) /\ \A n \in Labelled(b) : merges'[n] = merges[n]
BY DEF Untouched, Labelled

LEMMA FrameReady ==
  ASSUME NEW b \in Builds, NEW c, Untouched(b), ReadyAs(b, c)
  PROVE  ReadyAs(b, c)'
BY FrameLabelled DEF ReadyAs

LEMMA FrameInSync ==
  ASSUME NEW b \in Builds, Untouched(b), builds'[b].repos = builds[b].repos, InSync(b)
  PROVE  InSync(b)'
BY FrameLabelled DEF InSync

LEMMA FrameSettled ==
  ASSUME NEW b \in Builds, Untouched(b), builds'[b] = builds[b], Settled(b)
  PROVE  Settled(b)'
<1>1. InSync(b)'
  BY FrameInSync DEF Settled
<1>2. ReadyAs(b, builds[b].conditions.ready)
  BY DEF Settled
<1>3. ReadyAs(b, builds[b].conditions.ready)'
  BY <1>2, FrameLabelled DEF ReadyAs
<1> QED BY <1>1, <1>3 DEF Settled

\* The worker did nothing, and b's Merge objects and b itself are as they were.
LEMMA Elsewhere ==
  ASSUME NEW b \in Builds, Attended(b), UNCHANGED worker, queue \subseteq queue',
         b \in queue' \/ (Untouched(b) /\ builds'[b] = builds[b])
  PROVE  Attended(b)'
<1> SUFFICES ASSUME b \notin queue', builds'[b].phase = "live",
                    Untouched(b), builds'[b] = builds[b], b \notin queue, builds[b].phase = "live"
             PROVE  Attended(b)'
  BY DEF Attended
<1>1. UNCHANGED <<pc, cur, obj, plan, retry>>
  BY DEF worker
<1>2. CASE cur # b
  BY <1>1, <1>2, FrameSettled DEF Attended
<1>3. CASE cur = b /\ pc = "list"
  BY <1>1, <1>3 DEF Attended
<1>4. CASE cur = b /\ pc = "apply"
  <2>1. obj = builds[b] /\ PlanSettles(b, obj.repos, plan)
    BY <1>4 DEF Attended
  <2>2. PlanSettles(b, obj.repos, plan)'
    BY <1>1, <2>1, FrameLabelled DEF PlanSettles, ReadyAs
  <2> QED BY <1>1, <1>4, <2>1, <2>2 DEF Attended
<1>5. CASE cur = b /\ pc = "conditions"
  <2>1. retry \/ (/\ InSync(b) /\ obj.conditions.synced = "True"
                  /\ ReadyAs(b, obj.conditions.buildReady))
    BY <1>5 DEF Attended
  <2>2. InSync(b) => InSync(b)'
    BY FrameInSync
  <2>3. ReadyAs(b, obj.conditions.buildReady) => ReadyAs(b, obj.conditions.buildReady)'
    BY <1>1, FrameLabelled DEF ReadyAs
  <2> QED BY <1>1, <1>5, <2>1, <2>2, <2>3 DEF Attended
<1>6. CASE cur = b /\ pc \notin {"list", "apply", "conditions"}
  BY <1>1, <1>6, FrameSettled DEF Attended
<1> QED BY <1>2, <1>3, <1>4, <1>5, <1>6

\* What changes a Merge object tells its Build.
LEMMA MergeTold ==
  ASSUME Typed, NEW b \in Builds, NEW n \in Name, NEW m, SetMerge(n, m),
         m.phase # "none" => m.build = merges[n].build
  PROVE  queue \subseteq queue' /\ (b \in queue' \/ Untouched(b))
<1>1. \A k \in Name : merges'[k] = IF k = n THEN m ELSE merges[k]
  BY DEF Typed, SetMerge
<1>2. queue' = queue \cup Told(n, m)
  BY DEF SetMerge
<1>3. CASE m = merges[n]
  BY <1>1, <1>2, <1>3 DEF Untouched
<1>4. CASE m # merges[n] /\ merges[n].build = b
  BY <1>2, <1>4 DEF Told
<1>5. CASE merges[n].build # b
  BY <1>1, <1>2, <1>5 DEF Untouched
<1> QED BY <1>3, <1>4, <1>5

LEMMA BuildTold ==
  ASSUME Typed, NEW b \in Builds, NEW c \in Builds, NEW o, NEW asked, SetBuild(c, o, asked)
  PROVE  /\ queue \subseteq queue' /\ (b \in queue' \/ builds'[b] = builds[b])
         /\ asked => c \in queue'
BY DEF Typed, SetBuild

LEMMA SameMerges ==
  ASSUME NEW b \in Builds, UNCHANGED merges
  PROVE  Untouched(b)
BY DEF Untouched

LEMMA SettlingAttends ==
  ASSUME Typed, NEW b \in Builds, Attended(b), NEW n \in Name, Settling(n)
  PROVE  Attended(b)'
<1>1. UNCHANGED <<worker, builds>> /\ merges[n].phase # "none"
  BY DEF Settling, MergeAdvances, MergeGoes, CollectGarbage
<1>2. queue \subseteq queue' /\ (b \in queue' \/ Untouched(b))
  <2>1. merges[n] \in MergeObject
    BY <1>1, MergeTyped
  <2>2. CASE MergeAdvances(n)
    <3>1. PICK m \in {[merges[n] EXCEPT !.finalizer = TRUE], [merges[n] EXCEPT !.ready = TRUE]} : SetMerge(n, m)
      BY <2>2 DEF MergeAdvances
    <3>2. m.build = merges[n].build
      BY <2>1, <3>1 DEF MergeObject
    <3> QED BY <3>1, <3>2, MergeTold
  <2>3. CASE MergeGoes(n)
    BY <1>1, <2>3, DeletedKeeps, MergeTold DEF MergeGoes
  <2>4. CASE CollectGarbage(n)
    BY <1>1, <2>4, DeletedKeeps, MergeTold DEF CollectGarbage
  <2> QED BY <2>2, <2>3, <2>4 DEF Settling
<1> QED BY <1>1, <1>2, Elsewhere

LEMMA UsersAttend ==
  ASSUME Typed, NEW b \in Builds, Attended(b), Users
  PROVE  Attended(b)'
<1>1. UNCHANGED worker
  BY DEF Users, DeleteBuild, ChangeRepos, RecreateBuild, DeleteMerge, MergeFallsBack, bounds
<1>2. ASSUME NEW c \in Builds, NEW o, SetBuild(c, o, FALSE), UNCHANGED merges
      PROVE  Attended(b)'
  BY <1>1, <1>2, BuildTold, SameMerges, Elsewhere
<1>3. ASSUME NEW n \in Name, DeleteMerge(n) \/ MergeFallsBack(n) PROVE Attended(b)'
  <2>1. merges[n].phase # "none" /\ UNCHANGED builds
    BY <1>3 DEF DeleteMerge, MergeFallsBack
  <2>2. queue \subseteq queue' /\ (b \in queue' \/ Untouched(b))
    <3>1. CASE DeleteMerge(n)
      BY <2>1, <3>1, DeletedKeeps, MergeTold DEF DeleteMerge
    <3>2. CASE MergeFallsBack(n)
      <4>1. [merges[n] EXCEPT !.ready = FALSE].build = merges[n].build
        BY <2>1, MergeTyped DEF MergeObject
      <4> QED BY <3>2, <4>1, MergeTold DEF MergeFallsBack
    <3> QED BY <1>3, <3>1, <3>2
  <2> QED BY <1>1, <2>1, <2>2, Elsewhere
<1>4. ASSUME NEW c \in Builds, DeleteBuild(c) PROVE Attended(b)'
  BY <1>2, <1>4 DEF DeleteBuild
<1>5. ASSUME NEW c \in Builds, NEW rs, ChangeRepos(c, rs) PROVE Attended(b)'
  BY <1>2, <1>5 DEF ChangeRepos
<1>6. ASSUME NEW c \in Builds, NEW rs, RecreateBuild(c, rs) PROVE Attended(b)'
  BY <1>2, <1>6 DEF RecreateBuild
<1> QED BY <1>3, <1>4, <1>5, <1>6 DEF Users

\* The worker acts for another Build, and leaves b as it was or tells it.
LEMMA Others ==
  ASSUME NEW b \in Builds, Attended(b), cur # b, cur' # b, b \in queue => b \in queue',
         b \in queue' \/ (Untouched(b) /\ builds'[b] = builds[b])
  PROVE  Attended(b)'
BY FrameSettled DEF Attended

LEMMA ReconcileAttends ==
  ASSUME Typed, NEW b \in Builds, Attended(b), NEW c \in Builds, Reconcile(c)
  PROVE  Attended(b)'
<1>1. cur = Nobody /\ cur # b /\ Untouched(b) /\ UNCHANGED builds
  BY ConstantsOK, SameMerges DEF Reconcile, Typed
<1>2. CASE b # c
  <2>1. cur' # b /\ (b \in queue => b \in queue')
    BY <1>1, <1>2 DEF Reconcile, worker
  <2> QED BY <1>1, <2>1, Others
<1>3. CASE b = c /\ pc' = "list" /\ cur' = b /\ obj' = builds[b]
  BY <1>1, <1>3 DEF Attended
<1>4. CASE b = c /\ builds[b].phase = "none"
  BY <1>1, <1>4 DEF Attended
<1>5. CASE UNCHANGED <<queue, worker>>
  BY <1>1, <1>5, Elsewhere
<1> QED BY <1>2, <1>3, <1>4, <1>5 DEF Reconcile

\* Once the plan is empty, the Build is settled.
LEMMA PlanDone ==
  ASSUME Typed', NEW b \in Builds, NEW rs \in Seq(Repo), NEW p, PlanSettles(b, rs, p)',
         builds'[b].repos = rs, p.create = {}, p.remove = {}, p.update = {}
  PROVE  InSync(b)'
<1>1. ASSUME NEW u \in Asked(rs)
      PROVE  \E n \in Labelled(b)' : /\ merges'[n].repo.url = u
                                     /\ (OnceEach(Entry(rs, u).branches) =>
                                          Members(merges'[n].repo.branches) = Members(Entry(rs, u).branches))
  <2>1. PICK n \in Labelled(b)' :
          merges'[n].repo.url = u /\ BranchEqual(Entry(rs, u).branches, merges'[n].repo.branches)
    BY <1>1 DEF PlanSettles
  <2>2. Entry(rs, u).branches \in Seq(BranchName) /\ merges'[n].repo.branches \in Seq(BranchName)
    <3>1. n \in Name /\ merges'[n].phase # "none"
      BY <2>1 DEF Labelled
    <3>2. merges'[n] \in MergeObject
      BY <3>1 DEF Typed, NoMerge
    <3>3. Entry(rs, u) \in Repo /\ merges'[n].repo \in Repo
      BY <3>2, EntryTyped DEF MergeObject
    <3> QED BY <3>3 DEF Repo
  <2>3. OnceEach(Entry(rs, u).branches) =>
          Members(merges'[n].repo.branches) = Members(Entry(rs, u).branches)
    BY <2>1, <2>2, BranchEqualIsSameBranches
  <2> QED BY <2>1, <2>3
<1>2. \A n \in Labelled(b)' : merges'[n].phase = "live" => merges'[n].repo.url \in Asked(rs)
  BY DEF PlanSettles
<1> QED BY <1>1, <1>2 DEF InSync

\* Going on with a plan that leaves the Build settled.
LEMMA ProceedAttends ==
  ASSUME Typed, Typed', NEW b \in Builds, cur = b, cur' = b, pc # "idle",
         UNCHANGED builds, obj = builds[b],
         NEW p \in Plan, Proceed(p), NEW rs, rs = obj.repos, PlanSettles(b, rs, p)'
  PROVE  Attended(b)'
<1>1. obj \in BuildObject /\ rs \in Seq(Repo)
  BY DEF Typed, BuildObject
<1>2. CASE p.create = {} /\ p.remove = {} /\ p.update = {}
  <2>1. pc' = "conditions" /\ obj' = Concluded(obj, p.ready)
    BY <1>2 DEF Proceed, Return
  <2>2. /\ obj'.repos = rs /\ obj'.conditions.synced = "True"
        /\ obj'.conditions.buildReady = IF p.ready THEN "True" ELSE "False"
    BY <1>1, <2>1 DEF Concluded, BuildObject, Conditions
  <2>3. InSync(b)'
    BY <1>1, <1>2, PlanDone
  <2>4. ReadyAs(b, obj.conditions.buildReady)'
    BY <2>2 DEF PlanSettles, ReadyAs
  <2> QED BY <2>1, <2>2, <2>3, <2>4 DEF Attended
<1>3. CASE ~(p.create = {} /\ p.remove = {} /\ p.update = {})
  <2>1. pc' = "apply" /\ plan' = p /\ obj' = obj
    BY <1>3 DEF Proceed
  <2>2. PlanSettles(b, obj.repos, plan)'
    BY <2>1 DEF PlanSettles, ReadyAs
  <2> QED BY <2>1, <2>2 DEF Attended
<1> QED BY <1>2, <1>3

\* What List plans to do leaves the Build settled.
LEMMA PlanForSettles ==
  ASSUME Typed, NEW b \in Builds, NEW rs \in Seq(Repo)
  PROVE  PlanSettles(b, rs, PlanFor(rs, Labelled(b)))
<1> DEFINE p == PlanFor(rs, Labelled(b))
           urls == {merges[n].repo.url : n \in Labelled(b)}
<1>1. /\ p.create = {i \in DOMAIN rs : rs[i].url \notin urls}
      /\ p.remove = urls \ Asked(rs)
      /\ p.update = {u \in urls \cap Asked(rs) :
                       \E n \in Labelled(b) : merges[n].repo.url = u /\ ~RepoEqual(Entry(rs, u), merges[n].repo)}
      /\ p.ready = (\A n \in Labelled(b) : merges[n].ready)
  BY DEF PlanFor
<1> HIDE DEF p
<1>2. ASSUME NEW u \in Asked(rs)
      PROVE  \/ \E i \in p.create : rs[i].url = u
             \/ u \in p.update
             \/ \E n \in Labelled(b) :
                  merges[n].repo.url = u /\ BranchEqual(Entry(rs, u).branches, merges[n].repo.branches)
  <2>1. CASE u \notin urls
    BY <1>1, <2>1 DEF Asked
  <2>2. CASE u \in urls
    <3>1. PICK n \in Labelled(b) : merges[n].repo.url = u
      BY <2>2
    <3>2. CASE RepoEqual(Entry(rs, u), merges[n].repo)
      BY <3>1, <3>2 DEF RepoEqual
    <3>3. CASE ~RepoEqual(Entry(rs, u), merges[n].repo)
      BY <1>1, <2>2, <3>1, <3>3
    <3> QED BY <3>2, <3>3
  <2> QED BY <2>1, <2>2
<1>3. \A n \in Labelled(b) : merges[n].repo.url \in Asked(rs) \cup p.remove
  BY <1>1
<1>4. ReadyAs(b, IF p.ready THEN "True" ELSE "False")
  BY <1>1 DEF ReadyAs
<1> QED BY <1>2, <1>3, <1>4 DEF PlanSettles, p

LEMMA ListAttends ==
  ASSUME Typed, Typed', NEW b \in Builds, Attended(b), List
  PROVE  Attended(b)'
<1>1. cur \in Builds /\ cur' = cur /\ Untouched(b) /\ UNCHANGED <<builds, merges, queue>> /\ pc = "list"
  BY BusyCur, SameMerges DEF List
<1>2. CASE cur # b
  BY <1>1, <1>2, Others
<1>3. CASE cur = b /\ (b \in queue \/ builds[b].phase # "live")
  BY <1>1, <1>3 DEF Attended
<1>4. CASE cur = b /\ obj = builds[b] /\ builds[b].phase = "live"
  <2>1. CASE Return([obj EXCEPT !.finalizer = TRUE], TRUE) \/ Return(NotSynced(obj), TRUE)
    BY <1>1, <1>4, <2>1 DEF Attended, Return
  <2>2. CASE Proceed(PlanFor(obj.repos, Labelled(cur)))
    <3>1. PICK rs \in Seq(Repo) : rs = obj.repos
      BY DEF Typed, BuildObject
    <3>2. PICK p \in Plan : p = PlanFor(rs, Labelled(b))
      BY PlanTyped
    <3>3. PlanSettles(b, rs, p)
      BY <3>2, PlanForSettles
    <3>4. PlanSettles(b, rs, p)'
      BY <1>1, <3>3, FrameLabelled DEF PlanSettles, ReadyAs
    <3> QED BY <1>1, <1>4, <2>2, <3>1, <3>2, <3>4, ProceedAttends
  <2> QED BY <1>4, <2>1, <2>2 DEF List
<1> QED BY <1>1, <1>2, <1>3, <1>4 DEF Attended

\* A reconcile that failed is repeated.
LEMMA FailedAttends ==
  ASSUME NEW b \in Builds, cur' = b, NEW o, Return(o, TRUE)
  PROVE  Attended(b)'
BY DEF Attended, Return

LEMMA CreateMergeAttends ==
  ASSUME Typed, Typed', PlanSound, NEW b \in Builds, Attended(b), CreateMerge
  PROVE  Attended(b)'
<1>1. cur \in Builds /\ cur' = cur /\ UNCHANGED builds /\ queue' = queue /\ pc = "apply" /\ plan \in Plan
  BY BusyCur DEF CreateMerge, Refused, Typed
<1>2. PICK rs \in Seq(Repo) : rs = obj.repos
  BY DEF Typed, BuildObject
<1>3. PICK i \in plan.create :
        LET r == Entry(rs, rs[i].url)
            n == MergeName[cur][r.url] IN
        \/ /\ merges[n].phase = "none"
           /\ merges' = [merges EXCEPT ![n] = NewMerge(cur, obj.uid, r)]
           /\ Answered([plan EXCEPT !.create = @ \ {i}])
        \/ UNCHANGED merges /\ Return(NotSynced(obj), TRUE)
  BY <1>2 DEF CreateMerge, Refused
<1>4. PICK r : r = Entry(rs, rs[i].url)
  OBVIOUS
<1>5. i \in DOMAIN rs /\ rs[i].url \in Asked(rs) /\ r \in Repo /\ r.url = rs[i].url
  <2>1. i \in DOMAIN rs /\ rs[i].url \in Asked(rs)
    BY <1>1, <1>2 DEF PlanSound, PlanOfCopy, Asked
  <2> QED BY <1>4, <2>1, EntryTyped
<1>6. PICK n \in Name : n = MergeName[cur][r.url]
  BY <1>1, <1>5, ConstantsOK DEF Repo
<1>7. CASE UNCHANGED merges /\ Return(NotSynced(obj), TRUE)
  BY <1>1, <1>7, FailedAttends, SameMerges, Others
<1>8. CASE /\ merges[n].phase = "none"
           /\ merges' = [merges EXCEPT ![n] = NewMerge(cur, obj.uid, r)]
           /\ Answered([plan EXCEPT !.create = @ \ {i}])
  <2>1. \A k \in Name : merges'[k] = IF k = n THEN NewMerge(cur, obj.uid, r) ELSE merges[k]
    BY <1>8 DEF Typed
  <2>2. /\ merges'[n].phase = "live" /\ merges'[n].build = cur /\ merges'[n].repo = r
        /\ ~merges'[n].finalizer /\ ~merges'[n].ready
    BY <2>1 DEF NewMerge
  <2>3. CASE b # cur
    <3>1. Untouched(b)
      BY <1>8, <2>1, <2>2, <2>3 DEF Untouched
    <3> QED BY <1>1, <2>3, <3>1, Others
  <2>4. CASE b = cur /\ Return(NotSynced(obj), TRUE)
    BY <1>1, <2>4, FailedAttends
  <2>5. CASE b = cur /\ (b \in queue \/ builds[b].phase # "live")
    BY <1>1, <2>5 DEF Attended
  <2>6. CASE b = cur /\ b \notin queue /\ builds[b].phase = "live" /\ Proceed([plan EXCEPT !.create = @ \ {i}])
    <3>1. obj = builds[b] /\ PlanSettles(b, rs, plan)
      BY <1>1, <1>2, <2>6 DEF Attended
    <3>2. PICK p \in Plan : p = [plan EXCEPT !.create = @ \ {i}]
      BY <1>1 DEF Plan
    <3>3. /\ p.create = plan.create \ {i} /\ p.remove = plan.remove
          /\ p.update = plan.update /\ p.ready = plan.ready
      BY <1>1, <3>2 DEF Plan
    <3>4. Labelled(b)' = Labelled(b) \cup {n} /\ \A k \in Labelled(b) : merges'[k] = merges[k]
      BY <1>8, <2>1, <2>2, <2>6 DEF Labelled
    <3>5. ASSUME NEW u \in Asked(rs)
          PROVE  \/ \E j \in p.create : rs[j].url = u
                 \/ u \in p.update
                 \/ \E k \in Labelled(b)' :
                      merges'[k].repo.url = u /\ BranchEqual(Entry(rs, u).branches, merges'[k].repo.branches)
      <4>1. CASE u = rs[i].url
        <5>1. BranchEqual(Entry(rs, u).branches, merges'[n].repo.branches)
          BY <1>4, <2>2, <4>1 DEF BranchEqual
        <5> QED BY <1>5, <2>2, <3>4, <4>1, <5>1
      <4>2. CASE u # rs[i].url
        BY <3>1, <3>3, <3>4, <4>2 DEF PlanSettles
      <4> QED BY <4>1, <4>2
    <3>6. \A k \in Labelled(b)' : merges'[k].phase = "live" => merges'[k].repo.url \in Asked(rs) \cup p.remove
      BY <1>5, <2>2, <3>1, <3>3, <3>4 DEF PlanSettles
    <3>7. ReadyAs(b, IF p.ready THEN "True" ELSE "False")'
      BY <2>2, <3>1, <3>3, <3>4 DEF PlanSettles, ReadyAs
    <3>8. PlanSettles(b, rs, p)'
      BY <3>5, <3>6, <3>7 DEF PlanSettles
    <3> QED BY <1>1, <1>2, <2>6, <3>1, <3>2, <3>8, ProceedAttends
  <2> QED BY <1>8, <2>3, <2>4, <2>5, <2>6 DEF Answered
<1> QED BY <1>3, <1>4, <1>6, <1>7, <1>8

LEMMA RemoveMergeAttends ==
  ASSUME Typed, Typed', NamesMatch, PlanSound,
         NEW b \in Builds, Attended(b), NEW u \in URL, RemoveMerge(u)
  PROVE  Attended(b)'
<1>1. cur \in Builds /\ cur' = cur /\ UNCHANGED builds /\ pc = "apply" /\ u \in plan.remove /\ plan \in Plan
  BY BusyCur DEF RemoveMerge, Typed
<1>2. PICK n \in Name : n = MergeName[cur][u]
  BY <1>1, ConstantsOK
<1>3. CASE Refused(merges[n].phase = "none")
  BY <1>1, <1>3, FailedAttends, SameMerges, Others DEF Refused
<1>4. CASE /\ merges[n].phase # "none" /\ SetMerge(n, Deleted(n))
           /\ Answered([plan EXCEPT !.remove = @ \ {u}])
  <2>1. merges[n].build = cur /\ merges[n] \in MergeObject
    BY <1>1, <1>2, <1>4, MergeTyped DEF PlanSound
  <2>2. queue \subseteq queue' /\ (b \in queue' \/ Untouched(b))
    BY <1>4, DeletedKeeps, MergeTold
  <2>3. CASE b # cur
    BY <1>1, <2>2, <2>3, Others
  <2>4. CASE b = cur /\ Return(NotSynced(obj), TRUE)
    BY <1>1, <2>4, FailedAttends
  <2>5. CASE b \in queue' \/ builds[b].phase # "live"
    BY <1>1, <2>5 DEF Attended
  <2>6. CASE /\ b = cur /\ b \notin queue' /\ builds[b].phase = "live"
             /\ Proceed([plan EXCEPT !.remove = @ \ {u}])
    <3>1. PICK rs \in Seq(Repo) : rs = obj.repos
      BY DEF Typed, BuildObject
    <3>2. obj = builds[b] /\ PlanSettles(b, rs, plan)
      BY <1>1, <2>2, <2>6, <3>1 DEF Attended
    <3>3. PICK p \in Plan : p = [plan EXCEPT !.remove = @ \ {u}]
      BY <1>1 DEF Plan
    <3>4. /\ p.create = plan.create /\ p.remove = plan.remove \ {u}
          /\ p.update = plan.update /\ p.ready = plan.ready
      BY <1>1, <3>3 DEF Plan
    <3>5. Deleted(n) = merges[n] /\ merges' = merges
      BY <1>4, <2>1, <2>6 DEF SetMerge, Told, Typed
    <3>6. merges[n].phase = "deleting"
      BY <1>4, <2>1, <3>5 DEF Deleted, NoMerge, MergeObject
    <3>7. \A k \in Labelled(b) : merges[k].phase = "live" => merges[k].repo.url \in Asked(rs) \cup p.remove
      BY <1>2, <2>6, <3>2, <3>4, <3>6 DEF PlanSettles, Labelled, NamesMatch
    <3>8. PlanSettles(b, rs, p)
      BY <3>2, <3>4, <3>7 DEF PlanSettles
    <3>9. PlanSettles(b, rs, p)'
      BY <3>5, <3>8, SameMerges, FrameLabelled DEF PlanSettles, ReadyAs
    <3> QED BY <1>1, <2>6, <3>1, <3>2, <3>3, <3>9, ProceedAttends
  <2> QED BY <1>4, <2>3, <2>4, <2>5, <2>6 DEF Answered
<1> QED BY <1>2, <1>3, <1>4 DEF RemoveMerge

LEMMA UpdateMergeAttends ==
  ASSUME Typed, Typed', NamesMatch, PlanSound,
         NEW b \in Builds, Attended(b), NEW u \in URL, UpdateMerge(u)
  PROVE  Attended(b)'
<1>1. cur \in Builds /\ cur' = cur /\ UNCHANGED builds /\ pc = "apply" /\ u \in plan.update /\ plan \in Plan
  BY BusyCur DEF UpdateMerge, Typed
<1>2. PICK n \in Name : n = MergeName[cur][u]
  BY <1>1, ConstantsOK
<1>3. PICK rs \in Seq(Repo) : rs = obj.repos
  BY DEF Typed, BuildObject
<1>4. PICK m : m = [merges[n] EXCEPT !.repo = Patched(@, Entry(rs, u))]
  OBVIOUS
<1>5. CASE Refused(merges[n].phase = "none")
  BY <1>1, <1>5, FailedAttends, SameMerges, Others DEF Refused
<1>6. CASE /\ merges[n].phase # "none" /\ SetMerge(n, m)
           /\ Answered([plan EXCEPT !.update = @ \ {u}])
  <2>1. merges[n].build = cur /\ merges[n] \in MergeObject /\ u \in Asked(rs)
    BY <1>1, <1>2, <1>3, <1>6, MergeTyped DEF PlanSound, PlanOfCopy
  <2>2. m.build = merges[n].build /\ m.repo = Patched(merges[n].repo, Entry(rs, u))
    BY <1>4, <2>1 DEF MergeObject
  <2>3. queue \subseteq queue' /\ (b \in queue' \/ Untouched(b))
    BY <1>6, <2>2, MergeTold
  <2>4. CASE b # cur
    BY <1>1, <2>3, <2>4, Others
  <2>5. CASE b = cur /\ Return(NotSynced(obj), TRUE)
    BY <1>1, <2>5, FailedAttends
  <2>6. CASE b \in queue' \/ builds[b].phase # "live"
    BY <1>1, <2>6 DEF Attended
  <2>7. CASE /\ b = cur /\ b \notin queue' /\ builds[b].phase = "live"
             /\ Proceed([plan EXCEPT !.update = @ \ {u}])
    <3>1. obj = builds[b] /\ PlanSettles(b, rs, plan)
      BY <1>1, <1>3, <2>3, <2>7 DEF Attended
    <3>2. PICK p \in Plan : p = [plan EXCEPT !.update = @ \ {u}]
      BY <1>1 DEF Plan
    <3>3. /\ p.create = plan.create /\ p.remove = plan.remove
          /\ p.update = plan.update \ {u} /\ p.ready = plan.ready
      BY <1>1, <3>2 DEF Plan
    <3>4. m = merges[n] /\ merges' = merges
      BY <1>6, <2>1, <2>7 DEF SetMerge, Told, Typed
    <3>5. merges[n].repo.url = u /\ merges[n].repo.branches = Entry(rs, u).branches
      BY <2>1, <2>2, <3>4, EntryTyped DEF Patched
    <3>6. n \in Labelled(b) /\ BranchEqual(Entry(rs, u).branches, merges[n].repo.branches)
      BY <1>6, <2>1, <2>7, <3>5 DEF Labelled, BranchEqual
    <3>7. PlanSettles(b, rs, p)
      BY <3>1, <3>3, <3>5, <3>6 DEF PlanSettles
    <3>8. PlanSettles(b, rs, p)'
      BY <3>4, <3>7, SameMerges, FrameLabelled DEF PlanSettles, ReadyAs
    <3> QED BY <1>1, <1>3, <2>7, <3>1, <3>2, <3>8, ProceedAttends
  <2> QED BY <1>6, <2>4, <2>5, <2>6, <2>7 DEF Answered
<1> QED BY <1>2, <1>3, <1>4, <1>5, <1>6 DEF UpdateMerge

\* A Build whose conditions say what they should is Settled.
LEMMA SummarizedSettled ==
  ASSUME NEW c \in Conditions, c.synced = "True", c.buildReady \in {"True", "False"}
  PROVE  /\ Summarized(c).synced = "True"
         /\ Summarized(c).ready = c.buildReady /\ Summarized(c).buildReady = c.buildReady
BY DEF Summarized, Conditions, Condition

LEMMA PatchConditionsAttends ==
  ASSUME Typed, NEW b \in Builds, Attended(b), PatchConditions
  PROVE  Attended(b)'
<1>1. cur \in Builds /\ cur' = cur /\ pc = "conditions" /\ pc' = "object" /\ Untouched(b)
      /\ UNCHANGED <<merges, obj, plan>>
  BY BusyCur, SameMerges DEF PatchConditions
<1>2. PICK o : o = [builds[cur] EXCEPT !.conditions = Summarized(obj.conditions)]
  OBVIOUS
<1>3. \/ SetBuild(cur, o, FALSE) /\ (retry' = retry \/ retry' = TRUE)
      \/ UNCHANGED <<builds, queue>> /\ retry' = TRUE
  BY <1>2 DEF PatchConditions
<1>4. CASE b # cur
  <2>1. queue \subseteq queue' /\ (b \in queue' \/ builds'[b] = builds[b])
    BY <1>1, <1>3, BuildTold
  <2> QED BY <1>1, <1>4, <2>1, Others
<1>5. CASE b = cur /\ retry' = TRUE
  BY <1>1, <1>5 DEF Attended
<1>6. CASE b = cur /\ SetBuild(cur, o, FALSE) /\ retry' = retry
  <2>1. CASE o # builds[b]
    BY <1>6, <2>1 DEF SetBuild, Attended
  <2>2. CASE o = builds[b]
    <3>1. builds' = builds /\ queue' = queue
      BY <1>6, <2>2 DEF SetBuild, Typed
    <3>2. CASE b \in queue \/ builds[b].phase # "live" \/ retry
      BY <1>1, <1>6, <3>1, <3>2 DEF Attended
    <3>3. CASE InSync(b) /\ obj.conditions.synced = "True" /\ ReadyAs(b, obj.conditions.buildReady)
      <4>1. obj.conditions \in Conditions /\ builds[b].conditions = Summarized(obj.conditions)
        BY <1>2, <1>6, <2>2 DEF Typed, BuildObject
      <4>2. /\ builds[b].conditions.synced = "True"
            /\ builds[b].conditions.ready = obj.conditions.buildReady
            /\ builds[b].conditions.buildReady = obj.conditions.buildReady
        BY <3>3, <4>1, SummarizedSettled DEF ReadyAs
      <4>3. Settled(b)
        BY <3>3, <4>2 DEF Settled
      <4>4. Settled(b)'
        BY <1>1, <3>1, <4>3, FrameSettled
      <4> QED BY <1>1, <1>6, <4>4 DEF Attended
    <3> QED BY <1>1, <1>6, <3>2, <3>3 DEF Attended
  <2> QED BY <2>1, <2>2
<1> QED BY <1>3, <1>4, <1>5, <1>6

LEMMA PatchObjectAttends ==
  ASSUME Typed, NEW b \in Builds, Attended(b), PatchObject
  PROVE  Attended(b)'
<1>1. cur \in Builds /\ pc = "object" /\ cur' = Nobody /\ cur' # b /\ Untouched(b) /\ retry \in BOOLEAN
  BY BusyCur, SameMerges, ConstantsOK DEF PatchObject, Done, Typed
<1>2. PICK o \in BuildObject : o = Finalized(builds[cur], obj.finalizer)
  BY <1>1, FinalizedTyped DEF Typed, BuildObject
<1>3. \E p, again : SetBuild(cur, p, again) /\ (again = retry \/ again = TRUE)
  BY <1>2 DEF PatchObject
<1>4. queue \subseteq queue' /\ (b \in queue' \/ builds'[b] = builds[b])
  BY <1>1, <1>3, BuildTold
<1>5. CASE b # cur
  BY <1>1, <1>4, <1>5, Others
<1>6. CASE b = cur /\ retry
  BY <1>1, <1>3, <1>6, BuildTold DEF Attended
<1>7. CASE b = cur /\ ~retry
  <2>1. CASE b \in queue' \/ builds[b].phase # "live"
    BY <1>4, <2>1 DEF Attended
  <2>2. CASE b \notin queue' /\ builds[b].phase = "live"
    <3>1. Settled(b)
      BY <1>1, <1>4, <1>7, <2>2 DEF Attended
    <3> QED BY <1>1, <1>4, <2>2, <3>1, FrameSettled DEF Attended
  <2> QED BY <2>1, <2>2
<1> QED BY <1>1, <1>5, <1>6, <1>7

LEMMA CrashAttends ==
  ASSUME NEW b \in Builds, Crash
  PROVE  Attended(b)'
BY DEF Crash, Attended

LEMMA NextAttends ==
  ASSUME IInv, Typed', [Next]_vars, NEW b \in Builds
  PROVE  Attended(b)'
<1>1. Typed /\ NamesMatch /\ PlanSound /\ Attended(b)
  BY DEF IInv
<1>2. ASSUME NEW c \in Builds, Reconcile(c) PROVE Attended(b)'
  BY <1>1, <1>2, ReconcileAttends
<1>3. CASE List
  BY <1>1, <1>3, ListAttends
<1>4. CASE CreateMerge
  BY <1>1, <1>4, CreateMergeAttends
<1>5. ASSUME NEW u \in URL, RemoveMerge(u) PROVE Attended(b)'
  BY <1>1, <1>5, RemoveMergeAttends
<1>6. ASSUME NEW u \in URL, UpdateMerge(u) PROVE Attended(b)'
  BY <1>1, <1>6, UpdateMergeAttends
<1>7. CASE PatchConditions
  BY <1>1, <1>7, PatchConditionsAttends
<1>8. CASE PatchObject
  BY <1>1, <1>8, PatchObjectAttends
<1>9. CASE Crash
  BY <1>9, CrashAttends
<1>10. ASSUME NEW n \in Name, Settling(n) PROVE Attended(b)'
  BY <1>1, <1>10, SettlingAttends
<1>11. CASE Users
  BY <1>1, <1>11, UsersAttend
<1>12. CASE UNCHANGED vars
  BY <1>1, <1>12, SameMerges, Elsewhere DEF vars
<1> QED BY <1>2, <1>3, <1>4, <1>5, <1>6, <1>7, <1>8, <1>9, <1>10, <1>11, <1>12 DEF Next, Step

-----------------------------------------------------------------------------
(* The theorems.                                                           *)

LEMMA InitInvariant == Init => IInv
<1> SUFFICES ASSUME Init PROVE IInv
  OBVIOUS
<1>1. Typed
  BY InitTypes
<1>2. NamesMatch /\ PlanSound
  BY DEF Init, NamesMatch, NoMerge, PlanSound
<1>3. \A b \in Builds : Attended(b)
  BY DEF Init, Attended
<1> QED BY <1>1, <1>2, <1>3 DEF IInv

LEMMA NextInvariant == IInv /\ [Next]_vars => IInv'
<1> SUFFICES ASSUME IInv, [Next]_vars PROVE IInv'
  OBVIOUS
<1>1. Typed /\ NamesMatch /\ PlanSound
  BY DEF IInv
<1>2. Typed'
  BY <1>1, NextTypes
<1>3. NamesMatch' /\ PlanSound'
  BY <1>1, NextKeeps, NextPlanSound
<1>4. \A b \in Builds : Attended(b)'
  BY <1>2, NextAttends
<1> QED BY <1>2, <1>3, <1>4 DEF IInv

\* Whatever fails, crashes or is edited, either a reconcile is due for a
\* Build, or the one under way leaves it settled: in sync, but for the branches
\* of an entry that names one twice, and Ready as its Merge objects are.
THEOREM Invariance == Spec => []IInv
BY InitInvariant, NextInvariant, PTL DEF Spec

\* The variables of the Build controller keep their types, and a plan that is
\* carried out is about the worker's copy to its end.
THEOREM TypeCorrect == Spec => []TypeOK
<1>1. IInv => TypeOK
  BY DEF IInv, PlanSound, TypeOK
<1> QED BY <1>1, Invariance, PTL

LEMMA AtRestSettled ==
  ASSUME IInv, NEW b \in Builds, AtRest(b)
  PROVE  Settled(b)
BY ConstantsOK DEF IInv, Typed, AtRest, Attended

\* No wake-up is lost: a Build for which no reconcile is due has a Merge object
\* for each repository it asks for, and keeps no other, for any numbers of
\* failures, crashes and edits; each has the branches asked for, in whatever
\* order, unless its entry in the Build names one twice.
THEOREM RestsInSync == Spec => []InSyncAtRest
<1>1. IInv => InSyncAtRest
  BY AtRestSettled DEF InSyncAtRest, Settled
<1> QED BY <1>1, Invariance, PTL

\* Nor is a change of a Merge: a Build for which no reconcile is due says that
\* it is ready exactly as its Merge objects are.
THEOREM RestsReady == Spec => []ReadyAtRest
<1>1. IInv => ReadyAtRest
  BY AtRestSettled DEF ReadyAtRest, Settled, ReadyAs
<1> QED BY <1>1, Invariance, PTL

\* The worker never changes the Merge object of another Build, however names
\* clash.
THEOREM TouchesItsOwn == Spec => OwnMergesOnly
<1>1. ASSUME IInv, [Next]_vars, pc = "apply", worker' # worker,
             NEW n \in Name, merges[n].phase # "none", merges'[n] # merges[n]
      PROVE  merges[n].build = cur
  <2>1. Typed /\ PlanSound
    BY <1>1 DEF IInv
  <2>2. ASSUME NEW k \in Name, NEW m, SetMerge(k, m) PROVE n = k
    BY <1>1, <2>1, <2>2 DEF SetMerge, Typed
  <2>3. CASE CreateMerge
    BY <1>1, <2>1, <2>3 DEF CreateMerge, Refused, Typed
  <2>4. ASSUME NEW u \in URL, RemoveMerge(u) PROVE merges[n].build = cur
    <3>1. MergeName[cur][u] \in Name
      BY <1>1, <2>1, BusyCur, ConstantsOK
    <3>2. n = MergeName[cur][u] /\ u \in plan.remove
      BY <1>1, <2>2, <2>4, <3>1 DEF RemoveMerge, Refused
    <3> QED BY <1>1, <2>1, <3>2 DEF PlanSound
  <2>5. ASSUME NEW u \in URL, UpdateMerge(u) PROVE merges[n].build = cur
    <3>1. MergeName[cur][u] \in Name
      BY <1>1, <2>1, BusyCur, ConstantsOK
    <3>2. n = MergeName[cur][u] /\ u \in plan.update
      BY <1>1, <2>2, <2>5, <3>1 DEF UpdateMerge, Refused
    <3> QED BY <1>1, <2>1, <3>2 DEF PlanSound
  <2>6. CASE UNCHANGED worker \/ UNCHANGED merges
    BY <1>1, <2>6
  <2> QED BY <1>1, <2>3, <2>4, <2>5, <2>6 DEF Next, Step, Reconcile, List, PatchConditions, PatchObject, Crash,
     Settling, MergeAdvances, MergeGoes, CollectGarbage, Users, DeleteBuild, ChangeRepos, RecreateBuild,
     DeleteMerge, MergeFallsBack, vars
<1>2. IInv /\ [Next]_vars =>
        [pc = "apply" /\ worker' # worker =>
           \A n \in Name : merges[n].phase # "none" /\ merges'[n] # merges[n] => merges[n].build = cur]_vars
  BY <1>1
<1> QED BY <1>2, Invariance, PTL DEF Spec, OwnMergesOnly

=============================================================================
