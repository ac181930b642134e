--------------------------- MODULE MergeAccountProofs ---------------------------
(***************************************************************************)
(* What the tag of a release has, in runs without failures: for any        *)
(* branches and any number of objects and edits.                           *)
(***************************************************************************)
EXTENDS MergeReleaseProofs

-----------------------------------------------------------------------------
(* What a copy of the Merge object knows about its branches.               *)

\* The copy that will be stored next.
Current == IF pc = "idle" THEN stored ELSE merge

\* The steps after the loop over the branches.
Judged == Resolving \cup {"compare", "tag", "finalMR", "setAuto"}

\* The merge request of the branch was given up.
Excused(e, ps) == e.nmr # 0 /\ ps[e.nmr] \cap {"removed", "closed"} # {}

\* Every branch of m is in what is on a commit, unless it was given up.
Accounts(m, on, ps) ==
  \A k \in DOMAIN m.branches : m.branches[k].name \in on \/ Excused(m.branches[k], ps)

\* The object of the branch reports a conflict.
Conflicts(e, objs) == e.nmr # 0 /\ objs[e.nmr].hasConflict

\* What an entry of the status says is true of its object, which is alive.
Known(e, objs, ps) ==
  /\ e.conflict => Conflicts(e, objs)
  /\ e.processed => e.nmr # 0 /\ ps[e.nmr] # {}
  /\ e.nmr # 0 => objs[e.nmr].phase = "live"

\* The branch was merged, but is not on the build branch any more.
Missing(e, on, ps) ==
  e.nmr # 0 /\ "merged" \in ps[e.nmr] /\ ~Excused(e, ps) /\ e.name \notin on

\* At the step p and the branch i the copy m knows of a conflict, or will.
Noticed(p, m, i, objs) ==
  \E k \in DOMAIN m.branches :
    IF p \in Judged \/ (p = "nmrs" /\ k < i) THEN m.branches[k].conflict
    ELSE Conflicts(m.branches[k], objs)

\* Only the resolution of a conflict takes a branch off the build branch.
BranchesOK(p, m, i, objs, ps, on) ==
  p # "dropMRs" =>
    \A k \in DOMAIN m.branches :
      /\ Known(m.branches[k], objs, ps)
      /\ Missing(m.branches[k], on, ps) => Noticed(p, m, i, objs)

\* The conflict is resolved when all branches are on the build branch again.
ResolutionOK(p, m, objs, on) ==
  /\ m.resolveMR # 0 =>
       /\ m.recreated
       /\ objs[m.resolveMR].mr = "accepted" \/ objs[m.resolveMR].ready =>
            Names(m.branches) \subseteq on
  /\ p \in {"resolveBranch", "resolveMR"} => m.recreated

\* What is tagged, or is going to be, accounts for the branches; while they
\* change there is no tag.
TagOK(p, m, w, ps, on, ts) ==
  /\ m.finalTag # 0 => /\ m.finalMR # 0 \/ p = "finalMR"
                       /\ Accounts(m, ts[m.finalTag].on, ps)
  /\ p \in {"dropBuild", "dropMRs"} \/ (p = "branches" /\ Changed(m, w)) => m.finalTag = 0
  /\ p \in {"compare", "tag"} => Accounts(m, on, ps)

\* What the copy m accounts for at the step p and the branch i.
Account(p, m, w, i, objs, ps, on, ts) ==
  /\ BranchesOK(p, m, i, objs, ps, on)
  /\ ResolutionOK(p, m, objs, on)
  /\ TagOK(p, m, w, ps, on, ts)

\* What merging a branch brings: the branch, or a resolution of all.
Content(b) == IF b \in Name THEN {b} ELSE IF b \in Lists THEN Listed(b) ELSE {}

\* A branch of the release has itself, a resolution all or nothing yet; the
\* build branch starts with nothing.
HeadsHold ==
  /\ heads[main].on = {} /\ (~heads[build].exists => heads[build].on = {})
  /\ \A b \in Name : heads[b].exists => b \in heads[b].on
  /\ \A l \in Lists \ {<<>>} : heads[l].on = {} \/ Listed(l) \subseteq heads[l].on

\* The versions there are, without a gap, as long as the object is there.
TagsInOrder ==
  stored.phase # "gone" =>
    \E c \in 0 .. MaxTag : {t \in 1 .. MaxTag : tags[t].exists} = 1 .. c

\* What holds of the world whatever the copy says.
World ==
  /\ HeadsHold /\ TagsInOrder
  /\ \A n \in NMR : nmr[n].processed => past[n] # {}

\* The loop over the branches starts with the first.
AtFirst ==
  pc \in {"dropResolveBranch", "dropResolveMR", "dropFinalMR", "dropBuild", "branches", "build"} =>
    at = 1

\* The stored tag, and then the copy.
Accounted ==
  /\ World /\ AtFirst
  /\ stored.finalTag # 0 =>
       stored.finalMR # 0 /\ Accounts(stored, tags[stored.finalTag].on, past)
  /\ stored.phase # "gone" =>
       Account(pc, Current, want, at, nmr, past, heads[build].on, tags)

\* The invariant of runs without failures.
AInv == faults = 0 => Accounted

-----------------------------------------------------------------------------
(* A copy that goes on to another step.                                    *)

\* x has the branches of m, and of its release and resolution no more.
Lesser(m, x) ==
  /\ x.branches = m.branches
  /\ x.resolveMR = 0 \/ (x.resolveMR = m.resolveMR /\ x.recreated = m.recreated)
  /\ x.finalTag = 0 \/ (x.finalTag = m.finalTag /\ x.finalMR = m.finalMR)

\* What the code changes of a copy beside branches, release and resolution.
LEMMA LesserCopies ==
  ASSUME ConstantsOK, NEW m \in Status
  PROVE  /\ Lesser(m, m) /\ Lesser(m, Merged(m))
         /\ Lesser(m, NoConflictState(m)) /\ Lesser(m, ReleaseForgotten(m))
         /\ \A f : Lesser(m, [m EXCEPT !.finalizer = f])
         /\ \A c : /\ Lesser(m, [m EXCEPT !.conditions.repositories = c])
                   /\ Lesser(m, [m EXCEPT !.conditions.branchesExist = c])
                   /\ Lesser(m, [m EXCEPT !.conditions.branchMerged = c])
                   /\ Lesser(m, [m EXCEPT !.conditions = c])
         /\ \A p : Lesser(m, [m EXCEPT !.phase = p])
         /\ \A s \in Status : Lesser(m, Patched(s, m))
BY DEF Lesser, Status, Merged, Patched, NoConflictState, ReleaseForgotten

\* What was noted of a conflict is a conflict.
LEMMA NoticedAnyway ==
  ASSUME NEW p, NEW q, NEW m, NEW i, NEW j, NEW objs, NEW ps,
         \A k \in DOMAIN m.branches : Known(m.branches[k], objs, ps),
         Noticed(p, m, i, objs), q \notin Judged,
         q = "nmrs" => \A k \in DOMAIN m.branches : ~(k < j)
  PROVE  Noticed(q, m, j, objs)
<1>1. PICK k \in DOMAIN m.branches :
        IF p \in Judged \/ (p = "nmrs" /\ k < i) THEN m.branches[k].conflict
        ELSE Conflicts(m.branches[k], objs)
  BY DEF Noticed
<1>2. Conflicts(m.branches[k], objs)
  BY <1>1 DEF Known
<1> QED BY <1>2 DEF Noticed

\* The copy goes on, before the loop over the branches or at its end.
LEMMA AccountGoesOn ==
  ASSUME NEW p, NEW m, NEW w, NEW i, NEW objs, NEW ps, NEW on, NEW ts,
         Account(p, m, w, i, objs, ps, on, ts), p \notin {"dropMRs", "finalMR"},
         NEW x, Lesser(m, x), NEW q, q \notin Judged, q # "dropMRs", NEW v, NEW j,
         q = "dropBuild" \/ (q = "branches" /\ Changed(x, v)) => x.finalTag = 0,
         q = "nmrs" => \A k \in DOMAIN m.branches : ~(k < j)
  PROVE  Account(q, x, v, j, objs, ps, on, ts)
<1>1. BranchesOK(q, x, j, objs, ps, on)
  <2>1. \A k \in DOMAIN m.branches : Known(m.branches[k], objs, ps)
    BY DEF Account, BranchesOK
  <2>2. Noticed(p, m, i, objs) => Noticed(q, m, j, objs)
    BY <2>1, NoticedAnyway
  <2>3. Noticed(q, m, j, objs) => Noticed(q, x, j, objs)
    BY DEF Noticed, Lesser
  <2> QED BY <2>1, <2>2, <2>3 DEF Account, BranchesOK, Lesser
<1>2. ResolutionOK(q, x, objs, on)
  BY DEF Account, ResolutionOK, Lesser, Judged, Resolving
<1>3. TagOK(q, x, v, ps, on, ts)
  BY DEF Account, TagOK, Lesser, Accounts, Judged
<1> QED BY <1>1, <1>2, <1>3 DEF Account

-----------------------------------------------------------------------------
(* A copy that stays, while the world goes on.                             *)

\* The objects of the branches and of the resolution.
Tracked(m) == ({m.branches[k].nmr : k \in DOMAIN m.branches} \cup {m.resolveMR}) \ {0}

\* The objects R stay alive, and what is merged of them is on the build branch.
Benign(R) ==
  /\ heads[build].on \subseteq heads'[build].on
  /\ \A n \in R :
       /\ nmr[n].phase = "live" => nmr'[n].phase = "live"
       /\ nmr[n].target = build =>
            /\ "merged" \in past'[n] =>
                 "merged" \in past[n] \/ Content(nmr[n].source) \subseteq heads'[build].on
            /\ nmr'[n].mr = "accepted" \/ nmr'[n].ready =>
                 \/ nmr[n].mr = "accepted" \/ nmr[n].ready
                 \/ Content(nmr[n].source) \subseteq heads'[build].on

\* What a sound copy refers to has been created, with its branches.
LEMMA TrackedObjects ==
  ASSUME ConstantsOK, TypeOK, NEW m \in Status, Sound(m, nmr, lastNMR, tags)
  PROVE  /\ \A k \in DOMAIN m.branches :
              LET n == m.branches[k].nmr IN
              n # 0 => /\ n \in NMR /\ n \in Tracked(m) /\ n \in 1 .. lastNMR
                       /\ nmr[n].target = build /\ nmr[n].source = m.branches[k].name
                       /\ Content(nmr[n].source) = {m.branches[k].name}
         /\ m.resolveMR # 0 =>
              /\ m.resolveMR \in NMR /\ m.resolveMR \in Tracked(m)
              /\ m.resolveMR \in 1 .. lastNMR
              /\ nmr[m.resolveMR].target = build
              /\ Content(nmr[m.resolveMR].source) = Names(m.branches)
         /\ Tracked(m) \subseteq NMR
<1>1. /\ \A n \in Refs(m) : n # 0 => n \in NMR /\ n \in 1 .. lastNMR
      /\ \A k \in DOMAIN m.branches : m.branches[k].nmr \in Refs(m)
      /\ m.resolveMR \in Refs(m)
  <2>1. Refs(m) \subseteq 0 .. lastNMR /\ lastNMR \in 0 .. MaxNMR /\ MaxNMR \in Nat
    BY DEF Sound, TypeOK, ConstantsOK
  <2>2. \A n \in Refs(m) : n # 0 => n \in NMR /\ n \in 1 .. lastNMR
    BY <2>1 DEF NMR
  <2> QED BY <2>2 DEF Refs
<1>2. \A k \in DOMAIN m.branches : m.branches[k].name \in Name
  <2>1. m.branches \in BranchList
    BY DEF Status, BranchList
  <2> QED BY <2>1, BranchListIsSeq DEF BranchStatus
<1>3. /\ ResolveName(m) \in Lists /\ ResolveName(m) \notin Name
      /\ Listed(ResolveName(m)) = Names(m.branches)
  <2>1. ResolveName(m) \in Lists
    BY ResolveNameIsList DEF Sound
  <2>2. Listed(ResolveName(m)) = Names(m.branches)
    BY DEF Listed, ResolveName, Names
  <2> QED BY <2>1, <2>2 DEF ConstantsOK
<1>4. ASSUME NEW k \in DOMAIN m.branches, m.branches[k].nmr # 0
      PROVE  LET n == m.branches[k].nmr IN
             /\ n \in NMR /\ n \in Tracked(m) /\ n \in 1 .. lastNMR
             /\ nmr[n].target = build /\ nmr[n].source = m.branches[k].name
             /\ Content(nmr[n].source) = {m.branches[k].name}
  BY <1>1, <1>2, <1>4 DEF Sound, Tracked, Content
<1>5. ASSUME m.resolveMR # 0
      PROVE  /\ m.resolveMR \in NMR /\ m.resolveMR \in Tracked(m)
             /\ m.resolveMR \in 1 .. lastNMR
             /\ nmr[m.resolveMR].target = build
             /\ Content(nmr[m.resolveMR].source) = Names(m.branches)
  BY <1>1, <1>3, <1>5 DEF Sound, Tracked, Content
<1>6. Tracked(m) \subseteq NMR
  BY <1>1 DEF Tracked
<1> QED BY <1>4, <1>5, <1>6

\* What NMRPromise says of the objects in one step.
LEMMA ObjectsMove ==
  ASSUME ObjectsNext, NEW n \in NMR
  PROVE  /\ past[n] \subseteq past'[n]
         /\ nmr[n].hasConflict => nmr'[n].hasConflict
         /\ nmr[n].ready => nmr'[n].ready
         /\ nmr'[n].processed /\ ~nmr[n].processed => past[n] # {}
         /\ nmr[n].phase = "none" => past'[n] = {}
BY DEF ObjectsNext, Promise!Moves, Promise!Lasting, Promise!Founded, Shown

\* What was given up stays so, and a commit accounts for as much as before.
LEMMA AccountsStay ==
  ASSUME ConstantsOK, TypeOK, ObjectsNext, NEW m \in Status, Sound(m, nmr, lastNMR, tags),
         NEW on, NEW on2, on \subseteq on2, Accounts(m, on, past)
  PROVE  Accounts(m, on2, past')
<1> SUFFICES ASSUME NEW k \in DOMAIN m.branches, m.branches[k].name \notin on2
             PROVE  Excused(m.branches[k], past')
  BY DEF Accounts
<1>1. Excused(m.branches[k], past)
  BY DEF Accounts
<1>2. m.branches[k].nmr \in NMR
  BY <1>1, TrackedObjects DEF Excused
<1>3. past[m.branches[k].nmr] \subseteq past'[m.branches[k].nmr]
  BY <1>2, ObjectsMove
<1> QED BY <1>1, <1>3 DEF Excused

\* A branch is known as long as its object lives.
LEMMA KnownStays ==
  ASSUME ConstantsOK, TypeOK, ObjectsNext, NEW m \in Status, Sound(m, nmr, lastNMR, tags),
         NEW k \in DOMAIN m.branches, Known(m.branches[k], nmr, past),
         m.branches[k].nmr # 0 => nmr'[m.branches[k].nmr].phase = "live"
  PROVE  Known(m.branches[k], nmr', past')
<1>1. m.branches[k].nmr # 0 => m.branches[k].nmr \in NMR
  BY TrackedObjects
<1> QED BY <1>1, ObjectsMove DEF Known, Conflicts

\* What is missing after a step was missing before.
LEMMA MissingBefore ==
  ASSUME ConstantsOK, TypeOK, ObjectsNext, NEW m \in Status, Sound(m, nmr, lastNMR, tags),
         Benign(Tracked(m)), NEW k \in DOMAIN m.branches,
         Missing(m.branches[k], heads'[build].on, past')
  PROVE  Missing(m.branches[k], heads[build].on, past)
<1> DEFINE n == m.branches[k].nmr
<1>1. /\ n # 0 /\ n \in NMR /\ n \in Tracked(m) /\ nmr[n].target = build
      /\ Content(nmr[n].source) = {m.branches[k].name}
  BY TrackedObjects DEF Missing
<1>2. past[n] \subseteq past'[n]
  BY <1>1, ObjectsMove
<1>3. heads[build].on \subseteq heads'[build].on
  BY DEF Benign
<1>4. "merged" \in past'[n] /\ m.branches[k].name \notin heads'[build].on
  BY DEF Missing
<1>5. "merged" \in past[n]
  BY <1>1, <1>4 DEF Benign
<1>6. ~Excused(m.branches[k], past)
  BY <1>1, <1>2 DEF Missing, Excused
<1> QED BY <1>1, <1>3, <1>4, <1>5, <1>6 DEF Missing

\* A copy accounts for as much when the world goes on, if that is benign.
LEMMA AccountStays ==
  ASSUME ConstantsOK, TypeOK, ObjectsNext, TagsStay, NEW m \in Status,
         Sound(m, nmr, lastNMR, tags), NEW p, NEW w, NEW i,
         Account(p, m, w, i, nmr, past, heads[build].on, tags),
         m.finalTag # 0 => tags[m.finalTag].exists, Benign(Tracked(m))
  PROVE  Account(p, m, w, i, nmr', past', heads'[build].on, tags')
<1>0. heads[build].on \subseteq heads'[build].on
  BY DEF Benign
<1>1. BranchesOK(p, m, i, nmr', past', heads'[build].on)
  <2> SUFFICES ASSUME p # "dropMRs", NEW k \in DOMAIN m.branches
               PROVE  /\ Known(m.branches[k], nmr', past')
                      /\ Missing(m.branches[k], heads'[build].on, past') => Noticed(p, m, i, nmr')
    BY DEF BranchesOK
  <2>1. \A j \in DOMAIN m.branches : /\ Known(m.branches[j], nmr, past)
                                     /\ Missing(m.branches[j], heads[build].on, past) =>
                                          Noticed(p, m, i, nmr)
    BY DEF Account, BranchesOK
  <2>2. m.branches[k].nmr # 0 => nmr'[m.branches[k].nmr].phase = "live"
    BY <2>1, TrackedObjects DEF Known, Benign
  <2>3. Known(m.branches[k], nmr', past')
    BY <2>1, <2>2, KnownStays
  <2>4. \A j \in DOMAIN m.branches : Conflicts(m.branches[j], nmr) => Conflicts(m.branches[j], nmr')
    BY TrackedObjects, ObjectsMove DEF Conflicts
  <2>5. Noticed(p, m, i, nmr) => Noticed(p, m, i, nmr')
    BY <2>4 DEF Noticed
  <2>6. Missing(m.branches[k], heads'[build].on, past') =>
          Missing(m.branches[k], heads[build].on, past)
    BY MissingBefore
  <2> QED BY <2>1, <2>3, <2>5, <2>6
<1>2. ResolutionOK(p, m, nmr', heads'[build].on)
  <2>1. ASSUME m.resolveMR # 0, nmr'[m.resolveMR].mr = "accepted" \/ nmr'[m.resolveMR].ready
        PROVE  Names(m.branches) \subseteq heads'[build].on
    <3>1. /\ m.resolveMR \in NMR /\ m.resolveMR \in Tracked(m)
          /\ nmr[m.resolveMR].target = build
          /\ Content(nmr[m.resolveMR].source) = Names(m.branches)
      BY <2>1, TrackedObjects
    <3>2. \/ nmr[m.resolveMR].mr = "accepted" \/ nmr[m.resolveMR].ready
          \/ Names(m.branches) \subseteq heads'[build].on
      BY <2>1, <3>1 DEF Benign
    <3> QED BY <1>0, <2>1, <3>2 DEF Account, ResolutionOK
  <2> QED BY <2>1 DEF Account, ResolutionOK
<1>3. TagOK(p, m, w, past', heads'[build].on, tags')
  <2>1. m.finalTag # 0 => Accounts(m, tags'[m.finalTag].on, past')
    <3> SUFFICES ASSUME m.finalTag # 0 PROVE Accounts(m, tags'[m.finalTag].on, past')
      OBVIOUS
    <3>1. tags'[m.finalTag] = tags[m.finalTag]
      BY DEF TagsStay, Status, ConstantsOK
    <3>2. Accounts(m, tags[m.finalTag].on, past)
      BY DEF Account, TagOK
    <3> QED BY <3>1, <3>2, AccountsStay
  <2>2. p \in {"compare", "tag"} => Accounts(m, heads'[build].on, past')
    BY <1>0, AccountsStay DEF Account, TagOK
  <2> QED BY <2>1, <2>2 DEF Account, TagOK
<1> QED BY <1>1, <1>2, <1>3 DEF Account
-----------------------------------------------------------------------------
(* The heads, the tags and the objects.                                    *)

\* The world goes on if its heads and tags do.
LEMMA WorldGoesOn ==
  ASSUME TypeOK, ObjectsNext, World, HeadsHold', TagsInOrder'
  PROVE  World'
<1> SUFFICES ASSUME NEW n \in NMR, nmr'[n].processed PROVE past'[n] # {}
  BY DEF World
<1>1. past[n] # {} /\ past[n] \subseteq past'[n]
  BY ObjectsMove DEF World
<1> QED BY <1>1

\* All there is are the heads of the branches of the release, the build branch,
\* main and the resolutions.
LEMMA Heads ==
  ASSUME ConstantsOK, TypeOK
  PROVE  /\ heads \in [Branch -> Commit] /\ build \in Branch /\ main \in Branch /\ build # main
         /\ \A b \in Name : b \in Branch /\ b # build /\ b # main /\ b \notin Lists
         /\ \A l \in Lists \ {<<>>} : l \in Branch /\ l \notin Name
         /\ \A l \in Lists : l # build /\ l # main
BY DEF TypeOK, Branch, ConstantsOK

\* What the worker does to the heads.
LEMMA WorkersHeadsHold ==
  ASSUME ConstantsOK, TypeOK, HeadsHold
  PROVE  /\ UNCHANGED heads => HeadsHold'
         /\ \A b \in {build} \cup Lists : GetOrCreateBranch(b) =>
              HeadsHold' /\ heads[build].on \subseteq heads'[build].on
         /\ RemoveBranch(build) => HeadsHold'
         /\ \A l \in Lists : RemoveBranch(l) => HeadsHold' /\ heads'[build] = heads[build]
         /\ heads' = [heads EXCEPT ![build] = heads[main]] => HeadsHold'
<1>1. UNCHANGED heads => HeadsHold'
  BY DEF HeadsHold
<1>2. Absent.on = {} /\ ~Absent.exists
  BY DEF Absent
<1>3. ASSUME NEW b \in {build} \cup Lists, NEW c, heads' = [heads EXCEPT ![b] = c],
             c.on = {}
      PROVE  HeadsHold' /\ (b # build => heads'[build] = heads[build])
  <2>1. \A a \in Branch : heads'[a] = IF a = b THEN c ELSE heads[a]
    BY <1>3, Heads
  <2>2. b # main /\ b \notin Name
    BY Heads
  <2>3. /\ heads'[main] = heads[main]
        /\ heads'[build] = IF build = b THEN c ELSE heads[build]
        /\ \A a \in Name : heads'[a] = heads[a]
        /\ \A l \in Lists \ {<<>>} : heads'[l] = IF l = b THEN c ELSE heads[l]
    BY <2>1, <2>2, Heads
  <2> QED BY <1>3, <2>3 DEF HeadsHold
<1>4. heads[main].on = {}
  BY DEF HeadsHold
<1>5. ASSUME NEW b \in {build} \cup Lists, GetOrCreateBranch(b)
      PROVE  HeadsHold' /\ heads[build].on \subseteq heads'[build].on
  <2>1. CASE heads[b].exists
    BY <1>1, <1>5, <2>1 DEF GetOrCreateBranch
  <2>2. CASE ~heads[b].exists
    <3>1. heads' = [heads EXCEPT ![b] = heads[main]]
      BY <1>5, <2>2 DEF GetOrCreateBranch
    <3>2. b = build => heads[build].on = {}
      BY <2>2 DEF HeadsHold
    <3> QED BY <1>3, <1>4, <3>1, <3>2
  <2> QED BY <2>1, <2>2
<1>6. RemoveBranch(build) => HeadsHold'
  BY <1>2, <1>3 DEF RemoveBranch
<1>7. \A l \in Lists : RemoveBranch(l) => HeadsHold' /\ heads'[build] = heads[build]
  BY <1>2, <1>3, Heads DEF RemoveBranch
<1>8. heads' = [heads EXCEPT ![build] = heads[main]] => HeadsHold'
  BY <1>3, <1>4
<1> QED BY <1>1, <1>5, <1>6, <1>7, <1>8

\* A tag that is there is not lost from the stored release.
LEMMA StoredAccount ==
  ASSUME ConstantsOK, Inv, ObjectsNext, TagsStay, Accounted, stored.finalTag # 0
  PROVE  stored.finalMR # 0 /\ Accounts(stored, tags'[stored.finalTag].on, past')
<1>1. stored.finalMR # 0 /\ Accounts(stored, tags[stored.finalTag].on, past)
  BY DEF Accounted
<1>2. stored \in Status /\ Sound(stored, nmr, lastNMR, tags) /\ TypeOK
  BY DEF Inv, TypeOK
<1>3. tags[stored.finalTag].exists /\ stored.finalTag \in 1 .. MaxTag
  BY <1>1, <1>2 DEF Sound, Status, ConstantsOK
<1>4. tags'[stored.finalTag] = tags[stored.finalTag]
  BY <1>3 DEF TagsStay
<1> QED BY <1>1, <1>2, <1>4, AccountsStay

\* The steps before the loop over the branches.
Before == {"dropResolveBranch", "dropResolveMR", "dropFinalMR", "dropBuild", "branches", "build"}

\* The worker goes on.
LEMMA AccountedGoesOn ==
  ASSUME ConstantsOK, Inv, ObjectsNext, TagsStay, Accounted, stored' = stored,
         HeadsHold', TagsInOrder',
         NEW p, NEW x, Goto(p, x), p # "idle", p \in Before => at' = 1,
         stored.phase # "gone" =>
           Account(p, x, want', at', nmr', past', heads'[build].on, tags')
  PROVE  Accounted'
<1>1. pc' = p /\ merge' = x
  BY DEF Goto
<1>2. Current' = x
  BY <1>1 DEF Current
<1>3. World'
  BY WorldGoesOn DEF Inv, Accounted
<1>4. AtFirst'
  BY <1>1 DEF AtFirst, Before
<1>5. stored'.finalTag # 0 =>
        stored'.finalMR # 0 /\ Accounts(stored', tags'[stored'.finalTag].on, past')
  BY StoredAccount
<1>6. stored'.phase # "gone" =>
        Account(pc', Current', want', at', nmr', past', heads'[build].on, tags')
  BY <1>1, <1>2
<1> QED BY <1>3, <1>4, <1>5, <1>6 DEF Accounted
\* It goes on with a copy that accounts for its branches already.
LEMMA CopyGoesOn ==
  ASSUME ConstantsOK, Inv, ObjectsNext, TagsStay, Accounted, UNCHANGED <<stored, want>>,
         HeadsHold', TagsInOrder',
         NEW p, NEW x \in Status, Goto(p, x), p \notin {"idle", "finalMR"},
         p \in Before => at' = 1,
         Sound(x, nmr, lastNMR, tags), Benign(Tracked(x)),
         stored.phase # "gone" => Account(p, x, want, at', nmr, past, heads[build].on, tags)
  PROVE  Accounted'
<1>1. ASSUME stored.phase # "gone"
      PROVE  Account(p, x, want', at', nmr', past', heads'[build].on, tags')
  <2>1. x.finalTag # 0 => tags[x.finalTag].exists
    BY <1>1 DEF Account, TagOK, Sound
  <2> QED BY <1>1, <2>1, AccountStays DEF Inv
<1> QED BY <1>1, AccountedGoesOn

\* It goes on with the same branches, before the loop over them or at its end.
LEMMA LesserGoesOn ==
  ASSUME ConstantsOK, Inv, ObjectsNext, TagsStay, Accounted, UNCHANGED <<stored, want>>,
         HeadsHold', TagsInOrder', pc \notin {"idle", "dropMRs", "finalMR"},
         NEW p \in Before \cup {"nmrs", "conditions", "object"}, NEW x \in Status,
         Goto(p, x), Lesser(merge, x), at' = at, p \in Before \cup {"nmrs"} => at = 1,
         p = "dropBuild" \/ (p = "branches" /\ Changed(x, want)) => x.finalTag = 0,
         Sound(x, nmr, lastNMR, tags), Benign(Tracked(x))
  PROVE  Accounted'
<1>1. p \notin {"idle", "finalMR", "dropMRs"} /\ p \notin Judged
  BY DEF Before, Judged, Resolving
<1>2. p = "nmrs" => \A k \in DOMAIN merge.branches : ~(k < at)
  <2>1. merge.branches \in BranchList
    BY DEF Inv, TypeOK, Status, BranchList
  <2> QED BY <2>1, BranchListIsSeq
<1>3. Account(pc, merge, want, at, nmr, past, heads[build].on, tags)
        => Account(p, x, want, at, nmr, past, heads[build].on, tags)
  BY <1>1, <1>2, AccountGoesOn
<1>4. stored.phase # "gone" => Account(p, x, want, at', nmr, past, heads[build].on, tags)
  BY <1>3 DEF Accounted, Current
<1> QED BY <1>1, <1>4, CopyGoesOn

\* It returns.
LEMMA AccountedReturns ==
  ASSUME ConstantsOK, Inv, ObjectsNext, TagsStay, Accounted, UNCHANGED <<stored, want, at>>,
         HeadsHold', TagsInOrder', pc \notin {"idle", "dropMRs", "finalMR"},
         NEW x \in Status, Return(x), Lesser(merge, x),
         Sound(x, nmr, lastNMR, tags), Benign(Tracked(x))
  PROVE  Accounted'
<1>1. Goto("conditions", x) /\ at' = at /\ "conditions" \notin Before \cup {"nmrs"}
  BY DEF Return, Before
<1> QED BY <1>1, LesserGoesOn

\* What touches nothing that is shared.
LEMMA NothingTouched ==
  ASSUME ConstantsOK, Inv, Accounted
  PROVE  /\ UNCHANGED heads => HeadsHold'
         /\ UNCHANGED <<stored, tags>> => TagsInOrder'
         /\ UNCHANGED tags => TagsStay
         /\ UNCHANGED <<objects, heads>> => \A R : Benign(R)
         /\ UNCHANGED objects => ObjectsNext
         /\ Fault => faults' # 0
         /\ merge \in Status /\ Sound(merge, nmr, lastNMR, tags)
<1>1. UNCHANGED heads => HeadsHold'
  BY WorkersHeadsHold DEF Inv, Accounted, World
<1>2. UNCHANGED <<stored, tags>> => TagsInOrder'
  BY DEF Accounted, World, TagsInOrder
<1>3. UNCHANGED <<objects, heads>> => \A R : Benign(R)
  BY DEF objects, Benign
<1>4. Fault => faults' # 0
  BY DEF Fault, Inv, TypeOK, ConstantsOK
<1> QED BY <1>1, <1>2, <1>3, <1>4, NothingShared DEF Inv, TypeOK

\* Some objects change in what nobody counts on.
LEMMA OthersChange ==
  ASSUME ConstantsOK, TypeOK, UNCHANGED <<heads, past>>, NEW n \in 0 .. MaxNMR,
         \A i \in NMR \ {n} : nmr'[i] = nmr[i]
  PROVE  \A R \in SUBSET NMR : n \notin R => Benign(R)
BY DEF Benign

-----------------------------------------------------------------------------
(* The reconcile, step by step.                                            *)

\* What a failure-free step of the worker starts from.
Calm == ConstantsOK /\ Inv /\ Accounted /\ faults = 0 /\ faults' = 0

\* The reconcile starts with the stored object.
LEMMA ReconcileAccounted == Calm /\ Reconcile => Accounted'
<1> SUFFICES ASSUME Calm, Reconcile PROVE Accounted'
  OBVIOUS
<1>1. /\ ConstantsOK /\ Inv /\ Accounted /\ UNCHANGED <<spec, stored, objects, gitlab, edits>>
      /\ want' = spec /\ at' = 1 /\ pc = "idle" /\ ~Fault
      /\ stored \in Status /\ Sound(stored, nmr, lastNMR, tags)
  BY NothingTouched DEF Calm, Reconcile, Inv, TypeOK
<1>2. /\ HeadsHold' /\ TagsInOrder' /\ TagsStay /\ ObjectsNext
      /\ nmr' = nmr /\ past' = past /\ heads' = heads /\ tags' = tags
  BY <1>1, NothingTouched DEF gitlab, objects
<1>3. ASSUME NEW p \in {"conditions", "dropResolveBranch", "branches"}, NEW x, Goto(p, x),
             Lesser(stored, x), p = "branches" => ~Changed(x, spec)
      PROVE  Accounted'
  <2>1. p \notin Judged /\ p \notin {"idle", "dropMRs", "dropBuild", "nmrs"}
    BY DEF Judged, Resolving
  <2>2. stored.phase # "gone" => Account("idle", stored, want, at, nmr, past, heads[build].on, tags)
    BY <1>1 DEF Accounted, Current
  <2>3. Account("idle", stored, want, at, nmr, past, heads[build].on, tags)
          => Account(p, x, spec, 1, nmr, past, heads[build].on, tags)
    BY <1>1, <1>3, <2>1, AccountGoesOn
  <2>4. stored.phase # "gone" =>
          Account(p, x, want', at', nmr', past', heads'[build].on, tags')
    BY <1>1, <1>2, <2>2, <2>3
  <2> QED BY <1>1, <1>2, <1>3, <2>1, <2>4, AccountedGoesOn
<1>4. CASE \E f \in BOOLEAN : Return([stored EXCEPT !.finalizer = f])
  <2>1. PICK f \in BOOLEAN : Goto("conditions", [stored EXCEPT !.finalizer = f])
    BY <1>4 DEF Return
  <2> QED BY <1>1, <1>3, <2>1, LesserCopies
<1>5. CASE Goto(IF Changed(stored, spec) THEN "dropResolveBranch" ELSE "branches",
                [stored EXCEPT !.conditions.repositories = "True"])
  <2> DEFINE x == [stored EXCEPT !.conditions.repositories = "True"]
             p == IF Changed(stored, spec) THEN "dropResolveBranch" ELSE "branches"
  <2>1. Lesser(stored, x) /\ x.branches = stored.branches
    BY <1>1, LesserCopies DEF Lesser
  <2>2. Goto(p, x) /\ p \in {"conditions", "dropResolveBranch", "branches"}
    BY <1>5
  <2>3. p = "branches" => ~Changed(x, spec)
    BY <2>1 DEF Changed
  <2> HIDE DEF x, p
  <2> QED BY <1>3, <2>1, <2>2, <2>3
<1> QED BY <1>1, <1>4, <1>5 DEF Reconcile
\* A branch that is not the build branch goes, and closes what came from it.
LEMMA RemovalIsBenign ==
  ASSUME ConstantsOK, TypeOK, NEW b, RemoveBranch(b)
  PROVE  /\ \A n \in NMR : /\ nmr'[n].phase = nmr[n].phase /\ nmr'[n].ready = nmr[n].ready
                           /\ nmr'[n].hasConflict = nmr[n].hasConflict
                           /\ nmr'[n].mr \in {nmr[n].mr, "settled"}
                           /\ past'[n] \in {past[n], past[n] \cup {"closed"}}
         /\ heads'[build] = heads[build] => \A R \in SUBSET NMR : Benign(R)
<1>1. PICK S \in SUBSET NMR : End(S, "settled", "closed")
  BY DEF RemoveBranch
<1>2. \A n \in NMR : /\ nmr'[n] = IF n \in S THEN [nmr[n] EXCEPT !.mr = "settled"] ELSE nmr[n]
                     /\ past'[n] = IF n \in S THEN past[n] \cup {"closed"} ELSE past[n]
  BY <1>1 DEF End
<1>3. \A n \in NMR : /\ nmr'[n].phase = nmr[n].phase /\ nmr'[n].ready = nmr[n].ready
                     /\ nmr'[n].hasConflict = nmr[n].hasConflict
                     /\ nmr'[n].mr \in {nmr[n].mr, "settled"}
                     /\ past'[n] \in {past[n], past[n] \cup {"closed"}}
  <2> SUFFICES ASSUME NEW n \in NMR
               PROVE  /\ nmr'[n].phase = nmr[n].phase /\ nmr'[n].ready = nmr[n].ready
                      /\ nmr'[n].hasConflict = nmr[n].hasConflict
                      /\ nmr'[n].mr \in {nmr[n].mr, "settled"}
                      /\ past'[n] \in {past[n], past[n] \cup {"closed"}}
    OBVIOUS
  <2>1. nmr[n] \in Object
    BY DEF TypeOK
  <2>2. CASE n \in S
    <3>1. nmr'[n] = [nmr[n] EXCEPT !.mr = "settled"] /\ past'[n] = past[n] \cup {"closed"}
      BY <1>2, <2>2
    <3> QED BY <2>1, <3>1 DEF Object
  <2>3. CASE n \notin S
    BY <1>2, <2>3
  <2> QED BY <2>2, <2>3
<1>4. ASSUME heads'[build] = heads[build], NEW R \in SUBSET NMR PROVE Benign(R)
  <2>1. \A n \in R : "merged" \in past'[n] => "merged" \in past[n]
    BY <1>3
  <2> QED BY <1>3, <1>4, <2>1 DEF Benign
<1> QED BY <1>3, <1>4

\* An object of the release is deleted: that of a branch is another one.
LEMMA DeletionIsBenign ==
  ASSUME ConstantsOK, TypeOK, UNCHANGED heads, NEW n \in 0 .. MaxNMR, n # 0, DeleteNativeMR(n)
  PROVE  \A R \in SUBSET NMR : n \notin R => Benign(R)
<1>1. past' = past /\ \A i \in NMR \ {n} : nmr'[i] = nmr[i]
  BY DEF DeleteNativeMR, TypeOK
<1> QED BY <1>1, OthersChange

\* The branch of a resolution goes: nothing was merged from it but all branches.
LEMMA DropResolveBranchAccounted == Calm /\ Keeps /\ DropResolveBranch => Accounted'
<1> SUFFICES ASSUME Calm, Keeps, DropResolveBranch PROVE Accounted'
  OBVIOUS
<1>1. /\ ConstantsOK /\ Inv /\ TypeOK /\ Accounted /\ ObjectsNext /\ TagsStay
      /\ UNCHANGED <<stored, want, at, tags>> /\ pc = "dropResolveBranch" /\ ~Fault /\ TagsInOrder'
      /\ merge \in Status /\ Sound(merge, nmr, lastNMR, tags)
  BY NothingTouched DEF Calm, Keeps, DropResolveBranch, Inv
<1>2. at = 1
  BY <1>1 DEF Accounted, AtFirst
<1>3. Goto("dropResolveMR", merge)
  BY <1>1 DEF DropResolveBranch, Answered
<1>4. HeadsHold' /\ \A R \in SUBSET NMR : Benign(R)
  <2>1. CASE UNCHANGED <<heads, nmr, past>>
    BY <1>1, <2>1, NothingTouched DEF DropResolveBranch, Benign
  <2>2. CASE RemoveBranch(merge.resolveName)
    <3>1. merge.resolveName \in Lists
      BY <1>1 DEF Status
    <3>2. HeadsHold' /\ heads'[build] = heads[build]
      BY <1>1, <2>2, <3>1, WorkersHeadsHold DEF Accounted, World
    <3> QED BY <1>1, <2>2, <3>2, RemovalIsBenign
  <2> QED BY <2>1, <2>2 DEF DropResolveBranch
<1>5. Benign(Tracked(merge))
  BY <1>1, <1>4, TrackedObjects
<1>6. Lesser(merge, merge)
  BY <1>1, LesserCopies
<1>7. /\ "dropResolveMR" \in Before \cup {"nmrs", "conditions", "object"}
      /\ pc \notin {"idle", "dropMRs", "finalMR"}
  BY <1>1 DEF Before
<1> QED BY <1>1, <1>2, <1>3, <1>4, <1>5, <1>6, <1>7, LesserGoesOn

\* The object of the resolution is not that of a branch.
LEMMA ResolutionIsAnother ==
  ASSUME ConstantsOK, TypeOK, NEW m \in Status, Sound(m, nmr, lastNMR, tags), m.resolveMR # 0
  PROVE  m.resolveMR \notin Tracked(NoConflictState(m))
<1>1. /\ NoConflictState(m).branches = m.branches /\ NoConflictState(m).resolveMR = 0
  BY DEF NoConflictState, Status
<1>2. nmr[m.resolveMR].source \in Lists
  BY ResolveNameIsList DEF Sound
<1>3. ASSUME NEW k \in DOMAIN m.branches, m.branches[k].nmr = m.resolveMR PROVE FALSE
  <2>1. nmr[m.resolveMR].source = m.branches[k].name
    BY <1>3 DEF Sound
  <2>2. m.branches[k].name \in Name
    <3>1. m.branches \in BranchList
      BY DEF Status, BranchList
    <3> QED BY <3>1, BranchListIsSeq DEF BranchStatus
  <2> QED BY <1>2, <2>1, <2>2, Heads
<1> QED BY <1>1, <1>3 DEF Tracked

\* Its object is not that of a branch.
LEMMA DropResolveMRAccounted == Calm /\ Keeps /\ DropResolveMR => Accounted'
<1> SUFFICES ASSUME Calm, Keeps, DropResolveMR PROVE Accounted'
  OBVIOUS
<1> DEFINE x == NoConflictState(merge)
<1>1. /\ ConstantsOK /\ Inv /\ TypeOK /\ Accounted /\ ObjectsNext /\ TagsStay
      /\ UNCHANGED <<stored, want, at, heads, tags>> /\ pc = "dropResolveMR" /\ ~Fault
      /\ TagsInOrder' /\ HeadsHold'
      /\ merge \in Status /\ Sound(merge, nmr, lastNMR, tags)
  BY NothingTouched DEF Calm, Keeps, DropResolveMR, Inv, gitlab
<1>2. at = 1 /\ lastNMR \in Nat
  BY <1>1 DEF Accounted, AtFirst, TypeOK
<1>3. Goto("dropFinalMR", x)
  BY <1>1 DEF DropResolveMR, Answered
<1>4. x \in Status /\ Sound(x, nmr, lastNMR, tags) /\ Lesser(merge, x)
  BY <1>1, <1>2, LesserCopies, SoundForgetting, StatusType
<1>5. Benign(Tracked(x))
  <2>1. CASE UNCHANGED objects
    BY <1>1, <2>1, NothingTouched
  <2>2. CASE merge.resolveMR # 0 /\ DeleteNativeMR(merge.resolveMR)
    <3>1. merge.resolveMR \notin Tracked(x)
      BY <1>1, <2>2, ResolutionIsAnother
    <3>2. Tracked(x) \in SUBSET NMR /\ merge.resolveMR \in 0 .. MaxNMR
      BY <1>1, <1>4, TrackedObjects DEF Status
    <3> HIDE DEF x
    <3> QED BY <1>1, <2>2, <3>1, <3>2, DeletionIsBenign
  <2> QED BY <2>1, <2>2 DEF DropResolveMR
<1>6. /\ "dropFinalMR" \in Before \cup {"nmrs", "conditions", "object"}
      /\ pc \notin {"idle", "dropMRs", "finalMR"}
  BY <1>1 DEF Before
<1> HIDE DEF x
<1> QED BY <1>1, <1>2, <1>3, <1>4, <1>5, <1>6, LesserGoesOn
\* The final merge request is not that of a branch.
LEMMA FinalIsAnother ==
  ASSUME ConstantsOK, TypeOK, NEW m \in Status, Sound(m, nmr, lastNMR, tags), m.finalMR # 0,
         NEW x, x.branches = m.branches, x.resolveMR = m.resolveMR
  PROVE  m.finalMR \notin Tracked(x)
BY DEF Tracked, Sound, ConstantsOK

\* Nor is that of the release; the tag is forgotten with it.
LEMMA DropFinalMRAccounted == Calm /\ Keeps /\ DropFinalMR => Accounted'
<1> SUFFICES ASSUME Calm, Keeps, DropFinalMR PROVE Accounted'
  OBVIOUS
<1> DEFINE next == IF Shrunk(merge, want) THEN "dropBuild" ELSE "branches"
<1>1. /\ ConstantsOK /\ Inv /\ TypeOK /\ Accounted /\ ObjectsNext /\ TagsStay
      /\ UNCHANGED <<stored, want, at, heads, tags>> /\ pc = "dropFinalMR" /\ ~Fault
      /\ TagsInOrder' /\ HeadsHold'
      /\ merge \in Status /\ Sound(merge, nmr, lastNMR, tags)
  BY NothingTouched DEF Calm, Keeps, DropFinalMR, Inv, gitlab
<1>2. at = 1 /\ lastNMR \in Nat
  BY <1>1 DEF Accounted, AtFirst, TypeOK
<1>3. /\ next \in Before \cup {"nmrs", "conditions", "object"}
      /\ pc \notin {"idle", "dropMRs", "finalMR"}
  BY <1>1 DEF Before
<1> HIDE DEF next
<1>4. ASSUME NEW x \in Status, Goto(next, x), Lesser(merge, x), Sound(x, nmr, lastNMR, tags),
             Benign(Tracked(x)), x.finalTag = 0
      PROVE  Accounted'
  BY <1>1, <1>2, <1>3, <1>4, LesserGoesOn
<1>5. CASE merge.finalMR = 0 /\ Goto(next, merge) /\ UNCHANGED objects
  <2>1. CASE merge.finalTag = 0
    <3>1. Lesser(merge, merge) /\ Benign(Tracked(merge))
      BY <1>1, <1>5, LesserCopies, NothingTouched
    <3> QED BY <1>1, <1>4, <1>5, <2>1, <3>1
  <2>2. CASE merge.finalTag # 0
    <3>1. stored.phase = "gone"
      BY <1>1, <1>5, <2>2 DEF Accounted, Account, TagOK, Current
    <3>2. next \notin {"idle"} /\ (next \in Before => at' = 1)
      BY <1>1, <1>2 DEF next
    <3> QED BY <1>1, <1>5, <3>1, <3>2, AccountedGoesOn
  <2> QED BY <2>1, <2>2
<1>6. CASE merge.finalMR # 0 /\ DeleteNativeMR(merge.finalMR) /\ Goto(next, ReleaseForgotten(merge))
  <2> DEFINE x == ReleaseForgotten(merge)
  <2>1. x \in Status /\ Sound(x, nmr, lastNMR, tags) /\ Lesser(merge, x)
    BY <1>1, <1>2, LesserCopies, SoundForgetting, StatusType
  <2>2. x.branches = merge.branches /\ x.resolveMR = merge.resolveMR /\ x.finalTag = 0
    BY <1>1 DEF ReleaseForgotten, Status
  <2>3. Goto(next, x)
    BY <1>6
  <2> HIDE DEF x
  <2>4. merge.finalMR \notin Tracked(x)
    BY <1>1, <1>6, <2>2, FinalIsAnother
  <2>5. Tracked(x) \in SUBSET NMR /\ merge.finalMR \in 0 .. MaxNMR
    BY <1>1, <2>1, TrackedObjects DEF Status
  <2>6. Benign(Tracked(x))
    BY <1>1, <1>6, <2>4, <2>5, DeletionIsBenign
  <2> QED BY <1>4, <2>1, <2>2, <2>3, <2>6
<1> QED BY <1>1, <1>5, <1>6 DEF DropFinalMR, Answered, next

\* The object of a removed branch is dropped with the build branch: until the
\* status starts over nothing is known of it.
LEMMA DropBuildAccounted == Calm /\ Keeps /\ DropBuild => Accounted'
<1> SUFFICES ASSUME Calm, Keeps, DropBuild PROVE Accounted'
  OBVIOUS
<1>1. /\ ConstantsOK /\ Inv /\ TypeOK /\ Accounted /\ ObjectsNext /\ TagsStay
      /\ UNCHANGED <<stored, want, at, tags>> /\ pc = "dropBuild" /\ ~Fault
      /\ TagsInOrder' /\ merge.resolveMR = 0
  BY NothingTouched DEF Calm, Keeps, DropBuild, Inv, StepOK
<1>2. RemoveBranch(build) /\ Goto("dropMRs", merge)
  BY <1>1 DEF DropBuild, Answered
<1>3. HeadsHold'
  BY <1>1, <1>2, WorkersHeadsHold DEF Accounted, World
<1>4. stored.phase # "gone" =>
        Account("dropMRs", merge, want', at', nmr', past', heads'[build].on, tags')
  BY <1>1 DEF Accounted, Current, Account, BranchesOK, ResolutionOK, TagOK
<1> QED BY <1>1, <1>2, <1>3, <1>4, AccountedGoesOn DEF Before

\* The objects of the branches go, and then the branches of the copy.
LEMMA DropBranchMRsAccounted == Calm /\ Keeps /\ DropBranchMRs => Accounted'
<1> SUFFICES ASSUME Calm, Keeps, DropBranchMRs PROVE Accounted'
  OBVIOUS
<1>1. /\ ConstantsOK /\ Inv /\ TypeOK /\ Accounted /\ ObjectsNext /\ TagsStay
      /\ UNCHANGED <<stored, want, heads, tags>> /\ pc = "dropMRs" /\ ~Fault
      /\ TagsInOrder' /\ HeadsHold' /\ merge.resolveMR = 0 /\ merge \in Status
  BY NothingTouched DEF Calm, Keeps, DropBranchMRs, Inv, StepOK, gitlab
<1>2. stored.phase # "gone" => merge.finalTag = 0
  BY <1>1 DEF Accounted, Current, Account, TagOK
<1>3. ASSUME NEW p \in {"dropMRs", "branches"}, NEW x, Goto(p, x),
             x.resolveMR = 0, x.finalTag = merge.finalTag,
             p = "branches" => at' = 1 /\ x.branches = <<>>
      PROVE  Accounted'
  <2>1. stored.phase # "gone" => Account(p, x, want', at', nmr', past', heads'[build].on, tags')
    BY <1>2, <1>3 DEF Account, BranchesOK, ResolutionOK, TagOK
  <2> QED BY <1>1, <1>3, <2>1, AccountedGoesOn DEF Before
<1>4. CASE at' = 1 /\ Goto("branches", [merge EXCEPT !.branches = <<>>])
  <2> DEFINE x == [merge EXCEPT !.branches = <<>>]
  <2>1. x.branches = <<>> /\ x.resolveMR = 0 /\ x.finalTag = merge.finalTag
    BY <1>1 DEF Status
  <2> HIDE DEF x
  <2> QED BY <1>3, <1>4, <2>1 DEF x
<1>5. CASE Goto("dropMRs", merge)
  BY <1>1, <1>3, <1>5
<1>6. CASE Goto("dropMRs", [merge EXCEPT !.branches[at].nmr = 0])
  <2> DEFINE x == [merge EXCEPT !.branches[at].nmr = 0]
  <2>1. x.resolveMR = 0 /\ x.finalTag = merge.finalTag
    BY <1>1 DEF Status
  <2> HIDE DEF x
  <2> QED BY <1>3, <1>6, <2>1 DEF x
<1> QED BY <1>1, <1>4, <1>5, <1>6 DEF DropBranchMRs, Answered

\* A branch that is added has no object yet; those that were there stay.
LEMMA AddBranchesToStatusAccounted == Calm /\ Keeps /\ AddBranchesToStatus => Accounted'
<1> SUFFICES ASSUME Calm, Keeps, AddBranchesToStatus PROVE Accounted'
  OBVIOUS
<1> DEFINE old == merge.branches
           bs == Extended(merge, want)
           vs == Validated(bs, 0)
           x == [merge EXCEPT !.branches = vs]
           on == heads[build].on
<1>1. /\ ConstantsOK /\ Inv /\ TypeOK /\ Accounted /\ ObjectsNext /\ TagsStay
      /\ UNCHANGED <<stored, want, at, nmr, past, heads, tags>> /\ pc = "branches" /\ ~Fault
      /\ TagsInOrder' /\ HeadsHold'
      /\ merge \in Status /\ Sound(merge, nmr, lastNMR, tags)
  BY NothingTouched DEF Calm, Keeps, AddBranchesToStatus, Inv, gitlab, objects
<1>2. at = 1 /\ Goto("build", x)
  BY <1>1 DEF Accounted, AtFirst, AddBranchesToStatus
<1>3. /\ bs \in BranchList /\ Names(bs) = Names(old) \cup Listed(want.branches)
      /\ DOMAIN old \subseteq DOMAIN bs /\ \A k \in DOMAIN old : bs[k] = old[k]
      /\ \A k \in DOMAIN bs \ DOMAIN old :
           bs[k] = NewBranch(bs[k].name) /\ bs[k].name \notin Names(old)
  BY <1>1, ExtendedKeeps DEF Inv, TypeOK, SpecType, Sound
<1> HIDE DEF bs
<1>4. /\ DOMAIN vs = DOMAIN bs /\ vs \in BranchList
      /\ \A k \in DOMAIN bs :
           /\ vs[k].name = bs[k].name /\ vs[k].nmr = bs[k].nmr
           /\ vs[k].processed = bs[k].processed /\ vs[k].conflict = bs[k].conflict
  BY <1>1, <1>3, ValidatedKeeps DEF TypeOK
<1>5. /\ x.branches = vs /\ x.resolveMR = merge.resolveMR /\ x.recreated = merge.recreated
      /\ x.finalTag = merge.finalTag /\ x.finalMR = merge.finalMR
  BY <1>1 DEF Status
<1> HIDE DEF vs, x
<1>6. ASSUME Account("branches", merge, want, 1, nmr, past, on, tags)
      PROVE  Account("build", x, want, 1, nmr, past, on, tags)
  <2>1. \A k \in DOMAIN vs \ DOMAIN old : vs[k].nmr = 0 /\ ~vs[k].processed /\ ~vs[k].conflict
    BY <1>3, <1>4 DEF NewBranch
  <2>2. \A k \in DOMAIN old :
          /\ k \in DOMAIN vs /\ vs[k].name = old[k].name /\ vs[k].nmr = old[k].nmr
          /\ vs[k].processed = old[k].processed /\ vs[k].conflict = old[k].conflict
    BY <1>3, <1>4
  <2>3. /\ \A k \in DOMAIN old : Known(old[k], nmr, past)
        /\ \A k \in DOMAIN old : Missing(old[k], on, past) => Noticed("branches", merge, 1, nmr)
    BY <1>6 DEF Account, BranchesOK
  <2>4. Noticed("branches", merge, 1, nmr) => Noticed("build", x, 1, nmr)
    BY <1>5, <2>2 DEF Noticed, Conflicts, Judged, Resolving
  <2>5. BranchesOK("build", x, 1, nmr, past, on)
    <3> SUFFICES ASSUME NEW k \in DOMAIN vs
                 PROVE  /\ Known(vs[k], nmr, past)
                        /\ Missing(vs[k], on, past) => Noticed("build", x, 1, nmr)
      BY <1>5 DEF BranchesOK
    <3>1. CASE k \notin DOMAIN old
      BY <2>1, <3>1 DEF Known, Missing
    <3>2. CASE k \in DOMAIN old
      <4>1. Known(vs[k], nmr, past)
        BY <2>2, <2>3, <3>2 DEF Known, Conflicts
      <4>2. Missing(vs[k], on, past) => Missing(old[k], on, past)
        BY <2>2, <3>2 DEF Missing, Excused
      <4> QED BY <2>3, <2>4, <3>2, <4>1, <4>2
    <3> QED BY <3>1, <3>2
  <2>6. Changed(merge, want) => merge.resolveMR = 0 /\ merge.finalTag = 0
    BY <1>1, <1>6 DEF Inv, StepOK, Account, TagOK
  <2>7. ~Changed(merge, want) => DOMAIN vs = DOMAIN old /\ Names(vs) = Names(old)
    <3> SUFFICES ASSUME Names(old) = Listed(want.branches)
                 PROVE  DOMAIN vs = DOMAIN old /\ Names(vs) = Names(old)
      BY DEF Changed
    <3>1. \A k \in DOMAIN bs : bs[k].name \in Names(bs)
      BY DEF Names
    <3>2. DOMAIN bs = DOMAIN old
      BY <1>3, <3>1
    <3> QED BY <1>4, <2>2, <3>2 DEF Names
  <2>8. ResolutionOK("build", x, nmr, on)
    BY <1>5, <1>6, <2>6, <2>7 DEF Account, ResolutionOK
  <2>9. TagOK("build", x, want, past, on, tags)
    <3>1. ASSUME merge.finalTag # 0 PROVE Accounts(x, tags[merge.finalTag].on, past)
      <4>1. DOMAIN vs = DOMAIN old /\ Accounts(merge, tags[merge.finalTag].on, past)
        BY <1>6, <2>6, <2>7, <3>1 DEF Account, TagOK
      <4> QED BY <1>5, <2>2, <4>1 DEF Accounts, Excused
    <3> QED BY <1>5, <1>6, <3>1 DEF Account, TagOK
  <2> QED BY <2>5, <2>8, <2>9 DEF Account
<1>7. stored.phase # "gone" =>
        Account("build", x, want', at', nmr', past', heads'[build].on, tags')
  BY <1>1, <1>2, <1>6 DEF Accounted, Current
<1> QED BY <1>1, <1>2, <1>7, AccountedGoesOn

\* A build branch that is there keeps what is on it.
LEMMA GetOrCreateBuildBranchAccounted == Calm /\ Keeps /\ GetOrCreateBuildBranch => Accounted'
<1> SUFFICES ASSUME Calm, Keeps, GetOrCreateBuildBranch PROVE Accounted'
  OBVIOUS
<1>1. /\ ConstantsOK /\ Inv /\ TypeOK /\ Accounted /\ ObjectsNext /\ TagsStay
      /\ UNCHANGED <<stored, want, at, nmr, past, tags>> /\ pc = "build" /\ ~Fault
      /\ TagsInOrder' /\ merge \in Status /\ Sound(merge, nmr, lastNMR, tags)
  BY NothingTouched DEF Calm, Keeps, GetOrCreateBuildBranch, Inv, objects
<1>2. at = 1 /\ Goto("nmrs", merge) /\ GetOrCreateBranch(build)
  BY <1>1 DEF Accounted, AtFirst, GetOrCreateBuildBranch, Answered
<1>3. HeadsHold' /\ heads[build].on \subseteq heads'[build].on
  BY <1>1, <1>2, WorkersHeadsHold DEF Accounted, World
<1>4. Benign(Tracked(merge))
  BY <1>1, <1>3 DEF Benign
<1>5. /\ "nmrs" \in Before \cup {"nmrs", "conditions", "object"} /\ Lesser(merge, merge)
      /\ pc \notin {"idle", "dropMRs", "finalMR"}
  BY <1>1, LesserCopies DEF Before
<1> QED BY <1>1, <1>2, <1>3, <1>4, <1>5, LesserGoesOn
\* The answer of getOrCreateNativeMR, beside the object itself.
LEMMA ObtainedObject ==
  ASSUME ConstantsOK, Inv, ObjectsNext, NEW n \in 0 .. lastNMR, NEW s, NEW t, NEW auto, NEW r,
         Obtains(n, s, t, auto, r), past' = past
  PROVE  /\ r \in NMR /\ r # 0
         /\ \A i \in 1 .. lastNMR : nmr'[i] = nmr[i]
         /\ Found(n) => r = n /\ nmr' = nmr
         /\ ~Found(n) => /\ r \notin 1 .. lastNMR /\ past[r] = {}
                         /\ nmr'[r].phase = "live" /\ nmr'[r].mr = "open"
                         /\ ~nmr'[r].processed /\ ~nmr'[r].ready /\ ~nmr'[r].hasConflict
<1>1. /\ r \in NMR /\ lastNMR \in Nat /\ 1 .. lastNMR \subseteq NMR /\ r # 0 /\ MaxNMR \in Nat
      /\ nmr \in [NMR -> Object]
  BY DEF Obtains, Inv, TypeOK, NMR, ConstantsOK
<1>2. CASE r = n /\ Found(n) /\ UNCHANGED <<nmr, lastNMR>>
  BY <1>1, <1>2
<1>3. CASE /\ r = lastNMR + 1 /\ ~Found(n) /\ nmr' = [nmr EXCEPT ![r] = NewNMR(s, t, auto)]
           /\ nmr'[r].phase = "live"
           /\ ~nmr'[r].processed /\ ~nmr'[r].ready /\ ~nmr'[r].hasConflict
  <2>1. r \notin 1 .. lastNMR /\ \A i \in 1 .. lastNMR : nmr'[i] = nmr[i]
    BY <1>1, <1>3
  <2>2. nmr'[r] = NewNMR(s, t, auto)
    BY <1>1, <1>3
  <2>3. nmr'[r].mr = "open"
    BY <2>2 DEF NewNMR, NoNMR
  <2>4. nmr[r].phase = "none"
    BY <1>1, <1>3 DEF Inv, ObjectsOK
  <2>5. past[r] = {}
    BY <1>1, <2>4 DEF Inv, ObjectsOK, Truthful
  <2> QED BY <1>1, <1>3, <2>1, <2>3, <2>5
<1> QED BY <1>2, <1>3 DEF Obtains

\* A copy counts on objects that have been created.
LEMMA NewIsBenign ==
  ASSUME ConstantsOK, TypeOK, UNCHANGED <<heads, past>>, NEW m \in Status,
         Sound(m, nmr, lastNMR, tags), \A i \in 1 .. lastNMR : nmr'[i] = nmr[i]
  PROVE  Benign(Tracked(m))
<1>1. Tracked(m) \subseteq 1 .. lastNMR
  BY TrackedObjects DEF Tracked
<1> QED BY <1>1 DEF Benign

\* The loop goes on to the next branch with what is known of the object of this.
LEMMA NotedAccount ==
  ASSUME ConstantsOK, Inv, ObjectsNext, Accounted, past' = past, pc = "nmrs",
         at \in DOMAIN merge.branches, merge.branches \in BranchList, NEW on, NEW r,
         Obtains(merge.branches[at].nmr, merge.branches[at].name, build, TRUE, r),
         Account("nmrs", merge, want, at, nmr, past, on, tags)
  PROVE  LET x == [merge EXCEPT !.branches = Noted(merge.branches, at, r)] IN
         Account("nmrs", x, want, at + 1, nmr', past', on, tags)
<1> DEFINE old == merge.branches
           bs == Noted(old, at, r)
           x == [merge EXCEPT !.branches = bs]
           n == old[at].nmr
<1>1. /\ \A k \in DOMAIN old : Known(old[k], nmr, past)
      /\ \A k \in DOMAIN old : Missing(old[k], on, past) => Noticed("nmrs", merge, at, nmr)
  BY DEF Account, BranchesOK
<1>2. /\ merge \in Status /\ TypeOK /\ Sound(merge, nmr, lastNMR, tags)
      /\ \A k \in DOMAIN old : old[k].nmr \in 0 .. lastNMR
      /\ merge.resolveMR \in 0 .. lastNMR
  BY DEF Inv, TypeOK, Sound, Refs
<1>3. /\ r \in NMR /\ r # 0
      /\ \A i \in 1 .. lastNMR : nmr'[i] = nmr[i]
      /\ Found(n) => r = n /\ nmr' = nmr
      /\ ~Found(n) => /\ past[r] = {} /\ nmr'[r].phase = "live"
                      /\ ~nmr'[r].processed /\ ~nmr'[r].hasConflict
  <2> DEFINE b == old[at].name
             auto == TRUE
  <2>1. n \in 0 .. lastNMR /\ Obtains(n, b, build, auto, r)
    BY <1>2
  <2> HIDE DEF n, b, auto
  <2> QED BY <2>1, ObtainedObject
<1>4. Found(n) <=> n # 0
  BY <1>1 DEF Known, Found
<1>5. nmr' \in [NMR -> Object] /\ lastNMR \in Nat
  BY <1>2 DEF ObjectsNext, TypeOK
<1>6. /\ DOMAIN bs = DOMAIN old /\ Names(bs) = Names(old)
      /\ \A k \in DOMAIN old : k # at => bs[k] = old[k]
      /\ bs[at].name = old[at].name /\ bs[at].nmr = r
      /\ bs[at].conflict = nmr'[r].hasConflict /\ bs[at].processed = nmr'[r].processed
  BY <1>3, <1>5, EntryNoted
<1>7. /\ x.branches = bs /\ x.resolveMR = merge.resolveMR /\ x.recreated = merge.recreated
      /\ x.finalTag = merge.finalTag /\ x.finalMR = merge.finalMR
  BY <1>2 DEF Status
<1>8. nmr'[r].phase = "live"
  BY <1>1, <1>3, <1>4 DEF Known
<1>9. nmr'[r].processed => past[r] # {}
  BY <1>3 DEF Accounted, World
<1>10. \A k \in DOMAIN old : old[k].nmr # 0 => nmr'[old[k].nmr] = nmr[old[k].nmr]
  BY <1>2, <1>3, <1>5
<1>11. at \in Nat /\ DOMAIN old \subseteq Nat
  BY BranchListIsSeq
<1> HIDE DEF bs, x, n
<1>12. \A k \in DOMAIN old : Known(bs[k], nmr', past')
  <2> SUFFICES ASSUME NEW k \in DOMAIN old PROVE Known(bs[k], nmr', past')
    OBVIOUS
  <2>1. CASE k = at
    BY <1>3, <1>6, <1>8, <1>9, <2>1 DEF Known, Conflicts
  <2>2. CASE k # at
    <3>1. bs[k] = old[k] /\ Known(old[k], nmr, past)
      BY <1>1, <1>6, <2>2
    <3> QED BY <1>10, <3>1 DEF Known, Conflicts
  <2> QED BY <2>1, <2>2
<1>13. \A k \in DOMAIN old : Missing(bs[k], on, past') => Missing(old[k], on, past)
  <2> SUFFICES ASSUME NEW k \in DOMAIN old, Missing(bs[k], on, past')
               PROVE  Missing(old[k], on, past)
    OBVIOUS
  <2>1. CASE k # at
    BY <1>6, <2>1
  <2>2. CASE k = at /\ ~Found(n)
    <3>1. "merged" \in past[r]
      BY <1>6, <2>2 DEF Missing
    <3> QED BY <1>3, <2>2, <3>1
  <2>3. CASE k = at /\ Found(n)
    <3>1. bs[at].nmr = old[at].nmr /\ bs[at].name = old[at].name
      BY <1>3, <1>6, <2>3 DEF n
    <3> QED BY <2>3, <3>1 DEF Missing, Excused
  <2> QED BY <2>1, <2>2, <2>3
<1>14. Noticed("nmrs", merge, at, nmr) => Noticed("nmrs", x, at + 1, nmr')
  <2>1. "nmrs" \notin Judged
    BY DEF Judged, Resolving
  <2> SUFFICES ASSUME NEW k \in DOMAIN old,
                      IF k < at THEN old[k].conflict ELSE Conflicts(old[k], nmr)
               PROVE  IF k < at + 1 THEN bs[k].conflict ELSE Conflicts(bs[k], nmr')
    BY <1>6, <1>7, <2>1 DEF Noticed
  <2>2. CASE k < at
    BY <1>6, <1>11, <2>2
  <2>3. CASE k = at
    <3>1. n # 0 /\ nmr[n].hasConflict
      BY <1>11, <2>3 DEF Conflicts, n
    <3>2. nmr'[r].hasConflict
      BY <1>3, <1>4, <3>1
    <3>3. k < at + 1
      BY <1>11, <2>3
    <3>4. bs[k].conflict
      BY <1>6, <2>3, <3>2
    <3> QED BY <3>3, <3>4
  <2>4. CASE ~(k < at) /\ k # at
    <3>1. ~(k < at + 1) /\ bs[k] = old[k]
      BY <1>6, <1>11, <2>4
    <3>2. Conflicts(old[k], nmr')
      BY <1>10, <2>4 DEF Conflicts
    <3> QED BY <3>1, <3>2
  <2> QED BY <2>2, <2>3, <2>4
<1>15. BranchesOK("nmrs", x, at + 1, nmr', past', on)
  BY <1>1, <1>6, <1>7, <1>12, <1>13, <1>14 DEF BranchesOK
<1>16. ResolutionOK("nmrs", x, nmr', on)
  <2>1. merge.resolveMR # 0 => nmr'[merge.resolveMR] = nmr[merge.resolveMR]
    BY <1>2, <1>3, <1>5
  <2> QED BY <1>6, <1>7, <2>1 DEF Account, ResolutionOK
<1>17. TagOK("nmrs", x, want, past', on, tags)
  <2>1. ASSUME NEW c, Accounts(merge, c, past) PROVE Accounts(x, c, past')
    <3> SUFFICES ASSUME NEW k \in DOMAIN old, bs[k].name \notin c
                 PROVE  Excused(bs[k], past')
      BY <1>6, <1>7 DEF Accounts
    <3>1. Excused(old[k], past)
      <4>1. old[k].name \notin c
        BY <1>6
      <4> QED BY <2>1, <4>1 DEF Accounts
    <3>2. CASE k # at
      BY <1>6, <3>1, <3>2
    <3>3. CASE k = at
      <4>1. n # 0
        BY <3>1, <3>3 DEF Excused, n
      <4>2. bs[at].nmr = old[at].nmr
        BY <1>3, <1>4, <1>6, <4>1 DEF n
      <4> QED BY <3>1, <3>3, <4>2 DEF Excused
    <3> QED BY <3>2, <3>3
  <2> QED BY <1>7, <2>1 DEF Account, TagOK
<1> QED BY <1>15, <1>16, <1>17 DEF Account, x, bs

\* What is recorded of the object of a branch is known and noticed.
LEMMA EnsureBranchMRAccounted == Calm /\ Keeps /\ EnsureBranchMR => Accounted'
<1> SUFFICES ASSUME Calm, Keeps, EnsureBranchMR PROVE Accounted'
  OBVIOUS
<1>1. /\ ConstantsOK /\ Inv /\ TypeOK /\ Accounted /\ ObjectsNext /\ TagsStay
      /\ UNCHANGED <<stored, want, heads, tags, past>> /\ pc = "nmrs"
      /\ TagsInOrder' /\ HeadsHold' /\ faults = 0 /\ faults' = 0
  BY NothingTouched DEF Calm, Keeps, EnsureBranchMR, Inv, gitlab, GetOrCreateNativeMR
<1>2. /\ at \in DOMAIN merge.branches /\ at' = at + 1 /\ merge.branches \in BranchList
      /\ \E r \in NMR :
           /\ Goto("nmrs", [merge EXCEPT !.branches = Noted(merge.branches, at, r)])
           /\ Obtains(merge.branches[at].nmr, merge.branches[at].name, build, TRUE, r)
  <2>1. ~Loses(merge.branches[at].name, build, TRUE)
    BY <1>1 DEF Loses
  <2> QED BY <1>1, <2>1, EnsuredBranchMR, AtEntry
<1>3. PICK r \in NMR :
        /\ Goto("nmrs", [merge EXCEPT !.branches = Noted(merge.branches, at, r)])
        /\ Obtains(merge.branches[at].nmr, merge.branches[at].name, build, TRUE, r)
  BY <1>2
<1> DEFINE x == [merge EXCEPT !.branches = Noted(merge.branches, at, r)]
           on == heads[build].on
<1>4. Account("nmrs", merge, want, at, nmr, past, on, tags) =>
        Account("nmrs", x, want, at + 1, nmr', past', on, tags)
  <2> HIDE DEF on
  <2> QED BY <1>1, <1>2, <1>3, NotedAccount
<1>5. Goto("nmrs", x)
  BY <1>3
<1> HIDE DEF x
<1>6. stored.phase # "gone" =>
        Account("nmrs", x, want', at', nmr', past', heads'[build].on, tags')
  BY <1>1, <1>2, <1>4 DEF Accounted, Current
<1> QED BY <1>1, <1>5, <1>6, AccountedGoesOn DEF Before
\* Every branch that is processed was merged, closed or removed: one that was
\* merged, and is not missing, is on the build branch.
LEMMA ProcessedAccount ==
  ASSUME TypeOK, NEW m \in Status, ConstantsOK, Sound(m, nmr, lastNMR, tags), NEW on,
         \A k \in DOMAIN m.branches : Known(m.branches[k], nmr, past),
         \A k \in DOMAIN m.branches : ~Missing(m.branches[k], on, past),
         AllProcessed(m)
  PROVE  Accounts(m, on, past)
<1> SUFFICES ASSUME NEW k \in DOMAIN m.branches, ~Excused(m.branches[k], past)
             PROVE  m.branches[k].name \in on
  BY DEF Accounts
<1> DEFINE n == m.branches[k].nmr
<1>1. n # 0 /\ past[n] # {} /\ n \in NMR
  BY TrackedObjects DEF AllProcessed, Known
<1>2. past[n] \subseteq Outcome
  BY <1>1 DEF TypeOK
<1>3. "merged" \in past[n]
  BY <1>1, <1>2 DEF Excused, Outcome
<1> QED BY <1>1, <1>3 DEF Missing

\* After the loop all branches are processed or the reconcile returns; a conflict
\* leads to its resolution, and without one nothing is missing.
LEMMA JudgeAccounted == Calm /\ Keeps /\ Judge => Accounted'
<1> SUFFICES ASSUME Calm, Keeps, Judge PROVE Accounted'
  OBVIOUS
<1> DEFINE exist == [merge EXCEPT !.conditions.branchesExist = "True"]
           lack == [merge EXCEPT !.conditions.branchesExist = "False"]
           await == [exist EXCEPT !.conditions.branchMerged = "False"]
           on == heads[build].on
<1>1. /\ ConstantsOK /\ Inv /\ TypeOK /\ Accounted /\ ObjectsNext /\ TagsStay
      /\ UNCHANGED <<stored, want, at, nmr, past, heads, tags>> /\ pc = "nmrs"
      /\ TagsInOrder' /\ HeadsHold' /\ merge \in Status /\ Sound(merge, nmr, lastNMR, tags)
      /\ \A R : Benign(R)
  BY NothingTouched DEF Calm, Keeps, Judge, Inv, gitlab, objects
<1>2. \A k \in DOMAIN merge.branches : k < at
  <2>1. /\ at > Len(merge.branches) /\ at \in Nat /\ Len(merge.branches) \in Nat
        /\ DOMAIN merge.branches = 1 .. Len(merge.branches)
    BY <1>1, AtEntry DEF Judge
  <2> QED BY <2>1
<1>3. /\ exist \in Status /\ lack \in Status /\ Lesser(merge, exist) /\ Lesser(merge, lack)
      /\ Alike(merge, exist) /\ Alike(merge, lack)
      /\ exist.branches = merge.branches /\ exist.resolveMR = merge.resolveMR
      /\ exist.recreated = merge.recreated /\ exist.finalTag = merge.finalTag
      /\ exist.finalMR = merge.finalMR
  <2>1. /\ exist \in Status /\ lack \in Status /\ Lesser(merge, exist) /\ Lesser(merge, lack)
        /\ Alike(merge, exist) /\ Alike(merge, lack)
    BY <1>1, StatusType, LesserCopies, AlikeCopies DEF Condition
  <2> QED BY <1>1, <2>1 DEF Status
<1> HIDE DEF exist, lack
<1>4. await \in Status /\ Lesser(merge, await) /\ Alike(merge, await)
  <2>1. await \in Status /\ Lesser(exist, await) /\ Alike(exist, await)
    BY <1>1, <1>3, StatusType, LesserCopies, AlikeCopies DEF Condition
  <2> HIDE DEF await
  <2> QED BY <1>3, <2>1 DEF Lesser, Alike
<1> HIDE DEF await
<1>5. Sound(lack, nmr, lastNMR, tags) /\ Sound(await, nmr, lastNMR, tags)
  BY <1>1, <1>3, <1>4, SoundAlike
<1>6. CASE Return(lack) \/ Return(await)
  <2>1. Benign(Tracked(lack)) /\ Benign(Tracked(await)) /\ pc \notin {"idle", "dropMRs", "finalMR"}
    BY <1>1
  <2> QED BY <1>1, <1>3, <1>4, <1>5, <1>6, <2>1, AccountedReturns
<1>7. ASSUME NEW p \in {"recreate", "resolveBranch", "compare"}, Goto(p, exist),
             p = "resolveBranch" => merge.recreated,
             p = "compare" => AllProcessed(merge) /\ ~HasConflict(merge)
      PROVE  Accounted'
  <2>1. p \in Judged /\ p \notin {"idle"} \cup Before /\ "nmrs" \notin Judged
    BY DEF Judged, Resolving, Before
  <2>2. ASSUME Account("nmrs", merge, want, at, nmr, past, on, tags)
        PROVE  Account(p, exist, want, at, nmr, past, on, tags)
    <3>1. Noticed("nmrs", merge, at, nmr) <=> HasConflict(merge)
      BY <1>2, <2>1 DEF Noticed, HasConflict
    <3>2. Noticed(p, exist, at, nmr) <=> HasConflict(merge)
      BY <1>3, <2>1 DEF Noticed, HasConflict
    <3>3. /\ \A k \in DOMAIN merge.branches : Known(merge.branches[k], nmr, past)
          /\ \A k \in DOMAIN merge.branches :
               Missing(merge.branches[k], on, past) => HasConflict(merge)
      BY <2>2, <3>1 DEF Account, BranchesOK
    <3>4. BranchesOK(p, exist, at, nmr, past, on)
      BY <1>3, <3>2, <3>3 DEF BranchesOK
    <3>5. ResolutionOK(p, exist, nmr, on)
      BY <1>3, <1>7, <2>2 DEF Account, ResolutionOK
    <3>6. p = "compare" => Accounts(merge, on, past)
      BY <1>1, <1>7, <3>3, ProcessedAccount
    <3>7. TagOK(p, exist, want, past, on, tags)
      BY <1>3, <2>2, <3>6 DEF Account, TagOK, Accounts
    <3> QED BY <3>4, <3>5, <3>7 DEF Account
  <2>3. stored.phase # "gone" =>
          Account(p, exist, want', at', nmr', past', heads'[build].on, tags')
    BY <1>1, <2>2 DEF Accounted, Current
  <2> QED BY <1>1, <1>7, <2>1, <2>3, AccountedGoesOn
<1>8. CASE HasConflict(merge) /\ Goto(IF ToBeRecreated(merge) THEN "recreate" ELSE "resolveBranch", exist)
  <2>1. CASE ToBeRecreated(merge)
    <3>1. Goto("recreate", exist)
      BY <1>8, <2>1
    <3> QED BY <1>7, <3>1
  <2>2. CASE ~ToBeRecreated(merge)
    <3>1. Goto("resolveBranch", exist) /\ merge.recreated
      BY <1>8, <2>2 DEF ToBeRecreated
    <3> QED BY <1>7, <3>1
  <2> QED BY <2>1, <2>2
<1>9. CASE AllProcessed(merge) /\ ~HasConflict(merge) /\ Goto("compare", exist)
  BY <1>7, <1>9
<1> QED BY <1>6, <1>8, <1>9 DEF Judge, exist, lack, await
\* While a conflict is known the build branch may start over.
LEMMA ConflictAccount ==
  ASSUME ConstantsOK, TypeOK, ObjectsNext, TagsStay, NEW m \in Status,
         Sound(m, nmr, lastNMR, tags), NEW p, NEW w, NEW i, NEW on,
         Account(p, m, w, i, nmr, past, on, tags), p \notin {"dropMRs", "finalMR"},
         HasConflict(m), m.resolveMR = 0, \A n \in NMR : nmr'[n].phase = nmr[n].phase,
         NEW q \in {"createBuild", "resolveBranch"}, NEW x, NEW on2,
         x.branches = m.branches, x.resolveMR = 0, x.finalTag = m.finalTag, x.finalMR = m.finalMR,
         q = "resolveBranch" => x.recreated
  PROVE  Account(q, x, w, i, nmr', past', on2, tags')
<1>1. q \in Judged /\ q \notin {"dropMRs", "dropBuild", "branches", "compare", "tag"}
  BY DEF Judged, Resolving
<1>2. BranchesOK(q, x, i, nmr', past', on2)
  <2>1. \A k \in DOMAIN m.branches : Known(m.branches[k], nmr, past)
    BY DEF Account, BranchesOK
  <2>2. \A k \in DOMAIN m.branches : m.branches[k].nmr # 0 => nmr'[m.branches[k].nmr].phase = "live"
    BY <2>1, TrackedObjects DEF Known
  <2>3. \A k \in DOMAIN m.branches : Known(m.branches[k], nmr', past')
    BY <2>1, <2>2, KnownStays
  <2>4. Noticed(q, x, i, nmr')
    BY <1>1 DEF Noticed, HasConflict
  <2> QED BY <2>3, <2>4 DEF BranchesOK
<1>3. ResolutionOK(q, x, nmr', on2)
  BY DEF ResolutionOK
<1>4. TagOK(q, x, w, past', on2, tags')
  <2>1. ASSUME m.finalTag # 0 PROVE m.finalMR # 0 /\ Accounts(m, tags'[m.finalTag].on, past')
    <3>1. m.finalMR # 0 /\ Accounts(m, tags[m.finalTag].on, past)
      BY <2>1 DEF Account, TagOK
    <3>2. tags'[m.finalTag] = tags[m.finalTag]
      <4>1. tags[m.finalTag].exists /\ m.finalTag \in 1 .. MaxTag
        BY <2>1, <3>1 DEF Sound, Status, ConstantsOK
      <4> QED BY <4>1 DEF TagsStay
    <3> QED BY <3>1, <3>2, AccountsStay
  <2> QED BY <1>1, <2>1 DEF TagOK, Accounts
<1> QED BY <1>2, <1>3, <1>4 DEF Account

\* The build branch goes, which the copy notices by its conflict.
LEMMA RecreateBuildAccounted == Calm /\ Keeps /\ RecreateBuild => Accounted'
<1> SUFFICES ASSUME Calm, Keeps, RecreateBuild PROVE Accounted'
  OBVIOUS
<1>1. /\ ConstantsOK /\ Inv /\ TypeOK /\ Accounted /\ ObjectsNext /\ TagsStay
      /\ UNCHANGED <<stored, want, at, tags>> /\ pc = "recreate" /\ ~Fault
      /\ TagsInOrder' /\ merge \in Status /\ Sound(merge, nmr, lastNMR, tags)
      /\ HasConflict(merge) /\ ~merge.recreated
  BY NothingTouched DEF Calm, Keeps, RecreateBuild, Inv, StepOK, Resolving
<1>2. RemoveBranch(build) /\ Goto("createBuild", merge)
  BY <1>1 DEF RecreateBuild, Answered
<1>3. HeadsHold' /\ \A n \in NMR : nmr'[n].phase = nmr[n].phase
  BY <1>1, <1>2, WorkersHeadsHold, RemovalIsBenign DEF Accounted, World
<1>4. ASSUME Account("recreate", merge, want, at, nmr, past, heads[build].on, tags)
      PROVE  Account("createBuild", merge, want, at, nmr', past', heads'[build].on, tags')
  <2>1. merge.resolveMR = 0
    BY <1>1, <1>4 DEF Account, ResolutionOK
  <2> QED BY <1>1, <1>3, <1>4, <2>1, ConflictAccount
<1>5. stored.phase # "gone" =>
        Account("createBuild", merge, want', at', nmr', past', heads'[build].on, tags')
  BY <1>1, <1>4 DEF Accounted, Current
<1> QED BY <1>1, <1>2, <1>3, <1>5, AccountedGoesOn DEF Before

\* The build branch starts over from main.
LEMMA CreateBuildAccounted == Calm /\ Keeps /\ CreateBuild => Accounted'
<1> SUFFICES ASSUME Calm, Keeps, CreateBuild PROVE Accounted'
  OBVIOUS
<1> DEFINE x == [merge EXCEPT !.recreated = TRUE]
<1>1. /\ ConstantsOK /\ Inv /\ TypeOK /\ Accounted /\ ObjectsNext /\ TagsStay
      /\ UNCHANGED <<stored, want, at, nmr, past, tags>> /\ pc = "createBuild" /\ ~Fault
      /\ TagsInOrder' /\ merge \in Status /\ Sound(merge, nmr, lastNMR, tags)
      /\ HasConflict(merge) /\ ~merge.recreated
  BY NothingTouched DEF Calm, Keeps, CreateBuild, Inv, StepOK, Resolving, objects
<1>2. heads' = [heads EXCEPT ![build] = heads[main]] /\ Goto("resolveBranch", x)
  BY <1>1 DEF CreateBuild, Answered
<1>3. HeadsHold' /\ \A n \in NMR : nmr'[n].phase = nmr[n].phase
  BY <1>1, <1>2, WorkersHeadsHold DEF Accounted, World
<1>4. /\ x.branches = merge.branches /\ x.resolveMR = merge.resolveMR /\ x.recreated
      /\ x.finalTag = merge.finalTag /\ x.finalMR = merge.finalMR
  BY <1>1 DEF Status
<1> HIDE DEF x
<1>5. ASSUME Account("createBuild", merge, want, at, nmr, past, heads[build].on, tags)
      PROVE  Account("resolveBranch", x, want, at, nmr', past', heads'[build].on, tags')
  <2>1. merge.resolveMR = 0
    BY <1>1, <1>5 DEF Account, ResolutionOK
  <2> QED BY <1>1, <1>3, <1>4, <1>5, <2>1, ConflictAccount
<1>6. stored.phase # "gone" =>
        Account("resolveBranch", x, want', at', nmr', past', heads'[build].on, tags')
  BY <1>1, <1>5 DEF Accounted, Current
<1> QED BY <1>1, <1>2, <1>3, <1>6, AccountedGoesOn DEF Before

\* A new resolve branch has nothing on it that could be merged.
LEMMA GetOrCreateResolveBranchAccounted ==
  Calm /\ Keeps /\ GetOrCreateResolveBranch => Accounted'
<1> SUFFICES ASSUME Calm, Keeps, GetOrCreateResolveBranch PROVE Accounted'
  OBVIOUS
<1>1. /\ ConstantsOK /\ Inv /\ TypeOK /\ Accounted /\ ObjectsNext /\ TagsStay
      /\ UNCHANGED <<stored, want, at, nmr, past, tags>> /\ pc = "resolveBranch" /\ ~Fault
      /\ TagsInOrder' /\ merge \in Status /\ Sound(merge, nmr, lastNMR, tags)
  BY NothingTouched DEF Calm, Keeps, GetOrCreateResolveBranch, Inv, objects
<1>2. GetOrCreateBranch(ResolveName(merge)) /\ Goto("resolveMR", merge)
  BY <1>1 DEF GetOrCreateResolveBranch, Answered
<1>3. ResolveName(merge) \in Lists
  BY <1>1, ResolveNameIsList DEF Sound
<1>4. HeadsHold' /\ heads[build].on \subseteq heads'[build].on
  BY <1>1, <1>2, <1>3, WorkersHeadsHold DEF Accounted, World
<1>5. Benign(Tracked(merge))
  BY <1>1, <1>4 DEF Benign
<1>6. ASSUME Account("resolveBranch", merge, want, at, nmr, past, heads[build].on, tags)
      PROVE  Account("resolveMR", merge, want, at, nmr, past, heads[build].on, tags)
  BY <1>6 DEF Account, BranchesOK, ResolutionOK, TagOK, Noticed, Judged, Resolving
<1>7. stored.phase # "gone" =>
        Account("resolveMR", merge, want, at', nmr, past, heads[build].on, tags)
  BY <1>1, <1>6 DEF Accounted, Current
<1> QED BY <1>1, <1>2, <1>4, <1>5, <1>7, CopyGoesOn DEF Before
\* The copy gets its resolve object, which either has resolved the conflict, and
\* then the build branch has all branches, or not yet.
LEMMA ResolvingAccount ==
  ASSUME NEW m, NEW w, NEW i, NEW j, NEW objs, NEW ps, NEW on, NEW ts, NEW r, NEW x,
         Account("resolveMR", m, w, i, objs, ps, on, ts),
         x.branches = m.branches, x.resolveMR = r, x.recreated = m.recreated,
         x.finalTag = m.finalTag, x.finalMR = m.finalMR,
         objs[r].mr = "accepted" \/ objs[r].ready => Names(m.branches) \subseteq on
  PROVE  /\ Account("conditions", x, w, j, objs, ps, on, ts)
         /\ objs[r].ready => Account("compare", x, w, j, objs, ps, on, ts)
<1>1. "conditions" \notin Judged /\ "resolveMR" \in Judged /\ "compare" \in Judged
  BY DEF Judged, Resolving
<1>2. /\ \A k \in DOMAIN m.branches : Known(m.branches[k], objs, ps)
      /\ \A k \in DOMAIN m.branches :
           Missing(m.branches[k], on, ps) => Noticed("resolveMR", m, i, objs)
  BY DEF Account, BranchesOK
<1>3. Noticed("resolveMR", m, i, objs) => Noticed("conditions", m, j, objs)
  BY <1>1, <1>2, NoticedAnyway
<1>4. Noticed("conditions", m, j, objs) => Noticed("conditions", x, j, objs)
  BY DEF Noticed
<1>5. BranchesOK("conditions", x, j, objs, ps, on)
  BY <1>2, <1>3, <1>4 DEF BranchesOK
<1>6. Noticed("resolveMR", m, i, objs) => Noticed("compare", x, j, objs)
  BY <1>1 DEF Noticed
<1>7. BranchesOK("compare", x, j, objs, ps, on)
  BY <1>2, <1>6 DEF BranchesOK
<1>8. ResolutionOK("conditions", x, objs, on) /\ ResolutionOK("compare", x, objs, on)
  BY DEF Account, ResolutionOK
<1>9. TagOK("conditions", x, w, ps, on, ts)
  BY DEF Account, TagOK, Accounts
<1>10. ASSUME objs[r].ready PROVE TagOK("compare", x, w, ps, on, ts)
  <2>1. \A k \in DOMAIN m.branches : m.branches[k].name \in on
    BY <1>10 DEF Names
  <2>2. Accounts(x, on, ps)
    BY <2>1 DEF Accounts
  <2> QED BY <2>2 DEF Account, TagOK, Accounts
<1> QED BY <1>5, <1>7, <1>8, <1>9, <1>10 DEF Account

\* The resolution is over when its object is Ready: then all branches are back.
LEMMA EnsureResolveMRAccounted == Calm /\ Keeps /\ EnsureResolveMR => Accounted'
<1> SUFFICES ASSUME Calm, Keeps, EnsureResolveMR PROVE Accounted'
  OBVIOUS
<1> DEFINE s == ResolveName(merge)
           n == merge.resolveMR
           auto == TRUE
<1>1. /\ ConstantsOK /\ Inv /\ TypeOK /\ Accounted /\ ObjectsNext /\ TagsStay
      /\ UNCHANGED <<stored, want, at, heads, tags, past>> /\ pc = "resolveMR"
      /\ TagsInOrder' /\ HeadsHold' /\ faults = 0 /\ faults' = 0
      /\ merge \in Status /\ Sound(merge, nmr, lastNMR, tags)
  BY NothingTouched DEF Calm, Keeps, EnsureResolveMR, Inv, gitlab, GetOrCreateNativeMR
<1>2. ~Loses(s, build, TRUE)
  BY <1>1 DEF Loses
<1>3. PICK r \in NMR :
        /\ Obtains(n, s, build, auto, r)
        /\ LET m == WithResolveMR(merge, r) IN
           \/ Return([m EXCEPT !.conditions.resolved = "False"])
           \/ /\ nmr'[r].ready
              /\ Goto("compare", [m EXCEPT !.conditions.resolved = "True"])
  BY <1>1, <1>2, EnsuredResolveMR
<1>4. n \in 0 .. lastNMR
  BY <1>1 DEF Sound, Refs
<1> HIDE DEF s, n, auto
<1>5. /\ \A i \in 1 .. lastNMR : nmr'[i] = nmr[i]
      /\ r # 0
      /\ Found(n) => r = n
      /\ ~Found(n) => nmr'[r].mr = "open" /\ ~nmr'[r].ready
  BY <1>1, <1>3, <1>4, ObtainedObject
<1> DEFINE m == WithResolveMR(merge, r)
           x == [m EXCEPT !.conditions.resolved = "False"]
           y == [m EXCEPT !.conditions.resolved = "True"]
<1>6. /\ m.branches = merge.branches /\ m.resolveMR = r /\ m.recreated = merge.recreated
      /\ m.finalTag = merge.finalTag /\ m.finalMR = merge.finalMR
  BY <1>1 DEF WithResolveMR, Status
<1>7. /\ x.branches = m.branches /\ x.resolveMR = m.resolveMR /\ x.recreated = m.recreated
      /\ x.finalTag = m.finalTag /\ x.finalMR = m.finalMR
      /\ y.branches = m.branches /\ y.resolveMR = m.resolveMR /\ y.recreated = m.recreated
      /\ y.finalTag = m.finalTag /\ y.finalMR = m.finalMR
  BY <1>1 DEF WithResolveMR, Status
<1>8. Goto("conditions", x) \/ (nmr'[r].ready /\ Goto("compare", y))
  BY <1>3 DEF Return
<1> HIDE DEF m, x, y
<1>9. ASSUME stored.phase # "gone"
      PROVE  /\ Account("conditions", x, want, at, nmr', past', heads'[build].on, tags')
             /\ nmr'[r].ready => Account("compare", y, want, at, nmr', past', heads'[build].on, tags')
  <2>1. Account("resolveMR", merge, want, at, nmr, past, heads[build].on, tags)
    BY <1>1, <1>9 DEF Accounted, Current
  <2>2. merge.finalTag # 0 => tags[merge.finalTag].exists
    BY <1>1, <2>1 DEF Account, TagOK, Sound
  <2>3. Benign(Tracked(merge))
    BY <1>1, <1>5, NewIsBenign
  <2>4. Account("resolveMR", merge, want, at, nmr', past', heads'[build].on, tags')
    BY <1>1, <2>1, <2>2, <2>3, AccountStays
  <2>5. nmr'[r].mr = "accepted" \/ nmr'[r].ready => Names(merge.branches) \subseteq heads'[build].on
    <3>1. CASE Found(n)
      <4>1. r = merge.resolveMR /\ merge.resolveMR # 0
        BY <1>5, <3>1 DEF n, Found
      <4> QED BY <2>4, <4>1 DEF Account, ResolutionOK
    <3>2. CASE ~Found(n)
      BY <1>5, <3>2
    <3> QED BY <3>1, <3>2
  <2> QED BY <1>6, <1>7, <2>4, <2>5, ResolvingAccount
<1>10. CASE Goto("conditions", x)
  BY <1>1, <1>9, <1>10, AccountedGoesOn DEF Before
<1>11. CASE nmr'[r].ready /\ Goto("compare", y)
  BY <1>1, <1>9, <1>11, AccountedGoesOn DEF Before
<1> QED BY <1>8, <1>10, <1>11

LEMMA CompareWithMainAccounted == Calm /\ Keeps /\ CompareWithMain => Accounted'
<1> SUFFICES ASSUME Calm, Keeps, CompareWithMain PROVE Accounted'
  OBVIOUS
<1>1. /\ ConstantsOK /\ Inv /\ TypeOK /\ Accounted /\ ObjectsNext /\ TagsStay
      /\ UNCHANGED <<stored, want, at, nmr, past, heads, tags>> /\ pc = "compare"
      /\ TagsInOrder' /\ HeadsHold' /\ merge \in Status /\ Sound(merge, nmr, lastNMR, tags)
      /\ \A R : Benign(R)
  BY NothingTouched DEF Calm, Keeps, CompareWithMain, Inv, gitlab, objects
<1>2. Benign(Tracked(merge)) /\ Lesser(merge, merge) /\ pc \notin {"idle", "dropMRs", "finalMR"}
  BY <1>1, LesserCopies
<1>3. CASE Return(merge)
  BY <1>1, <1>2, <1>3, AccountedReturns
<1>4. CASE Goto("tag", merge)
  <2>1. ASSUME Account("compare", merge, want, at, nmr, past, heads[build].on, tags)
        PROVE  Account("tag", merge, want, at, nmr, past, heads[build].on, tags)
    BY <2>1 DEF Account, BranchesOK, ResolutionOK, TagOK, Noticed, Judged
  <2>2. stored.phase # "gone" =>
          Account("tag", merge, want, at', nmr, past, heads[build].on, tags)
    BY <1>1, <2>1 DEF Accounted, Current
  <2> QED BY <1>1, <1>2, <1>4, <2>2, CopyGoesOn DEF Before
<1> QED BY <1>3, <1>4 DEF CompareWithMain
\* The next version is not taken, and continues the versions.
LEMMA NextVersionContinues ==
  ASSUME ConstantsOK, TypeOK, TagsInOrder, stored.phase # "gone", stored' = stored
  PROVE  /\ NextVersion \in Nat /\ NextVersion # 0
         /\ NextVersion <= MaxTag => ~tags[NextVersion].exists
         /\ NextVersion <= MaxTag /\ heads[build].exists
              /\ tags' = [tags EXCEPT ![NextVersion] = heads[build]] => TagsInOrder'
<1>1. PICK c \in 0 .. MaxTag : {t \in 1 .. MaxTag : tags[t].exists} = 1 .. c
  BY DEF TagsInOrder
<1>2. /\ tags \in [1 .. MaxTag -> Commit] /\ DOMAIN tags = 1 .. MaxTag /\ c \in Nat /\ MaxTag \in Nat
      /\ 1 \in Int /\ c \in Int
  BY DEF TypeOK, ConstantsOK
<1>3. Cardinality(1 .. c) = c
  BY <1>2, FS_Interval
<1>4. NextVersion = c + 1
  <2>1. {u \in DOMAIN tags : tags[u].exists} = 1 .. c
    BY <1>1, <1>2
  <2>2. NextVersion = 1 + c
    BY <1>3, <2>1 DEF NextVersion
  <2> QED BY <1>2, <2>2
<1>5. c + 1 <= MaxTag => ~tags[c + 1].exists
  <2>1. c + 1 \notin 1 .. c
    BY <1>2
  <2>2. c + 1 <= MaxTag => c + 1 \in 1 .. MaxTag
    BY <1>2
  <2> QED BY <1>1, <2>1, <2>2
<1>6. ASSUME c + 1 <= MaxTag, heads[build].exists, tags' = [tags EXCEPT ![c + 1] = heads[build]]
      PROVE  TagsInOrder'
  <2>1. \A t \in 1 .. MaxTag : tags'[t].exists <=> (tags[t].exists \/ t = c + 1)
    BY <1>2, <1>6
  <2>2. c + 1 \in 0 .. MaxTag /\ c + 1 \in 1 .. MaxTag
    BY <1>2, <1>6
  <2>3. \A t \in 1 .. MaxTag : tags[t].exists <=> t \in 1 .. c
    BY <1>1
  <2>4. {t \in 1 .. MaxTag : tags'[t].exists} = 1 .. (c + 1)
    BY <1>2, <2>1, <2>2, <2>3
  <2> QED BY <2>2, <2>4 DEF TagsInOrder
<1> QED BY <1>2, <1>4, <1>5, <1>6

\* What is on the build branch is tagged, or was already.
LEMMA CreateFinalTagAccounted == Calm /\ Keeps /\ CreateFinalTag => Accounted'
<1> SUFFICES ASSUME Calm, Keeps, CreateFinalTag PROVE Accounted'
  OBVIOUS
<1> DEFINE t == TagOf(merge)
           x == WithTag(merge, t)
           on == heads[build].on
<1>1. /\ ConstantsOK /\ Inv /\ TypeOK /\ Accounted /\ ObjectsNext /\ TagsStay
      /\ UNCHANGED <<stored, want, at, nmr, past, heads>> /\ pc = "tag" /\ ~Fault
      /\ HeadsHold' /\ merge \in Status /\ Sound(merge, nmr, lastNMR, tags)
      /\ heads[build].exists /\ TagsInOrder
  BY NothingTouched DEF Calm, Keeps, CreateFinalTag, Inv, objects, Accounted, World
<1>2. /\ t <= MaxTag /\ Goto("finalMR", x)
      /\ \/ tags[t].exists /\ UNCHANGED tags
         \/ ~tags[t].exists /\ tags' = [tags EXCEPT ![t] = heads[build]]
  BY <1>1 DEF CreateFinalTag, Answered, WithTag
<1>3. CASE stored.phase = "gone"
  <2>1. TagsInOrder'
    BY <1>1, <1>3 DEF TagsInOrder
  <2> HIDE DEF x
  <2> QED BY <1>1, <1>2, <1>3, <2>1, AccountedGoesOn DEF Before
<1>4. ASSUME stored.phase # "gone" PROVE Accounted'
  <2>1. Account("tag", merge, want, at, nmr, past, on, tags)
    BY <1>1, <1>4 DEF Accounted, Current
  <2>2. t \in 1 .. MaxTag
    <3>1. merge.finalTag \in Nat /\ MaxTag \in Nat
      BY <1>1 DEF Status, ConstantsOK
    <3>2. t \in Nat /\ t # 0
      BY <1>1, <1>4, <3>1, NextVersionContinues DEF TagOf
    <3> HIDE DEF t
    <3> QED BY <1>2, <3>1, <3>2
  <2>3. \/ t = merge.finalTag /\ merge.finalTag # 0 /\ UNCHANGED tags
        \/ t = NextVersion /\ tags' = [tags EXCEPT ![t] = heads[build]]
    <3>1. CASE merge.finalTag # 0
      <4>1. t = merge.finalTag /\ tags[t].exists
        BY <1>1, <2>1, <3>1 DEF Account, TagOK, Sound, TagOf
      <4> QED BY <1>2, <3>1, <4>1
    <3>2. CASE merge.finalTag = 0
      <4>1. t = NextVersion
        BY <3>2 DEF TagOf
      <4>2. ~tags[t].exists
        BY <1>1, <1>2, <1>4, <4>1, NextVersionContinues
      <4> QED BY <1>2, <4>1, <4>2
    <3> QED BY <3>1, <3>2
  <2>4. /\ x.branches = merge.branches /\ x.finalTag = t /\ x.finalMR = merge.finalMR
        /\ x.resolveMR = merge.resolveMR /\ x.recreated = merge.recreated
    BY <1>1 DEF WithTag, Status
  <2> HIDE DEF t, x
  <2>5. Accounts(merge, tags'[t].on, past)
    <3>1. CASE t = merge.finalTag /\ merge.finalTag # 0 /\ UNCHANGED tags
      BY <2>1, <3>1 DEF Account, TagOK
    <3>2. CASE tags' = [tags EXCEPT ![t] = heads[build]]
      <4>1. tags'[t] = heads[build]
        BY <1>1, <2>2, <3>2 DEF TypeOK
      <4> QED BY <2>1, <4>1 DEF Account, TagOK
    <3> QED BY <2>3, <3>1, <3>2
  <2>6. "finalMR" \in Judged /\ "tag" \in Judged
    BY DEF Judged
  <2>7. BranchesOK("finalMR", x, at, nmr, past, on)
    BY <2>1, <2>4, <2>6 DEF Account, BranchesOK, Noticed
  <2>8. ResolutionOK("finalMR", x, nmr, on)
    BY <2>1, <2>4 DEF Account, ResolutionOK
  <2>9. TagOK("finalMR", x, want, past, on, tags')
    BY <2>4, <2>5 DEF TagOK, Accounts
  <2>10. Account("finalMR", x, want', at', nmr', past', heads'[build].on, tags')
    BY <1>1, <2>7, <2>8, <2>9 DEF Account
  <2>11. TagsInOrder'
    BY <1>1, <1>2, <1>4, <2>3, NothingTouched, NextVersionContinues
  <2> QED BY <1>1, <1>2, <2>10, <2>11, AccountedGoesOn DEF Before
<1> QED BY <1>3, <1>4

\* The object of the release is recorded with the tag it has.
LEMMA EnsureFinalMRAccounted == Calm /\ Keeps /\ EnsureFinalMR => Accounted'
<1> SUFFICES ASSUME Calm, Keeps, EnsureFinalMR PROVE Accounted'
  OBVIOUS
<1> DEFINE n == merge.finalMR
           auto == want.acceptFinalMR
<1>1. /\ ConstantsOK /\ Inv /\ TypeOK /\ Accounted /\ ObjectsNext /\ TagsStay
      /\ UNCHANGED <<stored, want, at, heads, tags, past>> /\ pc = "finalMR"
      /\ TagsInOrder' /\ HeadsHold' /\ faults = 0 /\ faults' = 0
      /\ merge \in Status /\ Sound(merge, nmr, lastNMR, tags) /\ tags[merge.finalTag].exists
  BY NothingTouched DEF Calm, Keeps, EnsureFinalMR, Inv, StepOK, gitlab, GetOrCreateNativeMR
<1>2. ~Loses(build, main, auto)
  BY <1>1 DEF Loses
<1>3. PICK r \in NMR : Obtains(n, build, main, auto, r) /\ Goto("setAuto", WithFinalMR(merge, r))
  BY <1>1, <1>2, EnsuredFinalMR
<1>4. n \in 0 .. lastNMR
  BY <1>1 DEF Sound, Refs
<1> HIDE DEF n, auto
<1>5. /\ \A i \in 1 .. lastNMR : nmr'[i] = nmr[i]
      /\ r # 0
  BY <1>1, <1>3, <1>4, ObtainedObject
<1> DEFINE x == WithFinalMR(merge, r)
<1>6. /\ x.branches = merge.branches /\ x.resolveMR = merge.resolveMR
      /\ x.recreated = merge.recreated /\ x.finalTag = merge.finalTag /\ x.finalMR = r
  BY <1>1 DEF WithFinalMR, Status
<1> HIDE DEF x
<1>7. ASSUME stored.phase # "gone"
      PROVE  Account("setAuto", x, want', at', nmr', past', heads'[build].on, tags')
  <2>1. Account("finalMR", merge, want, at, nmr, past, heads[build].on, tags)
    BY <1>1, <1>7 DEF Accounted, Current
  <2>2. Benign(Tracked(merge))
    BY <1>1, <1>5, NewIsBenign
  <2>3. Account("finalMR", merge, want, at, nmr', past', heads'[build].on, tags')
    BY <1>1, <2>1, <2>2, AccountStays
  <2>4. "finalMR" \in Judged /\ "setAuto" \in Judged
    BY DEF Judged
  <2> HIDE DEF Judged
  <2>5. BranchesOK("setAuto", x, at, nmr', past', heads'[build].on)
    BY <1>6, <2>3, <2>4 DEF Account, BranchesOK, Noticed
  <2>6. ResolutionOK("setAuto", x, nmr', heads'[build].on)
    BY <1>6, <2>3 DEF Account, ResolutionOK
  <2>7. TagOK("setAuto", x, want, past', heads'[build].on, tags')
    BY <1>5, <1>6, <2>3 DEF Account, TagOK, Accounts
  <2> QED BY <1>1, <2>5, <2>6, <2>7 DEF Account
<1>8. Goto("setAuto", x)
  BY <1>3 DEF x
<1> QED BY <1>1, <1>7, <1>8, AccountedGoesOn DEF Before

\* What is asked of the final merge request changes nothing that was accounted for.
LEMMA SetAutoAcceptAccounted == Calm /\ Keeps /\ SetAutoAccept => Accounted'
<1> SUFFICES ASSUME Calm, Keeps, SetAutoAccept PROVE Accounted'
  OBVIOUS
<1>1. /\ ConstantsOK /\ Inv /\ TypeOK /\ Accounted /\ ObjectsNext /\ TagsStay
      /\ UNCHANGED <<stored, want, at, heads, tags, past>> /\ pc = "setAuto" /\ ~Fault
      /\ TagsInOrder' /\ HeadsHold'
      /\ merge \in Status /\ Sound(merge, nmr, lastNMR, tags) /\ merge.finalMR # 0
  BY NothingTouched DEF Calm, Keeps, SetAutoAccept, Inv, StepOK, gitlab
<1>2. /\ nmr' = [nmr EXCEPT ![merge.finalMR].autoAccept = want.acceptFinalMR]
      /\ Return(Merged(merge))
  BY <1>1 DEF SetAutoAccept
<1> DEFINE x == Merged(merge)
<1>3. x \in Status /\ Lesser(merge, x) /\ Alike(merge, x)
  BY <1>1, StatusType, LesserCopies, AlikeCopies
<1>4. Sound(x, nmr, lastNMR, tags)
  BY <1>1, <1>3, SoundAlike
<1>5. Benign(Tracked(x))
  <2>1. merge.finalMR \notin Tracked(x)
    BY <1>1, <1>3, FinalIsAnother DEF Alike
  <2>2. Tracked(x) \in SUBSET NMR /\ merge.finalMR \in 0 .. MaxNMR
    BY <1>1, <1>3, <1>4, TrackedObjects DEF Status
  <2> HIDE DEF x
  <2>3. \A i \in NMR \ {merge.finalMR} : nmr'[i] = nmr[i]
    BY <1>1, <1>2 DEF TypeOK
  <2> QED BY <1>1, <2>1, <2>2, <2>3, OthersChange
<1>6. Return(x) /\ pc \notin {"idle", "dropMRs", "finalMR"}
  BY <1>1, <1>2
<1> HIDE DEF x
<1> QED BY <1>1, <1>3, <1>4, <1>5, <1>6, AccountedReturns

\* Conditions account for nothing.
LEMMA PatchConditionsAccounted == Calm /\ Keeps /\ PatchConditions => Accounted'
<1> SUFFICES ASSUME Calm, Keeps, PatchConditions PROVE Accounted'
  OBVIOUS
<1>1. /\ ConstantsOK /\ Inv /\ TypeOK /\ Accounted /\ ObjectsNext /\ TagsStay
      /\ UNCHANGED <<merge, want, at, nmr, past, heads, tags>> /\ pc = "conditions"
      /\ pc' = "object" /\ HeadsHold' /\ stored \in Status
  BY NothingTouched DEF Calm, Keeps, PatchConditions, Inv, TypeOK, gitlab, objects
<1>2. /\ stored'.phase = stored.phase /\ stored'.branches = stored.branches
      /\ stored'.finalTag = stored.finalTag /\ stored'.finalMR = stored.finalMR
  <2> DEFINE c == [merge.conditions EXCEPT !.ready = Summary(merge)]
  <2>1. stored' = stored \/ stored' = [stored EXCEPT !.conditions = c]
    BY DEF PatchConditions
  <2> HIDE DEF c
  <2> QED BY <1>1, <2>1 DEF Status
<1>3. World' /\ AtFirst'
  <2>1. TagsInOrder'
    BY <1>1, <1>2 DEF Accounted, World, TagsInOrder
  <2> QED BY <1>1, <2>1, WorldGoesOn DEF Accounted, AtFirst
<1>4. Account("conditions", merge, want, at, nmr, past, heads[build].on, tags)
        => Account("object", merge, want, at, nmr, past, heads[build].on, tags)
  <2>1. Lesser(merge, merge) /\ "object" \notin Judged
    BY <1>1, LesserCopies DEF Judged, Resolving, Inv, TypeOK
  <2> QED BY <2>1, AccountGoesOn
<1>5. stored'.phase # "gone" =>
        Account(pc', Current', want', at', nmr', past', heads'[build].on, tags')
  BY <1>1, <1>2, <1>4 DEF Accounted, Current
<1>6. stored'.finalTag # 0 =>
        stored'.finalMR # 0 /\ Accounts(stored', tags'[stored'.finalTag].on, past')
  BY <1>1, <1>2 DEF Accounted, Accounts
<1> QED BY <1>3, <1>5, <1>6 DEF Accounted

\* The copy is stored: what it says becomes what the object says.
LEMMA PatchObjectAccounted == Calm /\ Keeps /\ PatchObject => Accounted'
<1> SUFFICES ASSUME Calm, Keeps, PatchObject PROVE Accounted'
  OBVIOUS
<1>1. /\ ConstantsOK /\ Inv /\ TypeOK /\ Accounted /\ ObjectsNext /\ TagsStay
      /\ UNCHANGED <<nmr, past, heads, tags>> /\ pc = "object" /\ pc' = "idle"
      /\ HeadsHold' /\ stored \in Status /\ merge \in Status /\ ~Fault
  BY NothingTouched DEF Calm, Keeps, PatchObject, Done, Inv, TypeOK, gitlab, objects
<1>2. AtFirst' /\ Current' = stored'
  BY <1>1 DEF AtFirst, Current
<1>3. CASE ~Stored /\ stored' = stored
  <2>1. stored.phase = "gone"
    BY <1>1, <1>3 DEF Stored, Status
  <2>2. TagsInOrder'
    BY <1>3, <2>1 DEF TagsInOrder
  <2>3. World'
    BY <1>1, <2>2, WorldGoesOn DEF Accounted
  <2> QED BY <1>1, <1>2, <1>3, <2>1, <2>3 DEF Accounted
<1>4. CASE Stored /\ stored' = Patched(stored, merge)
  <2>1. stored.phase # "gone"
    BY <1>4 DEF Stored
  <2>2. Account("object", merge, want, at, nmr, past, heads[build].on, tags)
    BY <1>1, <2>1 DEF Accounted, Current
  <2>3. Lesser(merge, stored') /\ stored' \in Status
    BY <1>1, <1>4, LesserCopies, StatusType
  <2>4. Account("idle", stored', want', at', nmr', past', heads'[build].on, tags')
    <3>1. "idle" \notin Judged
      BY DEF Judged, Resolving
    <3>2. Account("idle", stored', want', at', nmr, past, heads[build].on, tags)
      BY <2>2, <2>3, <3>1, AccountGoesOn
    <3> QED BY <1>1, <3>2
  <2>5. World'
    <3>1. TagsInOrder'
      BY <1>1, <2>1 DEF Accounted, World, TagsInOrder
    <3> QED BY <1>1, <3>1, WorldGoesOn DEF Accounted
  <2>6. stored'.finalTag # 0 =>
          stored'.finalMR # 0 /\ Accounts(stored', tags'[stored'.finalTag].on, past')
    BY <2>4 DEF Account, TagOK
  <2> QED BY <1>1, <1>2, <2>4, <2>5, <2>6 DEF Accounted
<1> QED BY <1>1, <1>3, <1>4 DEF PatchObject
-----------------------------------------------------------------------------
(* Everybody but the worker.                                               *)

\* What may be merged brings its branch, or all branches of a resolution.
LEMMA MergeableContent ==
  ASSUME ConstantsOK, TypeOK, HeadsHold, NEW n \in NMR, Mergeable(n)
  PROVE  Content(nmr[n].source) \subseteq heads[nmr[n].source].on
<1> DEFINE b == nmr[n].source
<1>1. /\ b \in Name \cup {build, main} \cup (Lists \ {<<>>}) /\ heads[b].exists
      /\ b \in Lists => heads[b].on # {}
  BY DEF Mergeable, TypeOK, Object, Branch
<1> HIDE DEF b
<1>2. b \in Name => Content(b) \subseteq heads[b].on
  BY <1>1 DEF HeadsHold, Content
<1>3. b \in Lists \ {<<>>} => Content(b) \subseteq heads[b].on
  BY <1>1, Heads DEF HeadsHold, Content
<1>4. b \in {build, main} => Content(b) \subseteq heads[b].on
  BY Heads DEF Content
<1> QED BY <1>1, <1>2, <1>3, <1>4 DEF b

\* What is merged is put on the build branch, or released.
LEMMA MergedHeadsHold ==
  ASSUME ConstantsOK, TypeOK, HeadsHold, NEW n \in NMR, Mergeable(n), heads' = MergedInto(n)
  PROVE  /\ HeadsHold' /\ heads[build].on \subseteq heads'[build].on
         /\ nmr[n].target = build => Content(nmr[n].source) \subseteq heads'[build].on
<1> DEFINE s == heads[nmr[n].source]
<1>1. nmr[n].target \in {build, main}
  BY DEF TypeOK, Object
<1>2. Content(nmr[n].source) \subseteq s.on
  BY MergeableContent
<1> HIDE DEF s
<1>3. ASSUME NEW t \in {build, main}, NEW c, heads' = [heads EXCEPT ![t] = c]
      PROVE  /\ heads'[t] = c /\ \A b \in Branch : b # t => heads'[b] = heads[b]
             /\ \A b \in Name : heads'[b] = heads[b]
             /\ \A l \in Lists \ {<<>>} : heads'[l] = heads[l]
  BY <1>3, Heads
<1>4. CASE nmr[n].target = main
  <2> DEFINE c == HeadAt(heads[main].rev + 1, {})
  <2>1. heads' = [heads EXCEPT ![main] = c] /\ c.on = {}
    BY <1>4 DEF MergedInto, HeadAt
  <2> HIDE DEF c
  <2>2. heads'[main] = c /\ heads'[build] = heads[build]
    BY <1>3, <2>1, Heads
  <2>3. HeadsHold'
    BY <1>3, <2>1, <2>2 DEF HeadsHold
  <2> QED BY <1>4, <2>2, <2>3, Heads
<1>5. CASE nmr[n].target = build
  <2> DEFINE c == HeadAt(heads[build].rev, heads[build].on \cup s.on)
  <2>1. /\ heads' = [heads EXCEPT ![build] = c] /\ c.exists
        /\ c.on = heads[build].on \cup s.on
    BY <1>5, Heads DEF MergedInto, HeadAt, s
  <2> HIDE DEF c
  <2>2. heads'[build] = c /\ heads'[main] = heads[main]
    BY <1>3, <2>1, Heads
  <2>3. HeadsHold'
    BY <1>3, <2>1, <2>2 DEF HeadsHold
  <2> QED BY <1>2, <2>1, <2>2, <2>3
<1> QED BY <1>1, <1>4, <1>5

\* What users push or remove.
LEMMA UsersHeadsHold ==
  ASSUME ConstantsOK, TypeOK, HeadsHold
  PROVE  /\ \A b \in Name : RemoveBranch(b) => HeadsHold' /\ heads'[build] = heads[build]
         /\ \A b \in Name : UserPushes(b) => HeadsHold' /\ heads'[build] = heads[build]
         /\ \A l \in Lists \ {<<>>} :
              PushResolution(l) => HeadsHold' /\ heads'[build] = heads[build]
<1>1. ASSUME NEW b \in Name, NEW c, heads' = [heads EXCEPT ![b] = c], c.exists => b \in c.on
      PROVE  HeadsHold' /\ heads'[build] = heads[build]
  <2>1. /\ heads'[build] = heads[build] /\ heads'[main] = heads[main]
        /\ \A a \in Name : heads'[a] = IF a = b THEN c ELSE heads[a]
        /\ \A l \in Lists \ {<<>>} : heads'[l] = heads[l]
    BY <1>1, Heads
  <2> QED BY <1>1, <2>1 DEF HeadsHold
<1>2. \A b \in Name : RemoveBranch(b) => HeadsHold' /\ heads'[build] = heads[build]
  <2>1. ~Absent.exists
    BY DEF Absent
  <2> QED BY <1>1, <2>1 DEF RemoveBranch
<1>3. \A b \in Name : UserPushes(b) => HeadsHold' /\ heads'[build] = heads[build]
  <2>1. \A b \in Name : b \in HeadAt(0, {b}).on
    BY DEF HeadAt
  <2> QED BY <1>1, <2>1 DEF UserPushes
<1>4. ASSUME NEW l \in Lists \ {<<>>}, PushResolution(l)
      PROVE  HeadsHold' /\ heads'[build] = heads[build]
  <2>1. heads' = [heads EXCEPT ![l].on = Listed(l)]
    BY <1>4 DEF PushResolution
  <2>2. /\ heads'[build] = heads[build] /\ heads'[main] = heads[main]
        /\ \A a \in Name : heads'[a] = heads[a]
        /\ \A k \in Lists \ {<<>>} : k # l => heads'[k] = heads[k]
    BY <2>1, Heads
  <2>3. heads'[l].on = Listed(l)
    <3>1. heads[l] \in Commit
      BY Heads
    <3> QED BY <2>1, <3>1, Heads DEF Commit
  <2> QED BY <2>2, <2>3 DEF HeadsHold
<1> QED BY <1>2, <1>3, <1>4
\* The controller of an object reports what had happened already.
LEMMA ReportIsBenign ==
  ASSUME ConstantsOK, TypeOK, UNCHANGED <<heads, past>>, NEW n \in NMR, NEW x,
         nmr' = [nmr EXCEPT ![n] = x], nmr[n].phase = "live" => x.phase = "live",
         x.mr = "accepted" \/ x.ready => nmr[n].mr = "accepted" \/ nmr[n].ready
  PROVE  \A R \in SUBSET NMR : Benign(R)
<1>1. \A i \in NMR : nmr'[i] = IF i = n THEN x ELSE nmr[i]
  BY DEF TypeOK
<1> QED BY <1>1 DEF Benign

\* The merge request of an object ends: what it merges is on its target.
LEMMA EndIsBenign ==
  ASSUME ConstantsOK, TypeOK, NEW n \in NMR, NEW mr, NEW c, End({n}, mr, c),
         mr = "accepted" => c = "merged", heads[build].on \subseteq heads'[build].on,
         nmr[n].target = build /\ c = "merged" =>
           Content(nmr[n].source) \subseteq heads'[build].on
  PROVE  \A R \in SUBSET NMR : Benign(R)
<1>1. /\ \A i \in NMR \ {n} : nmr'[i] = nmr[i] /\ past'[i] = past[i]
      /\ nmr'[n] = [nmr[n] EXCEPT !.mr = mr] /\ past'[n] = past[n] \cup {c}
  BY DEF End
<1>2. nmr'[n].phase = nmr[n].phase /\ nmr'[n].ready = nmr[n].ready /\ nmr'[n].mr = mr
  BY <1>1 DEF TypeOK, Object
<1>3. /\ nmr[n].phase = "live" => nmr'[n].phase = "live"
      /\ nmr[n].target = build =>
           /\ "merged" \in past'[n] =>
                "merged" \in past[n] \/ Content(nmr[n].source) \subseteq heads'[build].on
           /\ nmr'[n].mr = "accepted" \/ nmr'[n].ready =>
                \/ nmr[n].mr = "accepted" \/ nmr[n].ready
                \/ Content(nmr[n].source) \subseteq heads'[build].on
  BY <1>1, <1>2
<1>4. \A i \in NMR \ {n} :
        /\ nmr[i].phase = "live" => nmr'[i].phase = "live"
        /\ "merged" \in past'[i] => "merged" \in past[i]
        /\ nmr'[i].mr = "accepted" \/ nmr'[i].ready => nmr[i].mr = "accepted" \/ nmr[i].ready
  BY <1>1
<1> QED BY <1>3, <1>4 DEF Benign

\* What others do is benign, as long as the object is there.
OthersAreBenign ==
  /\ HeadsHold'
  /\ stored.phase # "gone" => \A R \in SUBSET NMR : Benign(R)

\* What is merged into the build branch is on it.
LEMMA MergingIsBenign ==
  ASSUME Calm, NEW n \in NMR, Mergeable(n), heads' = MergedInto(n),
         NEW mr, End({n}, mr, "merged")
  PROVE  OthersAreBenign
<1>1. ConstantsOK /\ TypeOK /\ HeadsHold
  BY DEF Calm, Inv, Accounted, World
<1>2. /\ HeadsHold' /\ heads[build].on \subseteq heads'[build].on
      /\ nmr[n].target = build => Content(nmr[n].source) \subseteq heads'[build].on
  BY <1>1, MergedHeadsHold
<1>3. \A R \in SUBSET NMR : Benign(R)
  BY <1>1, <1>2, EndIsBenign
<1> QED BY <1>2, <1>3 DEF OthersAreBenign

\* The NativeMergeRequest controller, without failures.
LEMMA ControllerIsBenign ==
  ASSUME Calm, NEW n \in NMR, Settling(n) \/ Reports(n) \/ Failing(n) \/ CollectGarbage(n)
  PROVE  OthersAreBenign
<1>1. /\ ConstantsOK /\ TypeOK /\ HeadsHold /\ ~Fault /\ nmr[n] \in Object
      /\ UNCHANGED heads => HeadsHold'
  BY NothingTouched DEF Calm, Inv, Accounted, World, TypeOK
<1>2. CASE Accept(n)
  <2>1. Mergeable(n) /\ heads' = MergedInto(n)
    BY <1>2 DEF Accept
  <2>2. End({n}, "accepted", "merged")
    BY <1>1, <1>2 DEF Accept
  <2> QED BY <2>1, <2>2, MergingIsBenign
<1>3. CASE FindConflict(n)
  <2>1. End({n}, "removed", "removed") /\ UNCHANGED heads
    BY <1>3 DEF FindConflict, gitlab
  <2>2. \A R \in SUBSET NMR : Benign(R)
    BY <1>1, <2>1, EndIsBenign
  <2> QED BY <1>1, <2>1, <2>2 DEF OthersAreBenign
<1>4. ASSUME UNCHANGED <<heads, past>>, NEW x, nmr' = [nmr EXCEPT ![n] = x],
             nmr[n].phase = "live" => x.phase = "live",
             x.mr = "accepted" \/ x.ready => nmr[n].mr = "accepted" \/ nmr[n].ready
      PROVE  OthersAreBenign
  BY <1>1, <1>4, ReportIsBenign DEF OthersAreBenign
<1>5. CASE ReportReady(n)
  <2> DEFINE x == [nmr[n] EXCEPT !.ready = TRUE, !.mr = "settled"]
  <2>1. /\ UNCHANGED <<heads, past>> /\ nmr' = [nmr EXCEPT ![n] = x] /\ nmr[n].mr = "accepted"
        /\ x.phase = nmr[n].phase
    BY <1>1, <1>5 DEF ReportReady, gitlab, TypeOK, Object
  <2> HIDE DEF x
  <2> QED BY <1>4, <2>1
<1>6. CASE ReportProcessed(n) \/ Retract(n)
  <2>1. PICK v \in BOOLEAN : nmr' = [nmr EXCEPT ![n].processed = v]
    BY <1>6 DEF ReportProcessed, Retract
  <2> DEFINE x == [nmr[n] EXCEPT !.processed = v]
  <2>2. /\ UNCHANGED <<heads, past>> /\ nmr' = [nmr EXCEPT ![n] = x] /\ x.mr = nmr[n].mr
        /\ x.phase = nmr[n].phase /\ x.ready = nmr[n].ready
    BY <1>1, <1>6, <2>1 DEF ReportProcessed, Retract, gitlab, TypeOK, Object
  <2> HIDE DEF x
  <2> QED BY <1>4, <2>2
<1>7. CASE ReportConflict(n)
  <2> DEFINE x == [nmr[n] EXCEPT !.hasConflict = TRUE, !.deleted = TRUE]
  <2>1. /\ UNCHANGED <<heads, past>> /\ nmr' = [nmr EXCEPT ![n] = x] /\ x.mr = nmr[n].mr
        /\ x.phase = nmr[n].phase /\ x.ready = nmr[n].ready
    BY <1>1, <1>7 DEF ReportConflict, gitlab, TypeOK, Object
  <2> HIDE DEF x
  <2> QED BY <1>4, <2>1
<1>8. CASE Vanish(n)
  <2> DEFINE x == [nmr[n] EXCEPT !.phase = "gone"]
  <2>1. /\ UNCHANGED <<heads, past>> /\ nmr' = [nmr EXCEPT ![n] = x] /\ x.mr = nmr[n].mr
        /\ nmr[n].phase = "deleting" /\ x.ready = nmr[n].ready
    BY <1>1, <1>8 DEF Vanish, gitlab, TypeOK, Object
  <2> HIDE DEF x
  <2> QED BY <1>4, <2>1
<1>9. CASE CollectGarbage(n)
  BY <1>1, <1>9 DEF CollectGarbage, gitlab, OthersAreBenign
<1>10. ~FailToRemove(n) /\ ~Reopen(n)
  BY <1>1 DEF FailToRemove, Reopen
<1> QED BY <1>2, <1>3, <1>5, <1>6, <1>7, <1>8, <1>9, <1>10 DEF Settling, Reports, Failing

\* The users, who only take away what is closed thereby.
LEMMA UsersAreBenign ==
  ASSUME Calm, Users
  PROVE  OthersAreBenign
<1>1. /\ ConstantsOK /\ TypeOK /\ HeadsHold /\ (UNCHANGED heads => HeadsHold')
      /\ UNCHANGED <<objects, heads>> => \A R : Benign(R)
  BY NothingTouched DEF Calm, Inv, Accounted, World
<1>2. ASSUME UNCHANGED objects, HeadsHold', heads'[build] = heads[build] PROVE OthersAreBenign
  <2>1. nmr' = nmr /\ past' = past
    BY <1>2 DEF objects
  <2>2. \A R : Benign(R)
    BY <1>2, <2>1 DEF Benign
  <2> QED BY <1>2, <2>2 DEF OthersAreBenign
<1>3. CASE DeleteMerge \/ \E s \in Specs : ChangeSpec(s)
  <2>1. UNCHANGED <<objects, heads>>
    BY <1>3 DEF DeleteMerge, ChangeSpec, gitlab
  <2> QED BY <1>1, <2>1 DEF OthersAreBenign
<1>4. ASSUME NEW n \in NMR, UserMerges(n) PROVE OthersAreBenign
  <2>1. Mergeable(n) /\ heads' = MergedInto(n) /\ End({n}, "settled", "merged")
    BY <1>4 DEF UserMerges
  <2> QED BY <2>1, MergingIsBenign
<1>5. ASSUME NEW n \in NMR, UserCloses(n) PROVE OthersAreBenign
  <2>1. End({n}, "settled", "closed") /\ UNCHANGED heads
    BY <1>5 DEF UserCloses, gitlab
  <2>2. \A R \in SUBSET NMR : Benign(R)
    BY <1>1, <2>1, EndIsBenign
  <2> QED BY <1>1, <2>1, <2>2 DEF OthersAreBenign
<1>6. ASSUME NEW b \in Name, UserRemovesBranch(b) PROVE OthersAreBenign
  <2>1. RemoveBranch(b)
    BY <1>6 DEF UserRemovesBranch
  <2>2. HeadsHold' /\ heads'[build] = heads[build]
    BY <1>1, <2>1, UsersHeadsHold
  <2> QED BY <1>1, <2>1, <2>2, RemovalIsBenign DEF OthersAreBenign
<1>7. ASSUME NEW b \in Name, UserPushes(b) PROVE OthersAreBenign
  <2>1. HeadsHold' /\ heads'[build] = heads[build] /\ UNCHANGED objects
    BY <1>1, <1>7, UsersHeadsHold DEF UserPushes
  <2> QED BY <1>2, <2>1
<1>8. ASSUME NEW l \in Lists \ {<<>>}, PushResolution(l) PROVE OthersAreBenign
  <2>1. HeadsHold' /\ heads'[build] = heads[build] /\ UNCHANGED objects
    BY <1>1, <1>8, UsersHeadsHold DEF PushResolution
  <2> QED BY <1>2, <2>1
<1> QED BY <1>3, <1>4, <1>5, <1>6, <1>7, <1>8 DEF Users
\* They only change the phase of the object, which does not come back.
LEMMA OthersLeaveStored ==
  ASSUME ConstantsOK, TypeOK, Others
  PROVE  /\ stored' = stored \/ \E p \in {"deleting", "gone"} : stored' = [stored EXCEPT !.phase = p]
         /\ stored'.phase # "gone" => stored.phase # "gone"
<1>1. stored' = stored \/ \E p \in {"deleting", "gone"} : stored' = [stored EXCEPT !.phase = p]
  BY OthersFrame DEF OthersLeave
<1>2. stored' = stored \/ DeleteMerge
  <2>1. ASSUME NEW n \in NMR, Settling(n) \/ Reports(n) PROVE stored' = stored
    BY <2>1 DEF Settling, Accept, FindConflict, Reports, ReportReady, ReportProcessed,
                ReportConflict, Vanish
  <2>2. ASSUME NEW n \in NMR, Failing(n) \/ CollectGarbage(n) PROVE stored' = stored
    BY <2>2 DEF Failing, FailToRemove, Reopen, Retract, CollectGarbage
  <2>3. ASSUME Users PROVE stored' = stored \/ DeleteMerge
    BY <2>3 DEF Users, ChangeSpec, UserMerges, UserCloses, UserRemovesBranch, UserPushes,
                PushResolution
  <2> QED BY <2>1, <2>2, <2>3 DEF Others
<1>3. DeleteMerge => stored.phase = "live"
  BY DEF DeleteMerge
<1> QED BY <1>1, <1>2, <1>3

\* What others do is accounted for.
LEMMA OthersAccounted == Calm /\ Others => Accounted'
<1> SUFFICES ASSUME Calm, Others PROVE Accounted'
  OBVIOUS
<1>1. /\ ConstantsOK /\ Inv /\ Accounted /\ TypeOK /\ ObjectsNext /\ OthersLeave
      /\ OthersAreBenign
  BY OthersObjects, OthersFrame, ControllerIsBenign, UsersAreBenign DEF Calm, Inv, Others
<1>2. /\ UNCHANGED <<pc, merge, want, at, tags>> /\ TagsStay
      /\ stored \in Status /\ merge \in Status
  BY <1>1, NothingShared DEF OthersLeave, worker, TypeOK
<1>3. /\ stored'.phase # "gone" => stored.phase # "gone"
      /\ Lesser(stored, stored') /\ stored'.finalTag = stored.finalTag
      /\ stored'.finalMR = stored.finalMR /\ stored'.branches = stored.branches
  <2>1. \A p : [stored EXCEPT !.phase = p].finalTag = stored.finalTag
               /\ [stored EXCEPT !.phase = p].finalMR = stored.finalMR
               /\ [stored EXCEPT !.phase = p].branches = stored.branches
    BY <1>2 DEF Status
  <2>2. \A p : Lesser(stored, [stored EXCEPT !.phase = p])
    BY <1>1, <1>2, LesserCopies
  <2>3. Lesser(stored, stored)
    BY <1>1, <1>2, LesserCopies
  <2>4. /\ stored' = stored \/ \E p \in {"deleting", "gone"} : stored' = [stored EXCEPT !.phase = p]
        /\ stored'.phase # "gone" => stored.phase # "gone"
    BY <1>1, OthersLeaveStored
  <2>5. CASE stored' = stored
    BY <2>3, <2>5
  <2>6. CASE \E p \in {"deleting", "gone"} : stored' = [stored EXCEPT !.phase = p]
    <3>1. PICK p \in {"deleting", "gone"} : stored' = [stored EXCEPT !.phase = p]
      BY <2>6
    <3> QED BY <2>1, <2>2, <2>4, <3>1
  <2> QED BY <2>4, <2>5, <2>6
<1>4. World'
  <2>1. TagsInOrder'
    BY <1>1, <1>2, <1>3 DEF Accounted, World, TagsInOrder
  <2> QED BY <1>1, <2>1, WorldGoesOn DEF Accounted, OthersAreBenign
<1>5. AtFirst'
  BY <1>1, <1>2 DEF Accounted, AtFirst
<1>6. stored'.finalTag # 0 =>
        stored'.finalMR # 0 /\ Accounts(stored', tags'[stored'.finalTag].on, past')
  BY <1>1, <1>2, <1>3, StoredAccount DEF Accounts
<1>7. ASSUME stored'.phase # "gone"
      PROVE  Account(pc, Current', want, at, nmr', past', heads'[build].on, tags')
  <2>1. /\ Account(pc, Current, want, at, nmr, past, heads[build].on, tags)
        /\ \A R \in SUBSET NMR : Benign(R)
    BY <1>1, <1>3, <1>7 DEF Accounted, OthersAreBenign
  <2>2. Current \in Status /\ Sound(Current, nmr, lastNMR, tags)
    BY <1>1, <1>2 DEF Current, Inv
  <2>3. Current.finalTag # 0 => tags[Current.finalTag].exists
    <3>1. CASE pc = "finalMR"
      BY <1>1, <3>1 DEF Inv, StepOK, Current
    <3>2. CASE pc # "finalMR"
      BY <2>1, <2>2, <3>2 DEF Account, TagOK, Sound
    <3> QED BY <3>1, <3>2
  <2>4. Benign(Tracked(Current))
    BY <1>1, <2>1, <2>2, TrackedObjects
  <2>5. Account(pc, Current, want, at, nmr', past', heads'[build].on, tags')
    BY <1>1, <1>2, <2>1, <2>2, <2>3, <2>4, AccountStays
  <2>6. CASE pc = "idle"
    <3>1. Account("idle", stored, want, at, nmr', past', heads'[build].on, tags')
      BY <2>5, <2>6 DEF Current
    <3>2. "idle" \notin Judged /\ "idle" \notin {"dropMRs", "finalMR", "dropBuild", "branches", "nmrs"}
      BY DEF Judged, Resolving
    <3>3. Account("idle", stored', want, at, nmr', past', heads'[build].on, tags')
      BY <1>3, <3>1, <3>2, AccountGoesOn
    <3> QED BY <1>2, <2>6, <3>3 DEF Current
  <2>7. CASE pc # "idle"
    BY <1>2, <2>5, <2>7 DEF Current
  <2> QED BY <2>6, <2>7
<1> QED BY <1>2, <1>4, <1>5, <1>6, <1>7 DEF Accounted

-----------------------------------------------------------------------------
(* The invariant.                                                          *)

\* A step of the reconcile that does not fail.
LEMMA StepAccounted == Calm /\ Step => Accounted'
<1> SUFFICES ASSUME Calm, Step PROVE Accounted'
  OBVIOUS
<1>1. Keeps
  BY StepKeeps DEF Calm
<1> QED BY <1>1, DropResolveBranchAccounted, DropResolveMRAccounted, DropFinalMRAccounted,
           DropBuildAccounted, DropBranchMRsAccounted, AddBranchesToStatusAccounted,
           GetOrCreateBuildBranchAccounted, EnsureBranchMRAccounted, JudgeAccounted,
           RecreateBuildAccounted, CreateBuildAccounted, GetOrCreateResolveBranchAccounted,
           EnsureResolveMRAccounted, CompareWithMainAccounted, CreateFinalTagAccounted,
           EnsureFinalMRAccounted, SetAutoAcceptAccounted, PatchConditionsAccounted,
           PatchObjectAccounted
   DEF Step

\* At first nothing is merged or tagged.
LEMMA AccountInit == ConstantsOK /\ Init => AInv
<1> SUFFICES ASSUME ConstantsOK, Init PROVE Accounted
  BY DEF AInv
<1>1. /\ pc = "idle" /\ stored = NewStatus /\ stored.branches = <<>> /\ stored.finalTag = 0
      /\ stored.resolveMR = 0
      /\ \A n \in NMR : ~nmr[n].processed
  BY DEF Init, NewStatus, NoNMR
<1>2. HeadsHold
  <2>1. /\ main \in Branch /\ build \in Branch /\ Name \subseteq Branch /\ Lists \ {<<>>} \subseteq Branch
        /\ build # main /\ build \notin Name /\ main \notin Name
        /\ \A l \in Lists : l \notin Name /\ l # main
    BY DEF Branch, ConstantsOK
  <2>2. /\ heads[main] = HeadAt(0, {}) /\ heads[build] = Absent
        /\ \A b \in Name : heads[b] = HeadAt(0, {b})
        /\ \A l \in Lists \ {<<>>} : heads[l] = Absent
    BY <2>1 DEF Init
  <2>3. HeadAt(0, {}).on = {} /\ Absent.on = {} /\ \A b \in Name : HeadAt(0, {b}).on = {b}
    BY DEF HeadAt, Absent
  <2> QED BY <2>2, <2>3 DEF HeadsHold
<1>3. TagsInOrder
  <2>1. {t \in 1 .. MaxTag : tags[t].exists} = {}
    BY DEF Init, Absent
  <2>2. MaxTag \in Nat /\ 1 .. 0 = {}
    BY DEF ConstantsOK
  <2>3. 0 \in 0 .. MaxTag
    BY <2>2
  <2> QED BY <2>1, <2>2, <2>3 DEF TagsInOrder
<1>4. Account("idle", stored, want, at, nmr, past, heads[build].on, tags)
  <2>1. DOMAIN stored.branches = {}
    BY <1>1
  <2> QED BY <1>1, <2>1 DEF Account, BranchesOK, ResolutionOK, TagOK
<1> QED BY <1>1, <1>2, <1>3, <1>4 DEF Accounted, World, AtFirst, Current

\* A step without a failure comes from a state without failures.
LEMMA AccountNext == ConstantsOK /\ Inv /\ AInv /\ [Next]_vars => AInv'
<1> SUFFICES ASSUME ConstantsOK, Inv, AInv, [Next]_vars, faults' = 0 PROVE Accounted'
  BY DEF AInv
<1>1. CASE Next
  <2>1. faults' >= faults
    BY <1>1, ReconcileKeeps, StepKeeps, CrashKeeps, OthersFrame
       DEF Next, Others, Keeps, OthersLeave, Inv
  <2>2. faults = 0
    BY <2>1 DEF Inv, TypeOK, ConstantsOK
  <2>3. Calm
    BY <2>2 DEF Calm, AInv
  <2>4. ~Crash
    BY <2>2, <2>3, NothingTouched DEF Calm, Crash
  <2> QED BY <1>1, <2>3, <2>4, ReconcileAccounted, StepAccounted, OthersAccounted DEF Next, Others
<1>2. CASE UNCHANGED vars
  <2>1. Accounted
    BY <1>2 DEF AInv, vars, bounds
  <2> QED BY <1>2, <2>1 DEF vars, objects, gitlab, worker, bounds, Accounted, World, HeadsHold,
        TagsInOrder, AtFirst, Current
<1> QED BY <1>1, <1>2

\* The invariant of runs without failures.
THEOREM AccountInvariance == Spec => [](Inv /\ AInv)
<1>1. Init => Inv /\ AInv
  BY ConstantsOK, InvInit, AccountInit
<1>2. Inv /\ AInv /\ [Next]_vars => Inv' /\ AInv'
  BY ConstantsOK, InvNext, AccountNext
<1> QED BY <1>1, <1>2, PTL DEF Spec

\* In a run without failures the tag of a release has every branch of its Merge
\* object but those whose merge request conflicted or was closed: the build
\* branch that is started over for a resolution is not tagged before it has
\* again what was taken off it.
THEOREM TagsAccount == Spec => []TagAccountsForBranches
<1>1. Inv /\ AInv => TagAccountsForBranches
  <2> SUFFICES ASSUME Inv, AInv, faults = 0, stored.finalMR # 0, NEW k \in DOMAIN stored.branches
               PROVE  \/ stored.branches[k].name \in tags[stored.finalTag].on
                      \/ past[stored.branches[k].nmr] \cap {"removed", "closed"} # {}
    BY DEF TagAccountsForBranches
  <2>1. stored.finalTag # 0
    BY DEF Inv, Sound
  <2> QED BY <2>1 DEF AInv, Accounted, Accounts, Excused
<1> QED BY <1>1, AccountInvariance, PTL

==============================================================================
