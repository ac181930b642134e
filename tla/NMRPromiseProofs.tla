--------------------------- MODULE NMRPromiseProofs ---------------------------
(***************************************************************************)
(* That the NativeMergeRequest controller keeps the promise the Merge      *)
(* controller builds on, and how many merge requests it opens and loses    *)
(* track of.                                                               *)
(***************************************************************************)
EXTENDS NativeMergeRequestProofs, FiniteSetTheorems

-----------------------------------------------------------------------------
(* The inductive invariant, beside IInv.                                   *)

\* A merge request of the object n was removed.
RemovedOne(n, m) == \E i \in IID : m[i].state # "none" /\ m[i].nmr = n /\ m[i].removed

\* The stored object o, of the name n: a conflict is told before its merge
\* request counts as removed, and nothing is opened before the finalizer is
\* stored.
StoredSays(o, n, m) ==
  /\ o.deleted => o.hasConflict /\ RemovedOne(n, m)
  /\ o.phase = "none" =>
       o = NoObject /\ \A i \in IID : m[i].state # "none" => m[i].nmr # n
  /\ o.phase = "live" /\ ~o.finalizer => o.iid = 0
  /\ o.phase = "deleting" => o.finalizer

\* The steps of a reconcile that may open a merge request, or have opened it.
Opening == {"branch", "mr", "accept", "remove"}

\* The steps of reconcileDelete.
Closing == {"getMR", "removeClosing"}

\* The copy o of the object s, of the name n, at the step p: it takes back
\* nothing that is stored, and forgets no merge request that is still open.
CopySays(p, o, s, n, m) ==
  /\ s.phase # "none"
  /\ s.hasConflict => o.hasConflict
  /\ s.deleted => o.deleted /\ o.ready = s.ready
  /\ o.deleted => o.hasConflict /\ RemovedOne(n, m)
  /\ p \in Opening => ~o.deleted /\ o.finalizer /\ s.finalizer /\ s.phase # "gone"
  /\ p = "remove" => o.hasConflict
  /\ p \in Closing => s.phase = "deleting" /\ o.finalizer
  /\ s.iid = o.iid \/ s.iid = 0 \/ m[s.iid].removed
  /\ s.phase = "gone" => o.iid = 0
  /\ s.phase = "live" /\ ~s.finalizer => o.iid = 0
  /\ ~o.finalizer =>
       /\ s.phase = "deleting"
       /\ o.iid = 0 \/ m[o.iid].removed \/ m[o.iid].state # "opened"

\* What is stored and what the copy says.  Without it a patch could take back a
\* conflict or a removal that was stored before.
SInv ==
  /\ \A n \in NMR : StoredSays(nmr[n], n, mr)
  /\ pc = "idle" => cur = NoNMR /\ obj = NoObject
  /\ pc # "idle" => CopySays(pc, obj, nmr[cur], cur, mr)

-----------------------------------------------------------------------------
(* How a step changes the merge requests.                                  *)

\* The step opens the merge request i, for the object under reconcile.
Opens(i) ==
  /\ pc = "mr" /\ ~Exists(obj.iid) /\ pc' = "conditions"
  /\ i \in IID /\ i = lastIID + 1 /\ mr' = [mr EXCEPT ![i] = NewMR(cur)]
  /\ UNCHANGED <<nmr, cur>>
  /\ \/ obj' = [obj EXCEPT !.iid = i] /\ UNCHANGED faults
     \/ obj' = obj /\ faults' = faults + 1

\* The step removes the merge request i, of the copy.
Removes(i) == pc \in {"remove", "removeClosing"} /\ i = obj.iid /\ UNCHANGED <<nmr, cur>>

\* Merge requests only advance; one appears, or is removed, only where the
\* worker does it.
Traced ==
  /\ Advances(mr, mr')
  /\ \A i \in IID : mr[i].state = "none" /\ mr'[i].state # "none" => Opens(i)
  /\ \A i \in IID : mr'[i].removed /\ ~mr[i].removed => Removes(i)

\* Nothing but the state of merge requests and of branches changes.
OnlyGitLab == UNCHANGED <<nmr, lastIID, pc, cur, obj, faults>>

\* Users and GitLab neither open nor remove merge requests.
LEMMA GitLabTraced ==
  ASSUME ConstantsOK, TypeOK,
         \/ \E i \in IID, s \in {"can_be_merged", "cannot_be_merged"} : CheckMergeability(i, s)
         \/ \E i \in IID : UserMerges(i) \/ UserCloses(i)
         \/ \E b \in Branch, h \in Head : UserPushes(b, h)
         \/ \E b \in Branch : DeleteBranch(b)
  PROVE  /\ OnlyGitLab /\ Advances(mr, mr')
         /\ \A j \in IID : /\ mr'[j].removed = mr[j].removed
                           /\ mr[j].state = "none" => mr'[j].state = "none"
<1> USE DEF worker, OnlyGitLab
<1>1. ASSUME NEW i \in IID, NEW s \in {"can_be_merged", "cannot_be_merged"},
             CheckMergeability(i, s)
      PROVE  /\ OnlyGitLab /\ Advances(mr, mr')
             /\ \A j \in IID : /\ mr'[j].removed = mr[j].removed
                               /\ mr[j].state = "none" => mr'[j].state = "none"
  BY <1>1 DEF CheckMergeability, Open, Advances, TypeOK, MergeRequest
<1>2. ASSUME NEW i \in IID, UserMerges(i)
      PROVE  /\ OnlyGitLab /\ Advances(mr, mr')
             /\ \A j \in IID : /\ mr'[j].removed = mr[j].removed
                               /\ mr[j].state = "none" => mr'[j].state = "none"
  <2>1. Advances(mr, mr')
    BY <1>2, GitLabAdvances DEF UserMerges, MayAccept, IID, ConstantsOK
  <2> QED BY <1>2, <2>1 DEF UserMerges, MayAccept, Open, Merged, TypeOK, MergeRequest
<1>3. ASSUME NEW i \in IID, UserCloses(i)
      PROVE  /\ OnlyGitLab /\ Advances(mr, mr')
             /\ \A j \in IID : /\ mr'[j].removed = mr[j].removed
                               /\ mr[j].state = "none" => mr'[j].state = "none"
  BY <1>3 DEF UserCloses, Open, Advances, TypeOK, MergeRequest
<1>4. ASSUME NEW b \in Branch, NEW h \in Head, UserPushes(b, h)
      PROVE  /\ OnlyGitLab /\ Advances(mr, mr')
             /\ \A j \in IID : /\ mr'[j].removed = mr[j].removed
                               /\ mr[j].state = "none" => mr'[j].state = "none"
  <2>1. Advances(mr, mr')
    BY <1>4, GitLabAdvances DEF UserPushes
  <2> QED BY <1>4, <2>1 DEF UserPushes, Rechecked, TypeOK, MergeRequest
<1>5. ASSUME NEW b \in Branch, DeleteBranch(b)
      PROVE  /\ OnlyGitLab /\ Advances(mr, mr')
             /\ \A j \in IID : /\ mr'[j].removed = mr[j].removed
                               /\ mr[j].state = "none" => mr'[j].state = "none"
  <2>1. Advances(mr, mr')
    BY <1>5, GitLabAdvances DEF DeleteBranch
  <2> QED BY <1>5, <2>1 DEF DeleteBranch, ClosedBy, Rechecked, Open, TypeOK, MergeRequest
<1> QED BY <1>1, <1>2, <1>3, <1>4, <1>5

\* A lookup that opens none writes this much into the copy.
LookedUp ==
  /\ UNCHANGED <<nmr, mr, lastIID, cur>> /\ pc' \in {"conditions", "accept", "remove"}
  /\ \/ obj' = obj
     \/ pc' = "conditions" /\ obj' = SettledMR(obj)
     \/ pc' = "remove" /\ obj' = [obj EXCEPT !.hasConflict = TRUE]
  /\ pc' = "remove" => obj'.hasConflict
  /\ faults' = faults + 1 \/ (faults' = faults /\ (~Exists(obj.iid) => pc' = "conditions"))

\* GetOrCreateMR opens the next merge request, or looks one up.
LEMMA LooksUpOrOpens ==
  ASSUME ConstantsOK, TypeOK, GetOrCreateMR
  PROVE  (Opens(lastIID + 1) /\ lastIID < MaxMR) \/ LookedUp
<1>1. CASE ~Exists(obj.iid) /\ CreateMR
  BY <1>1 DEF GetOrCreateMR, CreateMR, Opens, Finish, Fault, TypeOK, IID, ConstantsOK
<1>2. CASE Finish(obj) /\ UNCHANGED <<mr, lastIID>> /\ (faults' = faults \/ Fault)
  BY <1>2 DEF GetOrCreateMR, Finish, Fault, LookedUp
<1>3. CASE Exists(obj.iid) /\ Decide(mr[obj.iid]) /\ UNCHANGED <<mr, lastIID, faults>>
  BY <1>3 DEF GetOrCreateMR, Decide, Finish, LookedUp, TypeOK, Object
<1> QED BY <1>1, <1>2, <1>3 DEF GetOrCreateMR

\* No merge request was opened or removed.
LEMMA TracedAlone ==
  ASSUME Advances(mr, mr'),
         \A j \in IID : /\ mr'[j].removed = mr[j].removed
                        /\ mr[j].state = "none" => mr'[j].state = "none"
  PROVE  Traced
BY DEF Traced

LEMMA OpeningTraced ==
  ASSUME ConstantsOK, IInv, Opens(lastIID + 1), lastIID < MaxMR
  PROVE  Traced
<1> DEFINE new == lastIID + 1
<1>1. new \in IID /\ TypeOK /\ mr[new].state = "none"
  BY DEF IInv, Numbered, TypeOK, IID, ConstantsOK
<1>2. mr' = [mr EXCEPT ![new] = NewMR(cur)]
  BY DEF Opens
<1>3. /\ \A j \in IID : j # new => mr'[j] = mr[j]
      /\ mr'[new] = NewMR(cur)
  BY <1>1, <1>2 DEF TypeOK
<1>4. Advances(mr, mr')
  BY <1>1, <1>3 DEF Advances
<1>5. \A i \in IID : mr[i].state = "none" /\ mr'[i].state # "none" => Opens(i)
  BY <1>3
<1>6. \A i \in IID : mr'[i].removed => mr[i].removed
  BY <1>3 DEF NewMR
<1> QED BY <1>4, <1>5, <1>6 DEF Traced

LEMMA RemovingTraced ==
  ASSUME ConstantsOK, IInv, RemoveMR \/ RemoveMROnDelete
  PROVE  Traced
<1>1. TypeOK /\ obj.iid \in 0 .. MaxMR
  BY DEF IInv, TypeOK, Object
<1>2. CASE UNCHANGED mr
  BY <1>1, <1>2, GitLabAdvances, TracedAlone
<1>3. CASE mr' = Removed(obj.iid)
  <2>1. Advances(mr, mr')
    BY <1>1, <1>3, GitLabAdvances
  <2>2. ASSUME NEW j \in IID
        PROVE  /\ mr'[j].state = mr[j].state
               /\ j # obj.iid => mr'[j].removed = mr[j].removed
    <3>1. mr'[j] = IF j = obj.iid THEN [mr[j] EXCEPT !.removed = TRUE] ELSE mr[j]
      BY <1>1, <1>3 DEF Removed, TypeOK
    <3>2. mr[j] \in MergeRequest
      BY <1>1 DEF TypeOK
    <3> QED BY <3>1, <3>2 DEF MergeRequest
  <2>3. Removes(obj.iid)
    BY DEF Removes, RemoveMR, RemoveMROnDelete
  <2> QED BY <2>1, <2>2, <2>3 DEF Traced
<1> QED BY <1>2, <1>3 DEF RemoveMR, RemoveMROnDelete

LEMMA AcceptingTraced ==
  ASSUME ConstantsOK, IInv, AcceptMR
  PROVE  /\ Advances(mr, mr')
         /\ \A j \in IID : /\ mr'[j].removed = mr[j].removed
                           /\ mr[j].state = "none" => mr'[j].state = "none"
<1>1. TypeOK /\ obj.iid \in 0 .. MaxMR
  BY DEF IInv, TypeOK, Object
<1>2. CASE UNCHANGED mr
  BY <1>1, <1>2, GitLabAdvances
<1>3. CASE MayAccept(obj.iid) /\ mr' = Merged(obj.iid)
  <2>1. Advances(mr, mr') /\ Open(obj.iid)
    BY <1>1, <1>3, GitLabAdvances DEF MayAccept
  <2> QED BY <1>1, <1>3, <2>1 DEF Merged, Open, TypeOK, MergeRequest
<1> QED BY <1>2, <1>3 DEF AcceptMR

\* Every step changes the merge requests in one of these ways.
LEMMA NextTraced == ASSUME ConstantsOK, IInv, [Next]_vars PROVE Traced
<1>1. TypeOK
  BY DEF IInv
<1>2. CASE UNCHANGED mr
  BY <1>1, <1>2, GitLabAdvances, TracedAlone
<1>3. CASE GetOrCreateMR
  <2>1. CASE LookedUp
    BY <1>2, <2>1 DEF LookedUp
  <2>2. CASE Opens(lastIID + 1) /\ lastIID < MaxMR
    BY <2>2, OpeningTraced
  <2> QED BY <1>1, <1>2, <1>3, <2>1, <2>2, LooksUpOrOpens
<1>4. CASE AcceptMR
  BY <1>4, AcceptingTraced, TracedAlone
<1>5. CASE RemoveMR \/ RemoveMROnDelete
  BY <1>5, RemovingTraced
<1>6. CASE Environment
  <2>1. CASE \/ \E n \in NMR, auto \in BOOLEAN : Create(n, auto)
             \/ \E n \in NMR : Delete(n) \/ SetAutoAccept(n)
    BY <1>2, <2>1 DEF Create, Delete, SetAutoAccept, gitlab
  <2>2. CASE \/ \E i \in IID, s \in {"can_be_merged", "cannot_be_merged"} : CheckMergeability(i, s)
             \/ \E i \in IID : UserMerges(i) \/ UserCloses(i)
             \/ \E b \in Branch, h \in Head : UserPushes(b, h)
             \/ \E b \in Branch : DeleteBranch(b)
    <3>1. /\ Advances(mr, mr')
          /\ \A j \in IID : /\ mr'[j].removed = mr[j].removed
                            /\ mr[j].state = "none" => mr'[j].state = "none"
      BY <1>1, <2>2, GitLabTraced
    <3> QED BY <3>1, TracedAlone
  <2> QED BY <1>6, <2>1, <2>2 DEF Environment
<1>7. CASE UNCHANGED vars
  BY <1>2, <1>7 DEF vars
<1>8. CASE \/ CheckSourceBranch \/ ReconcileDelete \/ PatchConditions \/ PatchObject \/ Crash
           \/ \E n \in NMR : Reconcile(n)
  BY <1>2, <1>8
     DEF CheckSourceBranch, ReconcileDelete, PatchConditions, PatchObject, Crash, Reconcile, gitlab
<1> QED BY <1>3, <1>4, <1>5, <1>6, <1>7, <1>8 DEF Next, Step

-----------------------------------------------------------------------------
(* What the stored objects and the copy say of each other is kept.         *)

\* A merge request that was removed stays so.
LEMMA RemovedOneStays ==
  ASSUME NEW n, NEW m, NEW m2, Advances(m, m2), RemovedOne(n, m)
  PROVE  RemovedOne(n, m2)
BY DEF Advances, RemovedOne

\* What is stored stays true as merge requests advance,
LEMMA StoredAdvances ==
  ASSUME NEW o, NEW n, NEW m, NEW m2, Advances(m, m2), StoredSays(o, n, m),
         \A i \in IID : m[i].state = "none" /\ m2[i].state # "none" =>
                          m2[i].nmr # n \/ o.phase # "none"
  PROVE  StoredSays(o, n, m2)
<1>1. o.deleted => o.hasConflict /\ RemovedOne(n, m2)
  BY RemovedOneStays DEF StoredSays
<1>2. o.phase = "none" =>
        o = NoObject /\ \A i \in IID : m2[i].state # "none" => m2[i].nmr # n
  BY DEF StoredSays, Advances
<1> QED BY <1>1, <1>2 DEF StoredSays

\* and what the copy says stays true too.
LEMMA CopyAdvances ==
  ASSUME ConstantsOK, NEW p, NEW o \in Object, NEW s \in Object, NEW n,
         NEW m \in [IID -> MergeRequest], NEW m2 \in [IID -> MergeRequest],
         CopySays(p, o, s, n, m), Truthful(o, n, m), Truthful(s, n, m), Advances(m, m2)
  PROVE  CopySays(p, o, s, n, m2)
<1>1. o.deleted => o.hasConflict /\ RemovedOne(n, m2)
  BY RemovedOneStays DEF CopySays
<1>2. ASSUME NEW x \in {o, s}, x.iid # 0
      PROVE  /\ m[x.iid].removed => m2[x.iid].removed
             /\ m[x.iid].state # "opened" => m2[x.iid].state # "opened"
  <2>1. x.iid \in IID /\ m[x.iid].state # "none" /\ m[x.iid] \in MergeRequest
    BY <1>2 DEF Truthful, Object, IID, ConstantsOK
  <2> QED BY <2>1 DEF Advances, MergeRequest
<1>3. s.iid = o.iid \/ s.iid = 0 \/ m2[s.iid].removed
  BY <1>2 DEF CopySays
<1>4. o.iid = 0 \/ m[o.iid].removed \/ m[o.iid].state # "opened"
        => o.iid = 0 \/ m2[o.iid].removed \/ m2[o.iid].state # "opened"
  BY <1>2
<1> QED BY <1>1, <1>3, <1>4 DEF CopySays

\* A step that touches neither the API server nor the worker keeps it.
LEMMA SaysOutside ==
  ASSUME ConstantsOK, IInv, SInv, TypeOK', UNCHANGED <<nmr, pc, cur, obj>>,
         Advances(mr, mr'), \A i \in IID : mr[i].state = "none" => mr'[i].state = "none"
  PROVE  SInv'
<1>1. TypeOK
  BY DEF IInv
<1>3. ASSUME NEW n \in NMR PROVE StoredSays(nmr[n], n, mr')
  BY StoredAdvances DEF SInv
<1>4. ASSUME pc # "idle" PROVE CopySays(pc, obj, nmr[cur], cur, mr')
  <2>1. /\ cur \in NMR /\ obj \in Object /\ nmr[cur] \in Object
        /\ Truthful(obj, cur, mr) /\ Truthful(nmr[cur], cur, mr)
        /\ CopySays(pc, obj, nmr[cur], cur, mr)
        /\ mr \in [IID -> MergeRequest] /\ mr' \in [IID -> MergeRequest]
    BY <1>1, <1>4 DEF IInv, SInv, CopyTruthful, StoredTruthful, TypeOK
  <2> QED BY <2>1, CopyAdvances
<1> QED BY <1>3, <1>4 DEF SInv

\* A step inside a reconcile: the copy, brought up to the new merge requests,
\* and what the step makes of it.
LEMMA SaysInside ==
  ASSUME ConstantsOK, IInv, SInv, TypeOK', Traced, UNCHANGED <<nmr, cur>>, pc # "idle"
  PROVE  /\ \A n \in NMR : StoredSays(nmr[n], n, mr')
         /\ CopySays(pc, obj, nmr[cur], cur, mr')
<1>1. TypeOK
  BY DEF IInv
<1>2. /\ cur \in NMR /\ obj \in Object /\ nmr[cur] \in Object
      /\ Truthful(obj, cur, mr) /\ Truthful(nmr[cur], cur, mr)
      /\ CopySays(pc, obj, nmr[cur], cur, mr)
      /\ mr \in [IID -> MergeRequest] /\ mr' \in [IID -> MergeRequest]
  BY <1>1 DEF IInv, SInv, CopyTruthful, StoredTruthful, TypeOK
<1>3. CopySays(pc, obj, nmr[cur], cur, mr')
  BY <1>2, CopyAdvances DEF Traced
<1>4. ASSUME NEW n \in NMR PROVE StoredSays(nmr[n], n, mr')
  <2>1. ASSUME NEW i \in IID, mr[i].state = "none", mr'[i].state # "none"
        PROVE  mr'[i].nmr # n \/ nmr[n].phase # "none"
    <3>1. Opens(i)
      BY <2>1 DEF Traced
    <3>2. mr'[i].nmr = cur
      BY <1>1, <3>1 DEF Opens, NewMR, TypeOK
    <3> QED BY <1>2, <3>2 DEF CopySays
  <2> QED BY <2>1, StoredAdvances DEF SInv, Traced
<1> QED BY <1>3, <1>4

\* ... and so SInv, once the new copy is seen to say no less.
LEMMA SaysGoesOn ==
  ASSUME UNCHANGED <<nmr, cur>>, pc' # "idle",
         \A n \in NMR : StoredSays(nmr[n], n, mr'),
         CopySays(pc', obj', nmr[cur], cur, mr')
  PROVE  SInv'
BY DEF SInv

LEMMA SaysBranch ==
  ASSUME ConstantsOK, IInv, SInv, TypeOK', Traced, CheckSourceBranch
  PROVE  SInv'
<1>1. /\ UNCHANGED <<nmr, cur, obj>> /\ pc = "branch" /\ pc' \in {"mr", "conditions"}
  BY DEF CheckSourceBranch, Finish
<1>2. CopySays(pc', obj', nmr[cur], cur, mr')
  BY <1>1, SaysInside DEF CopySays, Opening, Closing
<1> QED BY <1>1, <1>2, SaysInside, SaysGoesOn

LEMMA SaysLookedUp ==
  ASSUME ConstantsOK, IInv, SInv, TypeOK', Traced, LookedUp, pc = "mr"
  PROVE  SInv'
<1>1. /\ UNCHANGED <<nmr, cur>> /\ pc' \in {"conditions", "accept", "remove"}
      /\ TypeOK /\ obj \in Object
  BY DEF LookedUp, IInv, TypeOK
<1>2. /\ \A f \in {"finalizer", "iid", "ready", "deleted"} : obj'[f] = obj[f]
      /\ obj.hasConflict \/ pc' = "remove" => obj'.hasConflict
  BY <1>1 DEF LookedUp, SettledMR, Object
<1>3. CopySays(pc, obj, nmr[cur], cur, mr') /\ \A n \in NMR : StoredSays(nmr[n], n, mr')
  BY <1>1, SaysInside
<1>4. CopySays(pc', obj', nmr[cur], cur, mr')
  BY <1>1, <1>2, <1>3 DEF CopySays, Opening, Closing
<1> QED BY <1>1, <1>3, <1>4, SaysGoesOn

LEMMA SaysOpens ==
  ASSUME ConstantsOK, IInv, SInv, TypeOK', Traced, Opens(lastIID + 1), lastIID < MaxMR
  PROVE  SInv'
<1> DEFINE new == lastIID + 1
           s == nmr[cur]
<1>1. /\ UNCHANGED <<nmr, cur>> /\ pc = "mr" /\ pc' = "conditions" /\ TypeOK /\ obj \in Object
      /\ s \in Object /\ cur \in NMR
  BY DEF Opens, IInv, TypeOK, CopyTruthful
<1>2. CopySays(pc, obj, s, cur, mr') /\ \A n \in NMR : StoredSays(nmr[n], n, mr')
  BY <1>1, SaysInside
<1>3. CASE obj' = obj
  <2>1. CopySays(pc', obj', s, cur, mr')
    BY <1>1, <1>2, <1>3 DEF CopySays, Opening, Closing
  <2> QED BY <1>1, <1>2, <2>1, SaysGoesOn
<1>4. CASE obj' = [obj EXCEPT !.iid = new]
  <2>1. \A f \in {"finalizer", "hasConflict", "ready", "deleted"} : obj'[f] = obj[f]
    BY <1>1, <1>4 DEF Object
  <2>2. s.iid = 0 \/ mr'[s.iid].removed
    <3>1. s.iid = obj.iid \/ s.iid = 0 \/ mr'[s.iid].removed
      BY <1>2 DEF CopySays
    <3>2. ASSUME s.iid = obj.iid, s.iid # 0 PROVE mr'[s.iid].removed
      <4>1. /\ s.iid \in IID /\ mr[s.iid].state # "none" /\ mr[s.iid].removed
        BY <1>1, <3>2 DEF Opens, Exists, IInv, StoredTruthful, Truthful, Object, IID, ConstantsOK
      <4> QED BY <4>1 DEF Traced, Advances
    <3> QED BY <3>1, <3>2
  <2>3. /\ s.phase # "none" /\ s.phase # "gone" /\ s.finalizer /\ obj.finalizer
        /\ s.hasConflict => obj.hasConflict
        /\ s.deleted => obj.deleted /\ obj.ready = s.ready
        /\ obj.deleted => obj.hasConflict /\ RemovedOne(cur, mr')
    BY <1>1, <1>2 DEF CopySays, Opening
  <2>4. CopySays("conditions", obj', s, cur, mr')
    <3> HIDE DEF s
    <3> QED BY <2>1, <2>2, <2>3 DEF CopySays, Opening, Closing
  <2> QED BY <1>1, <1>2, <2>4, SaysGoesOn
<1> QED BY <1>3, <1>4 DEF Opens

LEMMA SaysAccept ==
  ASSUME ConstantsOK, IInv, SInv, TypeOK', Traced, AcceptMR
  PROVE  SInv'
<1>1. /\ UNCHANGED <<nmr, cur>> /\ pc = "accept" /\ pc' = "conditions" /\ TypeOK /\ obj \in Object
      /\ obj' = obj \/ obj' = Accepted(obj)
  BY DEF AcceptMR, Finish, IInv, TypeOK
<1>2. \A f \in {"finalizer", "hasConflict", "iid", "deleted"} : obj'[f] = obj[f]
  BY <1>1 DEF Accepted, Object
<1>3. CopySays(pc, obj, nmr[cur], cur, mr') /\ \A n \in NMR : StoredSays(nmr[n], n, mr')
  BY <1>1, SaysInside
<1>4. CopySays(pc', obj', nmr[cur], cur, mr')
  BY <1>1, <1>2, <1>3 DEF CopySays, Opening, Closing
<1> QED BY <1>1, <1>3, <1>4, SaysGoesOn

\* After a removal the copy may say "deleted".
LEMMA SaysRemove ==
  ASSUME ConstantsOK, IInv, SInv, TypeOK', Traced, RemoveMR
  PROVE  SInv'
<1>1. /\ UNCHANGED <<nmr, cur, lastIID>> /\ pc = "remove" /\ pc' = "conditions" /\ TypeOK
      /\ obj \in Object
      /\ obj' = obj \/ (mr' = Removed(obj.iid) /\ obj' = ConflictSettled(obj))
  BY DEF RemoveMR, Finish, RemovalFailed, IInv, TypeOK
<1>2. /\ \A f \in {"finalizer", "hasConflict", "iid", "ready"} : obj'[f] = obj[f]
      /\ obj'.deleted => obj.deleted \/ mr' = Removed(obj.iid)
      /\ obj.deleted => obj'.deleted
  BY <1>1 DEF ConflictSettled, Object
<1>3. CopySays(pc, obj, nmr[cur], cur, mr') /\ \A n \in NMR : StoredSays(nmr[n], n, mr')
  BY <1>1, SaysInside
<1>4. ASSUME mr' = Removed(obj.iid) PROVE RemovedOne(cur, mr')
  <2>1. obj.iid \in IID
    BY <1>1 DEF IInv, CopyTruthful, Object, IID, ConstantsOK
  <2>2. mr'[obj.iid].removed /\ mr'[obj.iid].nmr = cur /\ mr'[obj.iid].state # "none"
    BY <1>1, <1>4, OwnRemoved
  <2> QED BY <2>1, <2>2 DEF RemovedOne
<1>5. CopySays(pc', obj', nmr[cur], cur, mr')
  BY <1>1, <1>2, <1>3, <1>4 DEF CopySays, Opening, Closing
<1> QED BY <1>1, <1>3, <1>5, SaysGoesOn

\* The finalizer goes only with nothing left to remove.
LEMMA SaysClosing ==
  ASSUME ConstantsOK, IInv, SInv, TypeOK', Traced, ReconcileDelete \/ RemoveMROnDelete
  PROVE  SInv'
<1>1. /\ UNCHANGED <<nmr, cur, lastIID>> /\ pc \in Closing /\ TypeOK /\ obj \in Object
      /\ pc' = "conditions" \/ (pc' = "removeClosing" /\ obj' = obj)
      /\ \/ obj' = obj
         \/ /\ obj' = WithoutFinalizer(obj) /\ pc' = "conditions"
            /\ \/ UNCHANGED mr /\ NothingToRemove(obj.iid)
               \/ mr' = Removed(obj.iid) /\ pc = "removeClosing"
  BY DEF ReconcileDelete, RemoveMROnDelete, Finish, Closing, gitlab, IInv, TypeOK
<1>2. CopySays(pc, obj, nmr[cur], cur, mr') /\ \A n \in NMR : StoredSays(nmr[n], n, mr')
  BY <1>1, SaysInside DEF Closing
<1>3. CASE obj' = obj
  <2>1. CopySays(pc', obj', nmr[cur], cur, mr')
    BY <1>1, <1>2, <1>3 DEF CopySays, Opening, Closing
  <2> QED BY <1>1, <1>2, <2>1, SaysGoesOn DEF Closing
<1>4. CASE obj' = WithoutFinalizer(obj) /\ pc' = "conditions"
  <2>1. \A f \in {"deleted", "hasConflict", "iid", "ready"} : obj'[f] = obj[f]
    BY <1>1, <1>4 DEF WithoutFinalizer, Object
  <2>2. nmr[cur].phase = "deleting"
    BY <1>1, <1>2 DEF CopySays
  <2>3. obj' = obj \/ obj.iid = 0 \/ mr'[obj.iid].removed \/ mr'[obj.iid].state # "opened"
    <3>1. ASSUME UNCHANGED mr, NothingToRemove(obj.iid)
          PROVE  obj.iid = 0 \/ mr'[obj.iid].removed \/ mr'[obj.iid].state # "opened"
      BY <3>1 DEF NothingToRemove, Exists
    <3>2. ASSUME mr' = Removed(obj.iid), pc = "removeClosing" PROVE mr'[obj.iid].removed
      BY <1>1, <3>2, OwnRemoved
    <3> QED BY <1>1, <3>1, <3>2
  <2>4. CopySays("conditions", obj', nmr[cur], cur, mr')
    <3>1. obj.iid = 0 \/ mr'[obj.iid].removed \/ mr'[obj.iid].state # "opened" \/ obj'.finalizer
      BY <1>1, <1>2, <2>3 DEF CopySays
    <3> QED BY <1>1, <1>2, <2>1, <2>2, <3>1 DEF CopySays, Opening, Closing
  <2> QED BY <1>1, <1>2, <1>4, <2>4, SaysGoesOn DEF Closing
<1> QED BY <1>1, <1>3, <1>4

LEMMA SaysReconcile ==
  ASSUME ConstantsOK, IInv, SInv, NEW n \in NMR, Reconcile(n)
  PROVE  SInv'
<1> DEFINE s == nmr[n]
<1>1. /\ TypeOK /\ s \in Object /\ cur' = n /\ UNCHANGED <<nmr, mr>> /\ Stored(n)
      /\ \/ /\ s.phase = "live" /\ ~s.finalizer /\ pc' = "conditions"
            /\ obj' = [s EXCEPT !.finalizer = TRUE]
         \/ /\ s.phase = "live" /\ s.finalizer /\ ~s.deleted /\ pc' = "branch"
            /\ obj' = [s EXCEPT !.processed = FALSE]
         \/ s.phase = "deleting" /\ pc' = "getMR" /\ obj' = s
  BY DEF Reconcile, AddFinalizer, Finish, LeftAlone, gitlab, IInv, TypeOK
<1>2. /\ StoredSays(s, n, mr) /\ s.phase # "none" /\ s.phase # "gone"
  BY <1>1 DEF SInv, Stored
<1>3. CopySays(pc', obj', s, n, mr) /\ pc' # "idle"
  <2> HIDE DEF s
  <2>1. /\ \A f \in {"deleted", "hasConflict", "iid", "ready"} : obj'[f] = s[f]
        /\ obj'.finalizer
        /\ s.phase = "live" /\ ~s.finalizer => s.iid = 0
    BY <1>1, <1>2 DEF Object, StoredSays
  <2> QED BY <1>1, <1>2, <2>1 DEF StoredSays, CopySays, Opening, Closing
<1> QED BY <1>1, <1>3 DEF SInv

LEMMA SaysPatchConditions ==
  ASSUME ConstantsOK, IInv, SInv, PatchConditions
  PROVE  SInv'
<1> DEFINE fields == {"phase", "finalizer", "iid", "ready", "hasConflict", "deleted"}
<1>1. /\ TypeOK /\ UNCHANGED <<mr, cur, obj>> /\ pc = "conditions" /\ pc' = "object"
      /\ cur \in NMR
  BY DEF PatchConditions, gitlab, IInv, TypeOK, CopyTruthful
<1>2. ASSUME NEW n \in NMR
      PROVE  /\ \A f \in fields : nmr'[n][f] = nmr[n][f]
             /\ nmr[n].phase = "none" => nmr'[n] = nmr[n]
  BY <1>1 DEF PatchConditions, Stored, TypeOK, Object
<1>3. ASSUME NEW n \in NMR PROVE StoredSays(nmr'[n], n, mr')
  BY <1>1, <1>2 DEF SInv, StoredSays
<1>4. CopySays(pc', obj', nmr'[cur], cur, mr')
  BY <1>1, <1>2 DEF SInv, CopySays, Opening, Closing
<1> QED BY <1>1, <1>3, <1>4 DEF SInv

\* What the second patch stores.
LEMMA PatchedFields ==
  ASSUME NEW s \in Object, NEW o \in Object
  PROVE  LET x == Patched(s, o) IN
         /\ \A f \in {"finalizer", "iid", "ready", "hasConflict", "deleted"} : x[f] = o[f]
         /\ x.processed = s.processed /\ x.autoAccept = s.autoAccept
         /\ x.phase = IF s.phase = "deleting" /\ ~o.finalizer THEN "gone" ELSE s.phase
BY DEF Patched, Object

\* What PatchObject stores says what the copy did.
LEMMA PatchedSays ==
  ASSUME NEW s \in Object, NEW o \in Object, NEW n, NEW m,
         CopySays("object", o, s, n, m)
  PROVE  StoredSays(Patched(s, o), n, m)
<1> DEFINE x == Patched(s, o)
<1>1. /\ \A f \in {"finalizer", "iid", "ready", "hasConflict", "deleted"} : x[f] = o[f]
      /\ x.phase = IF s.phase = "deleting" /\ ~o.finalizer THEN "gone" ELSE s.phase
  BY PatchedFields
<1> HIDE DEF x
<1>2. StoredSays(x, n, m)
  BY <1>1 DEF CopySays, StoredSays
<1> QED BY <1>2 DEF x

LEMMA SaysPatchObject ==
  ASSUME ConstantsOK, IInv, SInv, PatchObject \/ Crash
  PROVE  SInv'
<1>1. /\ TypeOK /\ UNCHANGED mr /\ pc # "idle" /\ pc' = "idle" /\ cur' = NoNMR
      /\ obj' = NoObject /\ cur \in NMR
  BY DEF PatchObject, Crash, Done, gitlab, IInv, CopyTruthful
<1>2. ASSUME NEW n \in NMR PROVE StoredSays(nmr'[n], n, mr')
  <2>1. CASE nmr'[n] = nmr[n]
    BY <1>1, <2>1 DEF SInv
  <2>2. CASE pc = "object" /\ n = cur /\ nmr'[n] = Patched(nmr[n], obj)
    BY <1>1, <2>2, PatchedSays DEF SInv, TypeOK
  <2> QED BY <1>1, <2>1, <2>2 DEF PatchObject, Crash, TypeOK
<1> QED BY <1>1, <1>2 DEF SInv

LEMMA SaysEnvironment ==
  ASSUME ConstantsOK, IInv, SInv, TypeOK', Environment
  PROVE  SInv'
<1>1. TypeOK /\ Environment
  BY DEF IInv
<1>2. ASSUME NEW n \in NMR, NEW auto \in BOOLEAN, Create(n, auto) PROVE SInv'
  <2>1. /\ nmr[n].phase = "none" /\ UNCHANGED <<mr, pc, cur, obj>>
        /\ nmr' = [nmr EXCEPT ![n] = [NoObject EXCEPT !.phase = "live", !.autoAccept = auto]]
    BY <1>2 DEF Create, gitlab, worker
  <2>2. pc # "idle" => cur # n
    BY <2>1 DEF SInv, CopySays
  <2>3. StoredSays(nmr'[n], n, mr)
    BY <1>1, <2>1 DEF StoredSays, NoObject, TypeOK
  <2>4. \A k \in NMR : k # n => nmr'[k] = nmr[k]
    BY <1>1, <2>1 DEF TypeOK
  <2>5. pc # "idle" => cur \in NMR
    BY DEF IInv, CopyTruthful
  <2> QED BY <2>1, <2>2, <2>3, <2>4, <2>5 DEF SInv
<1>3. ASSUME NEW n \in NMR, Delete(n) \/ SetAutoAccept(n) PROVE SInv'
  <2> DEFINE fields == {"finalizer", "iid", "ready", "hasConflict", "deleted", "processed"}
  <2>1. /\ UNCHANGED <<mr, pc, cur, obj>> /\ nmr[n].phase # "none"
        /\ \A k \in NMR : /\ k # n => nmr'[k] = nmr[k]
                          /\ \A f \in fields : nmr'[k][f] = nmr[k][f]
        /\ \/ nmr'[n].phase = nmr[n].phase
           \/ /\ nmr[n].phase = "live"
              /\ nmr'[n].phase = IF nmr[n].finalizer THEN "deleting" ELSE "gone"
    BY <1>1, <1>3 DEF Delete, SetAutoAccept, Stored, gitlab, worker, TypeOK, Object
  <2>2. ASSUME NEW k \in NMR PROVE StoredSays(nmr'[k], k, mr)
    <3>1. CASE k # n
      BY <2>1, <3>1 DEF SInv
    <3>2. CASE k = n
      BY <2>1, <3>2 DEF SInv, StoredSays
    <3> QED BY <3>1, <3>2
  <2>3. ASSUME pc # "idle" PROVE CopySays(pc, obj, nmr'[cur], cur, mr)
    <3>1. CASE cur # n
      BY <2>1, <2>3, <3>1 DEF SInv, IInv, CopyTruthful
    <3>2. CASE cur = n
      BY <2>1, <2>3, <3>2 DEF SInv, CopySays, Opening, Closing
    <3> QED BY <3>1, <3>2
  <2> QED BY <2>1, <2>2, <2>3 DEF SInv
<1>4. CASE \/ \E i \in IID, s \in {"can_be_merged", "cannot_be_merged"} : CheckMergeability(i, s)
           \/ \E i \in IID : UserMerges(i) \/ UserCloses(i)
           \/ \E b \in Branch, h \in Head : UserPushes(b, h)
           \/ \E b \in Branch : DeleteBranch(b)
  <2>1. /\ OnlyGitLab /\ Advances(mr, mr')
        /\ \A j \in IID : mr[j].state = "none" => mr'[j].state = "none"
    BY <1>1, <1>4, GitLabTraced
  <2> QED BY <2>1, SaysOutside DEF OnlyGitLab
<1> QED BY <1>1, <1>2, <1>3, <1>4 DEF Environment

LEMMA SaysNext ==
  ASSUME ConstantsOK, IInv, SInv, [Next]_vars
  PROVE  SInv'
<1>1. TypeOK' /\ Traced
  BY TypeNext, NextTraced DEF IInv
<1>2. CASE UNCHANGED vars
  <2>1. UNCHANGED <<nmr, mr, pc, cur, obj>>
    BY <1>2 DEF vars
  <2> QED BY <2>1 DEF SInv
<1>3. CASE GetOrCreateMR
  <2>1. CASE LookedUp
    BY <1>1, <1>3, <2>1, SaysLookedUp DEF GetOrCreateMR
  <2>2. CASE Opens(lastIID + 1) /\ lastIID < MaxMR
    BY <1>1, <2>2, SaysOpens
  <2> QED BY <1>3, <2>1, <2>2, LooksUpOrOpens DEF IInv
<1> QED BY <1>1, <1>2, <1>3, SaysBranch, SaysAccept, SaysRemove, SaysClosing, SaysReconcile,
           SaysPatchConditions, SaysPatchObject, SaysEnvironment
        DEF Next, Step

LEMMA SaysInit == ASSUME ConstantsOK, Init PROVE SInv
BY DEF Init, SInv, StoredSays, NoObject, NoMR

\* At every step of a reconcile the copy says no less than the stored object.
THEOREM CopySaysNoLess == Spec => []SInv
<1>1. Init => SInv
  BY SaysInit, ConstantsOK
<1>2. IInv /\ SInv /\ [Next]_vars => SInv'
  BY SaysNext, ConstantsOK
<1> QED BY <1>1, <1>2, Invariance, PTL DEF Spec

-----------------------------------------------------------------------------
(* The promise, step by step.                                              *)

\* An object that was never created has no merge request after a step either.
LEMMA NoneOpened ==
  ASSUME ConstantsOK, IInv, SInv, Traced, NEW n \in NMR, nmr[n].phase = "none"
  PROVE  MRsOf(n) = {} /\ MRsOf(n)' = {}
<1>1. \A i \in IID : mr[i].state # "none" => mr[i].nmr # n
  BY DEF SInv, StoredSays
<1>2. ASSUME NEW i \in IID, mr'[i].state # "none" PROVE mr'[i].nmr # n
  <2>1. CASE mr[i].state # "none"
    BY <1>1, <2>1 DEF Traced, Advances
  <2>2. CASE mr[i].state = "none"
    <3>1. Opens(i)
      BY <1>2, <2>2 DEF Traced
    <3>2. mr'[i].nmr = cur /\ pc # "idle"
      BY <3>1 DEF Opens, NewMR, IInv, TypeOK
    <3> QED BY <3>2 DEF SInv, CopySays
  <2> QED BY <2>1, <2>2
<1> QED BY <1>1, <1>2 DEF MRsOf

\* What became of an object's merge requests is not forgotten.
LEMMA HistoryGrows ==
  ASSUME Traced, NEW n \in NMR
  PROVE  MRsOf(n) \subseteq MRsOf(n)' /\ History[n] \subseteq History'[n]
<1>1. /\ MRsOf(n) \subseteq MRsOf(n)'
      /\ \A i \in MRsOf(n) : /\ mr[i].removed => mr'[i].removed
                             /\ mr[i].state \in {"merged", "closed"} => mr'[i].state = mr[i].state
  BY DEF Traced, Advances, MRsOf
<1> QED BY <1>1 DEF History

LEMMA InHistory ==
  ASSUME NEW n \in NMR
  PROVE  /\ \A i \in MRsOf(n) : /\ mr[i].state \in {"merged", "closed"} => mr[i].state \in History[n]
                                /\ mr[i].removed => "removed" \in History[n]
BY DEF History

LEMMA TruthInHistory ==
  ASSUME ConstantsOK, NEW o \in Object, NEW n \in NMR, Truthful(o, n, mr)
  PROVE  /\ o.ready => "merged" \in History[n]
         /\ o.processed => History[n] # {}
         /\ RemovedOne(n, mr) => "removed" \in History[n]
<1>1. o.ready => "merged" \in History[n]
  <2> SUFFICES ASSUME o.ready PROVE "merged" \in History[n]
    OBVIOUS
  <2>1. o.iid \in MRsOf(n) /\ mr[o.iid].state = "merged"
    BY DEF Truthful, MRsOf, Object, IID, ConstantsOK
  <2> QED BY <2>1, InHistory
<1>2. o.processed => History[n] # {}
  <2> SUFFICES ASSUME o.processed PROVE History[n] # {}
    OBVIOUS
  <2>1. PICK i \in IID : /\ mr[i].state # "none" /\ mr[i].nmr = n
                         /\ mr[i].state \in {"merged", "closed"} \/ mr[i].removed
    BY DEF Truthful
  <2>2. i \in MRsOf(n)
    BY <2>1 DEF MRsOf
  <2> QED BY <2>1, <2>2, InHistory
<1>3. RemovedOne(n, mr) => "removed" \in History[n]
  BY InHistory DEF RemovedOne, MRsOf
<1> QED BY <1>1, <1>2, <1>3

\* What an object may newly say, and never take back, in one step.
Keeps(v, w, p) ==
  /\ Promise!Lives(v, w) /\ Promise!Lasting(v, w) /\ Promise!Founded(v, w, p)
  /\ v.phase = "none" => ~w.ready /\ ~w.hasConflict

LEMMA Unchanged ==
  ASSUME ConstantsOK, NEW v, NEW w, NEW p,
         \A f \in {"phase", "ready", "hasConflict", "deleted"} : w[f] = v[f],
         w.processed => v.processed \/ p # {},
         v.phase = "none" => ~v.ready /\ ~v.hasConflict
  PROVE  Keeps(v, w, p)
BY DEF Keeps, Promise!Lives, Promise!Lasting, Promise!Founded

LEMMA PatchKeeps ==
  ASSUME ConstantsOK, IInv, SInv, pc = "object"
  PROVE  Keeps(nmr[cur], Patched(nmr[cur], obj), History[cur])
<1> DEFINE s == nmr[cur]
           x == Patched(s, obj)
           p == History[cur]
<1>1. s \in Object /\ obj \in Object /\ cur \in NMR /\ Truthful(obj, cur, mr)
      /\ CopySays("object", obj, s, cur, mr) /\ (s.ready => obj.ready)
  BY DEF IInv, SInv, CopyTruthful, TypeOK
<1>2. /\ \A f \in {"finalizer", "iid", "ready", "hasConflict", "deleted"} : x[f] = obj[f]
      /\ x.processed = s.processed
      /\ x.phase = IF s.phase = "deleting" /\ ~obj.finalizer THEN "gone" ELSE s.phase
  BY <1>1, PatchedFields
<1>3. /\ obj.ready => "merged" \in p
      /\ obj.deleted => "removed" \in p /\ obj.hasConflict
  BY <1>1, TruthInHistory DEF CopySays
<1> HIDE DEF s, x, p
<1>4. Keeps(s, x, p)
  BY <1>1, <1>2, <1>3
     DEF Keeps, CopySays, Promise!Lives, Promise!Lasting, Promise!Founded
<1> QED BY <1>4 DEF s, x, p

\* How a step changes one stored object: by a patch, or from outside.
LEMMA StoredMoves ==
  ASSUME ConstantsOK, IInv, SInv, [Next]_vars, NEW n \in NMR
  PROVE  Keeps(nmr[n], nmr'[n], History[n])
<1> DEFINE v == nmr[n]
           w == nmr'[n]
<1> SUFFICES Keeps(v, w, History[n])
  OBVIOUS
<1>1. TypeOK /\ v \in Object /\ (v.phase = "none" => ~v.ready /\ ~v.hasConflict)
  BY DEF IInv, SInv, StoredSays, NoObject, TypeOK
<1>2. CASE w = v
  BY <1>1, <1>2, Unchanged
<1>3. CASE PatchConditions /\ w # v
  <2>1. cur = n /\ w = [v EXCEPT !.processed = obj.processed] /\ pc = "conditions"
    BY <1>1, <1>3 DEF PatchConditions, TypeOK
  <2>2. obj.processed => History[n] # {}
    BY <1>1, <2>1, TruthInHistory DEF IInv, CopyTruthful, TypeOK
  <2>3. /\ \A f \in {"phase", "ready", "hasConflict", "deleted"} : w[f] = v[f]
        /\ w.processed = obj.processed
    BY <1>1, <2>1 DEF Object
  <2> HIDE DEF v, w
  <2> QED BY <1>1, <2>2, <2>3, Unchanged
<1>4. CASE PatchObject /\ w # v
  <2>1. cur = n /\ w = Patched(v, obj) /\ pc = "object"
    BY <1>1, <1>4 DEF PatchObject, TypeOK
  <2> QED BY <2>1, PatchKeeps
<1>5. ASSUME NEW auto \in BOOLEAN, Create(n, auto) PROVE Keeps(v, w, History[n])
  <2>1. v = NoObject /\ w = [NoObject EXCEPT !.phase = "live", !.autoAccept = auto]
    BY <1>1, <1>5 DEF Create, TypeOK, SInv, StoredSays
  <2>2. /\ v.phase = "none" /\ ~v.ready /\ ~v.hasConflict /\ ~v.deleted
        /\ w.phase = "live" /\ ~w.ready /\ ~w.hasConflict /\ ~w.deleted /\ ~w.processed
    BY <2>1 DEF NoObject
  <2> HIDE DEF v, w
  <2> QED BY <2>2 DEF Keeps, Promise!Lives, Promise!Lasting, Promise!Founded
<1>6. CASE Delete(n)
  <2>1. /\ v.phase = "live" /\ w.phase \in {"deleting", "gone"}
        /\ \A f \in {"ready", "hasConflict", "deleted", "processed"} : w[f] = v[f]
    BY <1>1, <1>6 DEF Delete, TypeOK, Object
  <2> HIDE DEF v, w
  <2> QED BY <2>1 DEF Keeps, Promise!Lives, Promise!Lasting, Promise!Founded
<1>7. CASE SetAutoAccept(n)
  <2>1. \A f \in {"phase", "ready", "hasConflict", "deleted", "processed"} : w[f] = v[f]
    BY <1>1, <1>7 DEF SetAutoAccept, TypeOK, Object
  <2> HIDE DEF v, w
  <2> QED BY <1>1, <2>1, Unchanged
<1>8. CASE w # v
  <2>1. nmr' # nmr
    BY <1>8
  <2>2. \/ PatchConditions \/ PatchObject
        \/ \E k \in NMR, auto \in BOOLEAN : Create(k, auto)
        \/ \E k \in NMR : Delete(k) \/ SetAutoAccept(k)
    BY <2>1
       DEF Next, Step, Environment, vars, Reconcile, CheckSourceBranch, GetOrCreateMR, AcceptMR,
           RemoveMR, ReconcileDelete, RemoveMROnDelete, Crash, CheckMergeability, UserMerges,
           UserCloses, UserPushes, DeleteBranch
  <2>3. ASSUME NEW k \in NMR, NEW auto \in BOOLEAN, Create(k, auto) PROVE k = n
    BY <1>1, <1>8, <2>3 DEF Create, TypeOK
  <2>4. ASSUME NEW k \in NMR, Delete(k) \/ SetAutoAccept(k) PROVE k = n
    BY <1>1, <1>8, <2>4 DEF Delete, SetAutoAccept, TypeOK
  <2> QED BY <1>3, <1>4, <1>5, <1>6, <1>7, <1>8, <2>2, <2>3, <2>4
<1> QED BY <1>2, <1>8

\* Initially nothing was created, and nothing became of any merge request.
LEMMA PromiseInit ==
  ASSUME ConstantsOK, Init
  PROVE  Promise!Init
<1>1. \A n \in NMR : Published[n] = Promise!Fresh
  BY DEF Init, Published, NoObject, Promise!Fresh
<1>2. \A n \in NMR : MRsOf(n) = {}
  BY DEF Init, MRsOf, NoMR
<1>3. \A n \in NMR : History[n] = {}
  BY <1>2 DEF History
<1> QED BY <1>1, <1>3 DEF Promise!Init, Published, History

LEMMA PromiseStep ==
  ASSUME ConstantsOK, IInv, SInv, [Next]_vars
  PROVE  Promise!Next
<1>1. TypeOK' /\ Traced
  BY TypeNext, NextTraced DEF IInv
<1>2. Published' \in [NMR -> Promise!View]
  BY <1>1 DEF TypeOK, Object, Published, Promise!View
<1>3. History' \in [NMR -> SUBSET Promise!Outcome]
  BY DEF History, Promise!Outcome
<1>4. ASSUME NEW n \in NMR
      PROVE  Promise!Moves(Published[n], History[n], Published'[n], History'[n])
  <2> DEFINE v == Published[n]
             w == Published'[n]
  <2>1. \A f \in {"phase", "ready", "hasConflict", "deleted", "processed"} :
          v[f] = nmr[n][f] /\ w[f] = nmr'[n][f]
    BY DEF Published
  <2>2. Keeps(nmr[n], nmr'[n], History[n])
    BY StoredMoves
  <2> HIDE DEF v, w
  <2>3. Keeps(v, w, History[n])
    BY <2>1, <2>2 DEF Keeps, Promise!Lives, Promise!Lasting, Promise!Founded
  <2>4. History[n] \subseteq History'[n]
    BY <1>1, HistoryGrows
  <2>5. v.phase = "none" => History'[n] = {}
    <3>1. v.phase = nmr[n].phase
      BY <2>1
    <3>2. v.phase = "none" => MRsOf(n)' = {}
      BY <1>1, <3>1, NoneOpened
    <3> QED BY <3>2 DEF History
  <2>6. Promise!Moves(v, History[n], w, History'[n])
    BY <2>3, <2>4, <2>5 DEF Keeps, Promise!Moves
  <2> QED BY <2>6 DEF v, w
<1> QED BY <1>2, <1>3, <1>4 DEF Promise!Next

\* The controller keeps the promise the Merge controller builds on: what an
\* object says of its merge requests is founded on what happened to them, and
\* what counts for a release is never taken back.
THEOREM PromiseKept == Spec => KeepsPromise
<1>1. Init => Promise!Init
  BY PromiseInit, ConstantsOK
<1>2. IInv /\ SInv /\ [Next]_vars => Promise!Next
  BY PromiseStep, ConstantsOK
<1> QED BY <1>1, <1>2, Invariance, CopySaysNoLess, PTL DEF Spec, KeepsPromise, Promise!Spec

\* A step opens at most one merge request, and for the object under reconcile.
LEMMA MRsOfStep ==
  ASSUME ConstantsOK, IInv, [Next]_vars, NEW n \in NMR
  PROVE  \/ MRsOf(n)' = MRsOf(n)
         \/ /\ Opens(lastIID + 1) /\ n = cur /\ lastIID + 1 \notin MRsOf(n)
            /\ MRsOf(n)' = MRsOf(n) \cup {lastIID + 1}
<1>1. Traced /\ TypeOK
  BY NextTraced DEF IInv
<1>2. MRsOf(n) \subseteq MRsOf(n)'
  BY <1>1, HistoryGrows
<1>3. ASSUME NEW i \in MRsOf(n)', i \notin MRsOf(n)
      PROVE  Opens(i) /\ n = cur /\ i = lastIID + 1
  <2>1. i \in IID /\ mr'[i].state # "none" /\ mr'[i].nmr = n
    BY <1>3 DEF MRsOf
  <2>2. mr[i].state = "none"
    BY <1>1, <1>3, <2>1 DEF Traced, Advances, MRsOf
  <2>3. Opens(i)
    BY <1>1, <2>1, <2>2 DEF Traced
  <2> QED BY <1>1, <2>1, <2>3 DEF Opens, NewMR, TypeOK
<1> QED BY <1>2, <1>3

-----------------------------------------------------------------------------
(* How many merge requests are opened.                                     *)

\* An object that is o in the end gets a merge request at its next reconcile.
Ahead(o, n) == nmr[n].phase = "live" /\ ~o.deleted /\ ~Exists(o.iid)

\* The operator may open a merge request for n before anything fails again.
MayOpen(n) ==
  IF cur # n THEN Ahead(nmr[n], n)
  ELSE IF pc \in {"branch", "mr"} THEN ~Exists(obj.iid)
  ELSE Ahead(obj, n)

LEMMA OwnedFinite ==
  ASSUME ConstantsOK, NEW S, S \subseteq IID
  PROVE  IsFiniteSet(S) /\ Cardinality(S) \in Nat
<1>1. IsFiniteSet(IID)
  <2>1. 1 \in Int /\ MaxMR \in Int
    BY DEF ConstantsOK
  <2> QED BY <2>1, FS_Interval DEF IID
<1>2. IsFiniteSet(S)
  BY <1>1, FS_Subset
<1> QED BY <1>2, FS_CardinalityType

LEMMA FaultsStep ==
  ASSUME ConstantsOK, TypeOK, [Next]_vars
  PROVE  faults' \in {faults, faults + 1} /\ faults \in Nat
<1>1. faults \in Nat
  BY DEF ConstantsOK, TypeOK
<1> SUFFICES faults' \in {faults, faults + 1}
  BY <1>1
<1>2. CASE UNCHANGED vars
  BY <1>2 DEF vars
<1>3. CASE Step
  BY <1>3
     DEF Step, Fault, CheckSourceBranch, GetOrCreateMR, CreateMR, AcceptMR, RemoveMR,
         ReconcileDelete, RemoveMROnDelete, PatchConditions, PatchObject
<1>4. CASE Environment
  BY <1>4
     DEF Environment, Create, Delete, SetAutoAccept, CheckMergeability, UserMerges, UserCloses,
         UserPushes, DeleteBranch
<1>5. CASE Crash \/ \E n \in NMR : Reconcile(n)
  BY <1>5 DEF Reconcile, Crash, Fault
<1> QED BY <1>2, <1>3, <1>4, <1>5 DEF Next

\* Unless it is patched, a stored object keeps its status.
LEMMA OnlyPatched ==
  ASSUME ConstantsOK, TypeOK, SInv, [Next]_vars, NEW n \in NMR, ~(PatchObject /\ cur = n)
  PROVE  /\ \A f \in {"finalizer", "iid", "deleted"} : nmr'[n][f] = nmr[n][f]
         /\ \/ nmr'[n].phase = nmr[n].phase
            \/ nmr[n].phase = "none" /\ nmr'[n].phase = "live"
            \/ /\ nmr[n].phase = "live"
               /\ nmr'[n].phase = IF nmr[n].finalizer THEN "deleting" ELSE "gone"
<1> DEFINE v == nmr[n]
           w == nmr'[n]
           Same == /\ \A f \in {"finalizer", "iid", "deleted"} : w[f] = v[f]
                   /\ \/ w.phase = v.phase
                      \/ v.phase = "none" /\ w.phase = "live"
                      \/ v.phase = "live" /\ w.phase = IF v.finalizer THEN "deleting" ELSE "gone"
<1>1. CASE w = v
  BY <1>1
<1>2. CASE PatchConditions
  <2>1. w = v \/ w = [v EXCEPT !.processed = obj.processed]
    BY <1>2 DEF PatchConditions, TypeOK
  <2> QED BY <2>1 DEF TypeOK, Object
<1>3. CASE PatchObject /\ cur # n
  <2>1. w = v
    BY <1>3 DEF PatchObject, TypeOK
  <2> QED BY <2>1
<1>4. ASSUME NEW k \in NMR, NEW auto \in BOOLEAN, Create(k, auto) PROVE Same
  <2>1. CASE k # n
    <3>1. w = v
      BY <1>4, <2>1 DEF Create, TypeOK
    <3> QED BY <3>1
  <2>2. CASE k = n
    <3>1. v = NoObject /\ w = [NoObject EXCEPT !.phase = "live", !.autoAccept = auto]
      BY <1>4, <2>2 DEF Create, TypeOK, SInv, StoredSays
    <3> QED BY <3>1 DEF NoObject
  <2> QED BY <2>1, <2>2
<1>5. ASSUME NEW k \in NMR, Delete(k) \/ SetAutoAccept(k) PROVE Same
  BY <1>5 DEF Delete, SetAutoAccept, TypeOK, Object
<1>6. ASSUME nmr' # nmr
      PROVE  \/ PatchConditions \/ PatchObject
             \/ \E k \in NMR, auto \in BOOLEAN : Create(k, auto)
             \/ \E k \in NMR : Delete(k) \/ SetAutoAccept(k)
  BY <1>6
     DEF Next, Step, Environment, vars, Reconcile, CheckSourceBranch, GetOrCreateMR, AcceptMR,
         RemoveMR, ReconcileDelete, RemoveMROnDelete, Crash, CheckMergeability, UserMerges,
         UserCloses, UserPushes, DeleteBranch
<1>7. Same
  BY <1>1, <1>2, <1>3, <1>4, <1>5, <1>6
<1> QED BY <1>7

\* The merge request i is there, unless it was removed.
There(i, m) == i # 0 /\ m[i].state # "none" /\ ~m[i].removed

\* What was there still is, unless the worker removes it.
LEMMA StaysThere ==
  ASSUME ConstantsOK, Traced, NEW i \in 0 .. MaxMR, Exists(i), ~Removes(i)
  PROVE  There(i, mr')
BY DEF Traced, Advances, Exists, There, IID, ConstantsOK

\* An object that is not under reconcile gains no right to open one,
LEMMA OthersMayOpen ==
  ASSUME ConstantsOK, IInv, SInv, [Next]_vars, NEW n \in NMR, cur # n, cur' # n, MayOpen(n)'
  PROVE  MayOpen(n) \/ MRsOf(n) = {}
<1>1. TypeOK /\ Traced /\ nmr[n] \in Object
  BY NextTraced DEF IInv, TypeOK
<1>2. /\ nmr'[n].phase = "live" /\ ~nmr'[n].deleted /\ ~There(nmr'[n].iid, mr')
  BY DEF MayOpen, Ahead, Exists, There
<1>3. /\ nmr'[n].iid = nmr[n].iid /\ nmr'[n].deleted = nmr[n].deleted
      /\ nmr[n].phase \in {"none", "live"}
  BY <1>1, <1>2, OnlyPatched
<1>4. CASE nmr[n].phase = "none"
  BY <1>1, <1>4, NoneOpened
<1>5. CASE nmr[n].phase = "live" /\ Exists(nmr[n].iid)
  <2>1. /\ nmr[n].iid \in 0 .. MaxMR /\ nmr[n].iid # 0 /\ mr[nmr[n].iid].nmr = n
    BY <1>1, <1>5 DEF Exists, IInv, StoredTruthful, Truthful, Object
  <2>2. ~Removes(nmr[n].iid)
    BY <2>1 DEF Removes, IInv, CopyTruthful, Truthful
  <2> QED BY <1>1, <1>2, <1>3, <1>5, <2>1, <2>2, StaysThere
<1>6. CASE nmr[n].phase = "live" /\ ~Exists(nmr[n].iid)
  BY <1>2, <1>3, <1>6 DEF MayOpen, Ahead
<1> QED BY <1>3, <1>4, <1>5, <1>6

\* nor does one whose reconcile starts,
LEMMA StartMayOpen ==
  ASSUME ConstantsOK, IInv, SInv, NEW n \in NMR, Reconcile(n), MayOpen(n)'
  PROVE  MayOpen(n)
<1> DEFINE s == nmr[n]
<1>1. /\ TypeOK /\ s \in Object /\ cur' = n /\ UNCHANGED <<nmr, mr>> /\ cur # n
      /\ \/ /\ s.phase = "live" /\ pc' = "conditions" /\ obj' = [s EXCEPT !.finalizer = TRUE]
         \/ /\ s.phase = "live" /\ ~s.deleted /\ pc' = "branch"
            /\ obj' = [s EXCEPT !.processed = FALSE]
         \/ s.phase = "deleting" /\ pc' = "getMR" /\ obj' = s
  BY DEF Reconcile, AddFinalizer, Finish, LeftAlone, gitlab, IInv, TypeOK, SInv, ConstantsOK
<1>2. obj'.iid = s.iid /\ obj'.deleted = s.deleted
  BY <1>1 DEF Object
<1>3. There(s.iid, mr) = Exists(s.iid)
  BY DEF There, Exists
<1>4. \/ pc' = "branch" /\ ~There(s.iid, mr)
      \/ pc' # "branch" /\ s.phase = "live" /\ ~obj'.deleted /\ ~There(s.iid, mr)
  BY <1>1, <1>2 DEF MayOpen, Ahead, Exists, There
<1> QED BY <1>1, <1>2, <1>3, <1>4 DEF MayOpen, Ahead

\* or is patched.
LEMMA PatchMayOpen ==
  ASSUME ConstantsOK, IInv, SInv, PatchObject, UNCHANGED faults, NEW n \in NMR, cur = n,
         MayOpen(n)'
  PROVE  MayOpen(n)
<1> DEFINE s == nmr[n]
<1>1. /\ TypeOK /\ s \in Object /\ obj \in Object /\ cur' # n /\ UNCHANGED mr /\ pc = "object"
      /\ faults \in Nat
  BY DEF PatchObject, Done, gitlab, IInv, TypeOK, ConstantsOK
<1>2. nmr'[n].phase = "live" /\ ~nmr'[n].deleted /\ ~There(nmr'[n].iid, mr)
  BY <1>1 DEF MayOpen, Ahead, Exists, There
<1>3. \/ Stored(n) /\ nmr'[n] = Patched(s, obj)
      \/ ~Stored(n) /\ nmr'[n] = s
  BY <1>1 DEF PatchObject, TypeOK, Fault
<1>4. nmr'[n] = Patched(s, obj)
  BY <1>2, <1>3 DEF Stored
<1>5. s.phase = "live" /\ ~obj.deleted /\ ~There(obj.iid, mr)
  <2>1. LET x == Patched(s, obj) IN
        /\ \A f \in {"iid", "deleted"} : x[f] = obj[f]
        /\ x.phase = IF s.phase = "deleting" /\ ~obj.finalizer THEN "gone" ELSE s.phase
    BY <1>1, PatchedFields
  <2> QED BY <1>2, <1>4, <2>1
<1> QED BY <1>1, <1>5 DEF MayOpen, Ahead, Exists, There

\* A step inside a reconcile that neither fails nor opens a merge request.
CopyGoesOn ==
  /\ obj'.iid = obj.iid /\ (obj.deleted => obj'.deleted)
  /\ pc' \in {"branch", "mr"} => pc \in {"branch", "mr"}
  /\ There(obj.iid, mr) /\ ~There(obj.iid, mr') =>
       /\ pc' = "conditions"
       /\ obj'.deleted \/ (UNCHANGED nmr /\ nmr[cur].phase = "deleting")

\* Every step inside a reconcile is one of these, unless it fails or opens one.
LEMMA CopySteps ==
  ASSUME ConstantsOK, IInv, SInv, [Next]_vars, pc # "idle", UNCHANGED <<cur, faults>>,
         ~Opens(lastIID + 1)
  PROVE  CopyGoesOn
<1>1. /\ TypeOK /\ obj \in Object /\ cur \in NMR /\ cur # NoNMR /\ faults \in Nat
      /\ faults' # faults + 1
  BY DEF IInv, CopyTruthful, TypeOK, ConstantsOK
<1>2. CASE UNCHANGED <<mr, obj>> /\ (pc' = pc \/ pc' \notin {"branch", "mr"} \/ pc = "branch")
  BY <1>2 DEF CopyGoesOn
<1>3. CASE CheckSourceBranch
  BY <1>1, <1>2, <1>3 DEF CheckSourceBranch, Finish, gitlab
<1>4. CASE GetOrCreateMR
  <2>1. LookedUp /\ pc = "mr"
    BY <1>1, <1>4, LooksUpOrOpens DEF GetOrCreateMR
  <2>2. obj'.iid = obj.iid /\ obj'.deleted = obj.deleted
    BY <1>1, <2>1 DEF LookedUp, SettledMR, Object
  <2> QED BY <2>1, <2>2 DEF CopyGoesOn, LookedUp
<1>5. CASE AcceptMR
  <2>1. obj'.iid = obj.iid /\ obj'.deleted = obj.deleted /\ pc' = "conditions"
    BY <1>1, <1>5 DEF AcceptMR, Finish, Accepted, Object
  <2>2. There(obj.iid, mr) => There(obj.iid, mr')
    <3>1. /\ Advances(mr, mr')
          /\ \A j \in IID : mr'[j].removed = mr[j].removed
      BY <1>5, AcceptingTraced
    <3>2. obj.iid = 0 \/ obj.iid \in IID
      BY <1>1 DEF Object, IID, ConstantsOK
    <3> QED BY <3>1, <3>2 DEF There, Advances
  <2> QED BY <2>1, <2>2 DEF CopyGoesOn
<1>6. CASE RemoveMR
  <2>1. obj' = ConflictSettled(obj) /\ pc' = "conditions"
    BY <1>1, <1>6 DEF RemoveMR, Finish, Fault
  <2>2. obj'.iid = obj.iid /\ obj'.deleted
    BY <1>1, <2>1 DEF ConflictSettled, Object
  <2> QED BY <2>1, <2>2 DEF CopyGoesOn
<1>7. CASE ReconcileDelete \/ RemoveMROnDelete
  <2>1. /\ UNCHANGED nmr /\ nmr[cur].phase = "deleting"
        /\ obj' = obj \/ obj' = WithoutFinalizer(obj)
        /\ pc' = "conditions" \/ (pc' = "removeClosing" /\ UNCHANGED mr)
    BY <1>1, <1>7
       DEF ReconcileDelete, RemoveMROnDelete, Finish, gitlab, SInv, CopySays, Closing
  <2>2. obj'.iid = obj.iid /\ obj'.deleted = obj.deleted
    BY <1>1, <2>1 DEF WithoutFinalizer, Object
  <2> QED BY <2>1, <2>2 DEF CopyGoesOn
<1>8. CASE PatchConditions
  BY <1>2, <1>8 DEF PatchConditions, gitlab
<1>9. CASE Environment
  <2>1. CASE \/ \E n \in NMR, auto \in BOOLEAN : Create(n, auto)
             \/ \E n \in NMR : Delete(n) \/ SetAutoAccept(n)
    BY <1>2, <2>1 DEF Create, Delete, SetAutoAccept, gitlab, worker
  <2>2. CASE \/ \E i \in IID, s \in {"can_be_merged", "cannot_be_merged"} : CheckMergeability(i, s)
             \/ \E i \in IID : UserMerges(i) \/ UserCloses(i)
             \/ \E b \in Branch, h \in Head : UserPushes(b, h)
             \/ \E b \in Branch : DeleteBranch(b)
    <3>1. /\ OnlyGitLab /\ Advances(mr, mr')
          /\ \A j \in IID : mr'[j].removed = mr[j].removed
      BY <1>1, <2>2, GitLabTraced
    <3>2. obj.iid = 0 \/ obj.iid \in IID
      BY <1>1 DEF Object, IID, ConstantsOK
    <3>3. There(obj.iid, mr) => There(obj.iid, mr')
      BY <3>1, <3>2 DEF There, Advances
    <3> QED BY <3>1, <3>3 DEF CopyGoesOn, OnlyGitLab
  <2> QED BY <1>9, <2>1, <2>2 DEF Environment
<1>10. CASE UNCHANGED vars
  BY <1>2, <1>10 DEF vars
<1>11. ~(\E n \in NMR : Reconcile(n)) /\ ~Crash /\ ~PatchObject
  BY <1>1 DEF Reconcile, Crash, PatchObject, Done
<1> QED BY <1>3, <1>4, <1>5, <1>6, <1>7, <1>8, <1>9, <1>10, <1>11 DEF Next, Step

\* Such a step gains no right to open one either.
LEMMA CopyMayOpen ==
  ASSUME ConstantsOK, IInv, SInv, [Next]_vars, pc # "idle", UNCHANGED <<cur, faults>>,
         ~Opens(lastIID + 1), MayOpen(cur)'
  PROVE  MayOpen(cur)
<1>1. /\ CopyGoesOn /\ TypeOK /\ cur \in NMR /\ CopySays(pc, obj, nmr[cur], cur, mr)
      /\ cur' = cur
  BY CopySteps DEF IInv, CopyTruthful, SInv
<1>2. ~There(obj.iid, mr')
  BY <1>1 DEF MayOpen, Ahead, CopyGoesOn, Exists, There
<1>3. CASE pc' \in {"branch", "mr"}
  <2>1. ~Exists(obj.iid) /\ pc \in {"branch", "mr"}
    BY <1>1, <1>2, <1>3 DEF CopyGoesOn, Exists, There
  <2> QED BY <2>1 DEF MayOpen
<1>4. CASE pc' \notin {"branch", "mr"}
  <2>1. nmr'[cur].phase = "live" /\ ~obj'.deleted /\ ~obj.deleted
    BY <1>1, <1>4 DEF MayOpen, Ahead, CopyGoesOn
  <2>2. nmr[cur].phase = "live"
    <3>1. ~PatchObject
      BY <1>1 DEF PatchObject, Done, ConstantsOK
    <3>2. nmr[cur].phase # "none"
      BY <1>1 DEF CopySays
    <3> QED BY <1>1, <2>1, <3>1, <3>2, OnlyPatched
  <2>3. ~Exists(obj.iid)
    BY <1>1, <1>2, <2>1, <2>2 DEF CopyGoesOn, Exists, There
  <2> QED BY <2>1, <2>2, <2>3 DEF MayOpen, Ahead
<1> QED BY <1>3, <1>4

\* The object under reconcile changes only at its beginning and at its end.
LEMMA CurStep ==
  ASSUME [Next]_vars, cur' # cur
  PROVE  PatchObject \/ Crash \/ \E n \in NMR : Reconcile(n) /\ cur' = n
<1>1. ~UNCHANGED vars
  BY DEF vars
<1>2. CASE \/ CheckSourceBranch \/ GetOrCreateMR \/ AcceptMR \/ RemoveMR \/ ReconcileDelete
           \/ RemoveMROnDelete \/ PatchConditions \/ Environment
  BY <1>2
     DEF Environment, CheckSourceBranch, GetOrCreateMR, AcceptMR, RemoveMR, ReconcileDelete,
         RemoveMROnDelete, PatchConditions, Create, Delete, SetAutoAccept, CheckMergeability,
         UserMerges, UserCloses, UserPushes, DeleteBranch, worker
<1> QED BY <1>1, <1>2 DEF Next, Step, Reconcile

\* Without a failure, and unless it was just done, an object may get a merge
\* request only if it might before, or if it has none yet.
LEMMA MayOpenMoves ==
  ASSUME ConstantsOK, IInv, SInv, [Next]_vars, UNCHANGED faults, NEW n \in NMR,
         ~(Opens(lastIID + 1) /\ n = cur), MayOpen(n)'
  PROVE  MayOpen(n) \/ MRsOf(n) = {}
<1>1. faults \in Nat /\ n # NoNMR
  BY DEF IInv, TypeOK, ConstantsOK
<1>2. CASE cur # n /\ cur' # n
  BY <1>2, OthersMayOpen
<1>3. CASE cur # n /\ cur' = n
  <2>1. Reconcile(n)
    BY <1>1, <1>3, CurStep DEF PatchObject, Crash, Done
  <2> QED BY <2>1, StartMayOpen
<1>4. CASE cur = n /\ cur' = n
  <2>1. pc # "idle"
    BY <1>1, <1>4 DEF SInv
  <2> QED BY <1>4, <2>1, CopyMayOpen
<1>5. CASE cur = n /\ cur' # n
  <2>1. pc # "idle"
    BY <1>1, <1>5 DEF SInv
  <2>2. PatchObject
    BY <1>1, <1>5, <2>1, CurStep DEF Crash, Fault, Reconcile
  <2> QED BY <1>5, <2>2, PatchMayOpen
<1> QED BY <1>2, <1>3, <1>4, <1>5

\* One merge request for each failure, and one more unless another may be opened
\* before anything else fails.
Counted(n) ==
  /\ Cardinality(MRsOf(n)) <= 1 + faults
  /\ MayOpen(n) => Cardinality(MRsOf(n)) <= faults

\* Opening one uses up the right to do so, or is paid for.
LEMMA CountedOpening ==
  ASSUME ConstantsOK, IInv, SInv, TypeOK', NEW n \in NMR, Counted(n), n = cur,
         Opens(lastIID + 1), lastIID + 1 \notin MRsOf(n),
         MRsOf(n)' = MRsOf(n) \cup {lastIID + 1}
  PROVE  Counted(n)'
<1> DEFINE new == lastIID + 1
<1>1. /\ TypeOK /\ faults \in Nat /\ obj \in Object
      /\ pc = "mr" /\ pc' = "conditions" /\ cur' = cur /\ ~Exists(obj.iid)
      /\ mr' = [mr EXCEPT ![new] = NewMR(cur)]
  BY DEF Opens, IInv, TypeOK, ConstantsOK
<1>2. Cardinality(MRsOf(n)) <= faults
  BY <1>1 DEF Counted, MayOpen
<1>3. Cardinality(MRsOf(n)') = Cardinality(MRsOf(n)) + 1 /\ Cardinality(MRsOf(n)) \in Nat
  <2>1. IsFiniteSet(MRsOf(n)) /\ Cardinality(MRsOf(n)) \in Nat
    BY OwnedFinite DEF MRsOf
  <2> QED BY <2>1, FS_AddElement
<1>4. CASE faults' = faults + 1
  BY <1>1, <1>2, <1>3, <1>4 DEF Counted
<1>5. CASE obj' = [obj EXCEPT !.iid = new] /\ UNCHANGED faults
  <2>1. new \in IID
    BY DEF MRsOf
  <2>2. obj'.iid = new /\ new # 0 /\ mr'[new] = NewMR(cur)
    BY <1>1, <1>5, <2>1 DEF Object, TypeOK, IID
  <2>3. ~MayOpen(n)'
    BY <1>1, <2>2 DEF MayOpen, Ahead, Exists, NewMR
  <2> QED BY <1>1, <1>2, <1>3, <1>5, <2>3 DEF Counted
<1> QED BY <1>4, <1>5 DEF Opens

\* No step gains the right to open one without a failure.
LEMMA CountedStep ==
  ASSUME ConstantsOK, IInv, SInv, [Next]_vars, NEW n \in NMR, Counted(n)
  PROVE  Counted(n)'
<1>1. /\ TypeOK' /\ faults \in Nat /\ faults' \in {faults, faults + 1}
      /\ Cardinality(MRsOf(n)) \in Nat
  BY TypeNext, FaultsStep, OwnedFinite DEF IInv, MRsOf
<1>2. CASE MRsOf(n)' = MRsOf(n) /\ faults' = faults + 1
  BY <1>1, <1>2 DEF Counted
<1>3. CASE MRsOf(n)' = MRsOf(n) /\ faults' = faults /\ ~(Opens(lastIID + 1) /\ n = cur)
  <2>1. MayOpen(n)' => MayOpen(n) \/ MRsOf(n) = {}
    BY <1>3, MayOpenMoves
  <2>2. MRsOf(n) = {} => Cardinality(MRsOf(n)) = 0
    BY FS_EmptySet
  <2> QED BY <1>1, <1>3, <2>1, <2>2 DEF Counted
<1>4. CASE Opens(lastIID + 1) /\ n = cur /\ MRsOf(n)' # MRsOf(n)
  BY <1>1, <1>4, MRsOfStep, CountedOpening
<1>5. Opens(lastIID + 1) /\ n = cur => MRsOf(n)' # MRsOf(n)
  <2> SUFFICES ASSUME Opens(lastIID + 1), n = cur
               PROVE  lastIID + 1 \in MRsOf(n)' /\ lastIID + 1 \notin MRsOf(n)
    OBVIOUS
  <2>1. lastIID + 1 \in IID /\ mr'[lastIID + 1] = NewMR(cur)
    BY DEF Opens, IInv, TypeOK
  <2>2. mr[lastIID + 1].state = "none"
    BY <2>1 DEF IInv, Numbered, TypeOK, IID, ConstantsOK
  <2> QED BY <2>1, <2>2 DEF MRsOf, NewMR
<1> QED BY <1>1, <1>2, <1>3, <1>4, <1>5, MRsOfStep

\* Every merge request of an object beyond the first was paid for by a failure.
THEOREM FewDuplicates == Spec => []NoDuplicateMRs
<1> DEFINE AllCounted == \A n \in NMR : Counted(n)
<1>1. Init => AllCounted
  <2>1. ASSUME Init, NEW n \in NMR PROVE Cardinality(MRsOf(n)) = 0 /\ faults = 0
    <3>1. MRsOf(n) = {}
      BY <2>1 DEF Init, MRsOf, NoMR
    <3> QED BY <2>1, <3>1, FS_EmptySet DEF Init
  <2> QED BY <2>1 DEF Counted
<1>2. IInv /\ SInv /\ AllCounted /\ [Next]_vars => AllCounted'
  BY CountedStep, ConstantsOK
<1>3. AllCounted => NoDuplicateMRs
  BY DEF Counted, NoDuplicateMRs
<1> HIDE DEF AllCounted
<1> QED BY <1>1, <1>2, <1>3, Invariance, CopySaysNoLess, PTL DEF Spec

-----------------------------------------------------------------------------
(* How many open merge requests the operator loses track of.               *)

\* Every merge request has an object.
Owned == \A i \in IID : mr[i].state # "none" => mr[i].nmr \in NMR

LEMMA OwnedStep ==
  ASSUME ConstantsOK, IInv, Owned, [Next]_vars
  PROVE  Owned'
<1>1. Traced /\ TypeOK
  BY NextTraced DEF IInv
<1>2. ASSUME NEW i \in IID, mr'[i].state # "none" PROVE mr'[i].nmr \in NMR
  <2>1. CASE mr[i].state # "none"
    BY <1>1, <2>1 DEF Traced, Advances, Owned
  <2>2. CASE mr[i].state = "none"
    <3>1. Opens(i)
      BY <1>1, <1>2, <2>2 DEF Traced
    <3>2. mr'[i].nmr = cur /\ cur \in NMR
      BY <1>1, <3>1 DEF Opens, NewMR, TypeOK, IInv, CopyTruthful
    <3> QED BY <3>2
  <2> QED BY <2>1, <2>2
<1> QED BY <1>2 DEF Owned

\* The operator knows the IID of the merge request i of n.
Known(i, n) == (Stored(n) /\ nmr[n].iid = i) \/ obj.iid = i

\* As long as the reconcile goes on its copy keeps the IID it found.
LEMMA CopyKeepsIID ==
  ASSUME ConstantsOK, IInv, SInv, [Next]_vars, pc # "idle", UNCHANGED cur,
         ~Opens(lastIID + 1)
  PROVE  obj'.iid = obj.iid
<1>1. TypeOK /\ obj \in Object /\ cur # NoNMR
  BY DEF IInv, CopyTruthful, TypeOK, ConstantsOK
<1>2. ~Crash /\ ~PatchObject /\ ~(\E n \in NMR : Reconcile(n))
  BY <1>1 DEF Crash, PatchObject, Done, Reconcile
<1>3. CASE GetOrCreateMR
  <2>1. LookedUp
    BY <1>1, <1>3, LooksUpOrOpens
  <2> QED BY <1>1, <2>1 DEF LookedUp, SettledMR, Object
<1>4. CASE AcceptMR \/ RemoveMR \/ ReconcileDelete \/ RemoveMROnDelete
  <2>1. obj' \in {obj, Accepted(obj), ConflictSettled(obj), WithoutFinalizer(obj)}
    BY <1>4 DEF AcceptMR, RemoveMR, RemovalFailed, ReconcileDelete, RemoveMROnDelete, Finish
  <2> QED BY <1>1, <2>1 DEF Accepted, ConflictSettled, WithoutFinalizer, Object
<1>5. CASE CheckSourceBranch \/ PatchConditions \/ UNCHANGED vars
  BY <1>5 DEF CheckSourceBranch, PatchConditions, Finish, vars
<1>6. CASE Environment
  BY <1>6
     DEF Environment, Create, Delete, SetAutoAccept, CheckMergeability, UserMerges, UserCloses,
         UserPushes, DeleteBranch, worker
<1> QED BY <1>2, <1>3, <1>4, <1>5, <1>6 DEF Next, Step

\* The copy's merge request is lost track of only with the copy, by a failure.
LEMMA CopyKnown ==
  ASSUME ConstantsOK, IInv, SInv, [Next]_vars, NEW i \in IID, Open(i),
         obj.iid = i, ~Opens(lastIID + 1), faults' # faults + 1
  PROVE  Known(i, mr[i].nmr)'
<1> DEFINE n == cur
           s == nmr[n]
<1>1. i # 0 /\ TypeOK /\ obj \in Object
  BY DEF IInv, TypeOK, IID, ConstantsOK
<1>2. pc # "idle"
  BY <1>1 DEF SInv, NoObject
<1>3. /\ mr[i].nmr = n /\ n \in NMR /\ n # NoNMR /\ s \in Object
      /\ CopySays(pc, obj, s, n, mr)
  BY <1>1, <1>2 DEF IInv, CopyTruthful, Truthful, SInv, TypeOK, ConstantsOK
<1>4. mr'[i].nmr = n
  BY <1>3, NextTraced DEF Traced, Advances, Open
<1>5. CASE UNCHANGED cur
  BY <1>2, <1>4, <1>5, CopyKeepsIID DEF Known
<1>6. CASE PatchObject
  <2>1. /\ UNCHANGED mr /\ pc = "object"
        /\ \/ Stored(n) /\ nmr' = [nmr EXCEPT ![n] = Patched(s, obj)]
           \/ ~Stored(n)
    BY <1>6 DEF PatchObject, Fault, gitlab
  <2>2. Stored(n)
    BY <1>1, <1>3 DEF CopySays, Stored, Object
  <2>3. nmr'[n] = Patched(s, obj)
    BY <1>1, <1>3, <2>1, <2>2 DEF TypeOK
  <2>4. /\ nmr'[n].iid = i
        /\ nmr'[n].phase = IF s.phase = "deleting" /\ ~obj.finalizer THEN "gone" ELSE s.phase
    BY <1>1, <1>3, <2>3, PatchedFields
  <2>5. obj.finalizer
    BY <1>1, <1>3 DEF CopySays, Open
  <2> QED BY <1>4, <2>2, <2>4, <2>5 DEF Known, Stored
<1> QED BY <1>2, <1>5, <1>6, CurStep DEF Crash, Fault, Reconcile

\* What a stored object knows it keeps knowing.
LEMMA StoredKnown ==
  ASSUME ConstantsOK, IInv, SInv, Owned, [Next]_vars, NEW i \in IID, Open(i),
         LET n == mr[i].nmr IN Stored(n) /\ nmr[n].iid = i,
         obj.iid # i
  PROVE  Known(i, mr[i].nmr)'
<1> DEFINE n == mr[i].nmr
           s == nmr[n]
<1>1. i # 0 /\ TypeOK /\ n \in NMR /\ s \in Object /\ Stored(n) /\ s.iid = i
  BY DEF IInv, TypeOK, IID, ConstantsOK, Owned, Open
<1>2. mr'[i].nmr = n
  BY NextTraced DEF Traced, Advances, Open
<1>3. ~(PatchObject /\ cur = n)
  <2> SUFFICES ASSUME PatchObject, cur = n PROVE FALSE
    OBVIOUS
  <2>1. CopySays("object", obj, s, n, mr)
    BY DEF PatchObject, SInv
  <2> QED BY <1>1, <2>1 DEF CopySays, Open
<1>4. /\ nmr'[n].iid = i
      /\ \/ nmr'[n].phase = s.phase
         \/ s.phase = "none"
         \/ s.phase = "live" /\ nmr'[n].phase = IF s.finalizer THEN "deleting" ELSE "gone"
  BY <1>1, <1>3, OnlyPatched
<1>5. s.phase = "live" => s.finalizer
  BY <1>1 DEF SInv, StoredSays
<1> QED BY <1>1, <1>2, <1>4, <1>5 DEF Known, Stored

\* The open merge requests the operator cannot reach any more.
Leaks == {i \in IID : Leaked(i)}

\* What is open after a step that opens nothing was open before.
LEMMA OpenBefore ==
  ASSUME ConstantsOK, IInv, [Next]_vars, NEW i \in IID, Open(i)', ~Opens(i)
  PROVE  Open(i) /\ mr'[i].nmr = mr[i].nmr
<1>1. Traced /\ mr[i] \in MergeRequest
  BY NextTraced DEF IInv, TypeOK
<1>2. mr'[i].state = "opened" /\ ~mr'[i].removed
  BY DEF Open
<1>3. mr[i].state # "none"
  BY <1>1, <1>2 DEF Traced
<1> QED BY <1>1, <1>2, <1>3 DEF Open, Traced, Advances, MergeRequest

\* A step leaks no merge request, or fails and leaks one.
LEMMA LeaksStep ==
  ASSUME ConstantsOK, IInv, SInv, Owned, [Next]_vars
  PROVE  \/ Leaks' \subseteq Leaks
         \/ faults' = faults + 1 /\ \E x : Leaks' \subseteq Leaks \cup {x}
<1>1. TypeOK
  BY DEF IInv
<1>2. CASE Opens(lastIID + 1)
  <2> DEFINE new == lastIID + 1
  <2>1. ASSUME NEW i \in Leaks', i # new PROVE i \in Leaks
    <3>1. i \in IID /\ Leaked(i)'
      BY <2>1 DEF Leaks
    <3>2. Open(i) /\ mr'[i].nmr = mr[i].nmr
      BY <2>1, <3>1, OpenBefore DEF Leaked, Opens
    <3>3. obj.iid # i
      BY <1>2, <3>1, <3>2 DEF Opens, Exists, Open, IID
    <3>4. UNCHANGED nmr
      BY <1>2 DEF Opens
    <3> QED BY <3>1, <3>2, <3>3, <3>4 DEF Leaks, Leaked, Stored
  <2>2. CASE faults' = faults + 1
    BY <2>1, <2>2
  <2>3. CASE obj' = [obj EXCEPT !.iid = new]
    <3>1. new \notin Leaks'
      BY <1>1, <2>3 DEF Leaks, Leaked, TypeOK, Object
    <3> QED BY <2>1, <3>1
  <2> QED BY <1>2, <2>2, <2>3 DEF Opens
<1>3. CASE ~Opens(lastIID + 1)
  <2>1. ASSUME NEW i \in Leaks', i \notin Leaks
        PROVE  i = obj.iid /\ faults' = faults + 1
    <3>1. i \in IID /\ Leaked(i)' /\ ~Known(i, mr[i].nmr)'
      BY <2>1 DEF Leaks, Leaked, Known
    <3>2. Open(i)
      BY <1>3, <3>1, OpenBefore DEF Leaked, Opens
    <3>3. Known(i, mr[i].nmr)
      BY <2>1, <3>1, <3>2 DEF Leaks, Leaked, Known
    <3> QED BY <1>3, <3>1, <3>2, <3>3, StoredKnown, CopyKnown DEF Known
  <2> QED BY <2>1
<1> QED BY <1>2, <1>3

\* At most one open merge request is lost track of per failure.
THEOREM FewLeaks == Spec => []LeaksNeedFaults
<1> DEFINE LInv == Owned /\ LeaksNeedFaults
<1>1. Init => LInv
  <2> SUFFICES ASSUME Init PROVE LInv
    OBVIOUS
  <2>1. Owned /\ \A i \in IID : ~Leaked(i)
    BY DEF Init, Owned, Leaked, Open, NoMR
  <2>2. {i \in IID : Leaked(i)} = {}
    BY <2>1
  <2> QED BY <2>1, <2>2, FS_EmptySet DEF LeaksNeedFaults, Init
<1>2. IInv /\ SInv /\ LInv /\ [Next]_vars => LInv'
  <2> SUFFICES ASSUME IInv, SInv, LInv, [Next]_vars PROVE LInv'
    OBVIOUS
  <2>1. /\ Owned' /\ faults \in Nat /\ faults' \in {faults, faults + 1}
        /\ Leaks \subseteq IID /\ Leaks' \subseteq IID
    BY ConstantsOK, OwnedStep, FaultsStep DEF IInv, Leaks
  <2>2. /\ IsFiniteSet(Leaks) /\ Cardinality(Leaks) \in Nat /\ IsFiniteSet(Leaks')
        /\ Cardinality(Leaks') \in Nat /\ Cardinality(Leaks) <= faults
    BY <2>1, ConstantsOK, OwnedFinite DEF Leaks, LeaksNeedFaults
  <2>3. CASE Leaks' \subseteq Leaks
    <3>1. Cardinality(Leaks') <= Cardinality(Leaks)
      BY <2>2, <2>3, FS_Subset
    <3> QED BY <2>1, <2>2, <3>1 DEF Leaks, LeaksNeedFaults
  <2>4. ASSUME faults' = faults + 1, NEW x, Leaks' \subseteq Leaks \cup {x}
        PROVE  LInv'
    <3>1. /\ IsFiniteSet(Leaks \cup {x})
          /\ Cardinality(Leaks \cup {x}) \in Nat
          /\ Cardinality(Leaks \cup {x}) <= Cardinality(Leaks) + 1
      <4> HIDE DEF Leaks
      <4>1. x \in Leaks => Leaks \cup {x} = Leaks
        OBVIOUS
      <4>2. /\ IsFiniteSet(Leaks \cup {x})
            /\ x \notin Leaks => Cardinality(Leaks \cup {x}) = Cardinality(Leaks) + 1
        BY <2>2, FS_AddElement
      <4> QED BY <2>2, <4>1, <4>2
    <3>2. Cardinality(Leaks') <= Cardinality(Leaks \cup {x})
      BY <2>4, <3>1, FS_Subset
    <3> QED BY <2>1, <2>2, <2>4, <3>1, <3>2 DEF Leaks, LeaksNeedFaults
  <2> QED BY <2>3, <2>4, ConstantsOK, LeaksStep
<1>3. LInv => LeaksNeedFaults
  OBVIOUS
<1> HIDE DEF LInv
<1> QED BY <1>1, <1>2, <1>3, Invariance, CopySaysNoLess, PTL DEF Spec

-----------------------------------------------------------------------------
(* What becomes of an object that says "deleted".                          *)

\* An object that says "deleted" has the IID of a merge request that was removed.
KnowsRemoved(o, m) == o.deleted => o.iid # 0 /\ m[o.iid].removed

\* So do the stored objects and the copy.  Without it the deletion of such an
\* object could find a merge request that is still open, and remove it.
DInv ==
  /\ \A n \in NMR : KnowsRemoved(nmr[n], mr)
  /\ pc # "idle" => KnowsRemoved(obj, mr)

\* Removed for good, whatever becomes of the others.
LEMMA KnowsRemovedAdvances ==
  ASSUME ConstantsOK, NEW o \in Object, NEW n, NEW m, NEW m2, Truthful(o, n, m), Advances(m, m2),
         KnowsRemoved(o, m)
  PROVE  KnowsRemoved(o, m2)
<1>1. o.iid # 0 => o.iid \in IID
  BY DEF Object, IID, ConstantsOK
<1> QED BY <1>1 DEF KnowsRemoved, Truthful, Advances

LEMMA StoredKnowsRemoved ==
  ASSUME ConstantsOK, IInv, SInv, DInv, [Next]_vars, NEW n \in NMR
  PROVE  KnowsRemoved(nmr'[n], mr')
<1>1. /\ TypeOK /\ Advances(mr, mr') /\ Truthful(nmr[n], n, mr) /\ nmr[n] \in Object
      /\ KnowsRemoved(nmr[n], mr)
  BY NextTraced DEF Traced, IInv, StoredTruthful, TypeOK, DInv
<1>2. KnowsRemoved(nmr[n], mr')
  BY <1>1, KnowsRemovedAdvances
<1>3. CASE PatchObject /\ cur = n
  <2>1. pc # "idle" /\ UNCHANGED mr /\ nmr'[n] \in {nmr[n], Patched(nmr[n], obj)}
    BY <1>1, <1>3 DEF PatchObject, TypeOK, gitlab
  <2>2. Patched(nmr[n], obj).iid = obj.iid /\ Patched(nmr[n], obj).deleted = obj.deleted
    BY <1>1 DEF Patched, Object
  <2>3. KnowsRemoved(Patched(nmr[n], obj), mr)
    BY <2>1, <2>2 DEF DInv, KnowsRemoved
  <2> QED BY <1>2, <2>1, <2>3
<1>4. CASE ~(PatchObject /\ cur = n)
  <2>1. nmr'[n].iid = nmr[n].iid /\ nmr'[n].deleted = nmr[n].deleted
    BY <1>1, <1>4, OnlyPatched
  <2> QED BY <1>2, <2>1 DEF KnowsRemoved
<1> QED BY <1>3, <1>4

\* Only RemoveMR makes a copy say "deleted".
LEMMA SaysDeleted ==
  ASSUME ConstantsOK, IInv, SInv, [Next]_vars, pc # "idle", pc' # "idle", obj'.deleted
  PROVE  /\ UNCHANGED cur
         /\ obj.deleted \/ (pc = "remove" /\ mr' = Removed(obj.iid))
         /\ ~Opens(lastIID + 1)
<1>1. TypeOK /\ obj \in Object
  BY DEF IInv, TypeOK
<1>2. ~Crash /\ ~PatchObject /\ ~(\E n \in NMR : Reconcile(n))
  BY DEF Crash, PatchObject, Done, Reconcile
<1>3. CASE GetOrCreateMR
  <2>1. CopySays("mr", obj, nmr[cur], cur, mr) /\ UNCHANGED cur
    BY <1>3 DEF SInv, GetOrCreateMR
  <2>2. ~obj.deleted
    BY <2>1 DEF CopySays, Opening
  <2>3. CASE LookedUp
    BY <1>1, <2>2, <2>3 DEF LookedUp, SettledMR, Object
  <2>4. CASE Opens(lastIID + 1)
    BY <1>1, <2>2, <2>4 DEF Opens, Object
  <2> QED BY <1>1, <1>3, <2>3, <2>4, LooksUpOrOpens
<1>4. CASE AcceptMR \/ ReconcileDelete \/ RemoveMROnDelete
  <2>1. obj' \in {obj, Accepted(obj), WithoutFinalizer(obj)} /\ UNCHANGED cur /\ pc # "mr"
    BY <1>4 DEF AcceptMR, ReconcileDelete, RemoveMROnDelete, Finish
  <2> QED BY <1>1, <2>1 DEF Accepted, WithoutFinalizer, Object, Opens
<1>5. CASE RemoveMR
  BY <1>1, <1>5 DEF RemoveMR, RemovalFailed, Finish, Opens
<1>6. CASE CheckSourceBranch \/ PatchConditions
  BY <1>6 DEF CheckSourceBranch, PatchConditions, Finish, Opens
<1>7. CASE Environment \/ UNCHANGED vars
  <2>1. UNCHANGED <<pc, cur, obj>>
    BY <1>7
       DEF Environment, Create, Delete, SetAutoAccept, CheckMergeability, UserMerges, UserCloses,
           UserPushes, DeleteBranch, worker, vars
  <2> QED BY <2>1 DEF Opens
<1> QED BY <1>2, <1>3, <1>4, <1>5, <1>6, <1>7 DEF Next, Step

LEMMA CopyKnowsRemoved ==
  ASSUME ConstantsOK, IInv, SInv, DInv, [Next]_vars, pc' # "idle"
  PROVE  KnowsRemoved(obj', mr')
<1>1. TypeOK /\ Advances(mr, mr') /\ Traced
  BY NextTraced DEF Traced, IInv
<1>2. CASE pc = "idle"
  <2>1. PICK n \in NMR : Reconcile(n)
    BY <1>2
       DEF Next, vars, Step, Environment, Create, Delete, SetAutoAccept, CheckMergeability,
           UserMerges, UserCloses, UserPushes, DeleteBranch, worker, Crash, CheckSourceBranch,
           GetOrCreateMR, AcceptMR, RemoveMR, ReconcileDelete, RemoveMROnDelete,
           PatchConditions, PatchObject
  <2>2. /\ UNCHANGED mr
        /\ obj' \in {[nmr[n] EXCEPT !.finalizer = TRUE], [nmr[n] EXCEPT !.processed = FALSE],
                     nmr[n]}
    BY <2>1 DEF Reconcile, AddFinalizer, Finish, gitlab
  <2>3. obj'.iid = nmr[n].iid /\ obj'.deleted = nmr[n].deleted
    BY <1>1, <2>2 DEF TypeOK, Object
  <2> QED BY <2>2, <2>3 DEF DInv, KnowsRemoved
<1>3. CASE pc # "idle" /\ obj'.deleted
  <2>1. /\ UNCHANGED cur /\ ~Opens(lastIID + 1)
        /\ obj.deleted \/ (pc = "remove" /\ mr' = Removed(obj.iid))
    BY <1>3, SaysDeleted
  <2>2. obj'.iid = obj.iid
    BY <1>3, <2>1, CopyKeepsIID
  <2>3. CASE obj.deleted
    <3>1. Truthful(obj, cur, mr) /\ KnowsRemoved(obj, mr) /\ obj \in Object
      BY <1>1, <1>3 DEF IInv, CopyTruthful, DInv, TypeOK
    <3>2. KnowsRemoved(obj, mr')
      BY <1>1, <3>1, KnowsRemovedAdvances
    <3> QED BY <2>2, <2>3, <3>2 DEF KnowsRemoved
  <2>4. CASE pc = "remove" /\ mr' = Removed(obj.iid)
    <3>1. obj.iid \in IID /\ obj.iid # 0
      BY <1>1, <2>4 DEF TypeOK, IInv, CopyTruthful
    <3>2. mr'[obj.iid].removed
      BY <1>1, <2>4, <3>1 DEF Removed, TypeOK, MergeRequest
    <3> QED BY <2>2, <3>1, <3>2 DEF KnowsRemoved
  <2> QED BY <2>1, <2>3, <2>4
<1>4. CASE ~obj'.deleted
  BY <1>4 DEF KnowsRemoved
<1> QED BY <1>2, <1>3, <1>4

\* What says "deleted" knows the merge request that was removed, always.
THEOREM DeletedIsRemoved == Spec => []DInv
<1>1. Init => DInv
  BY DEF Init, DInv, KnowsRemoved, NoObject
<1>2. IInv /\ SInv /\ DInv /\ [Next]_vars => DInv'
  BY StoredKnowsRemoved, CopyKnowsRemoved, ConstantsOK DEF DInv
<1> QED BY <1>1, <1>2, Invariance, CopySaysNoLess, PTL DEF Spec

\* Unless a user does it, only AcceptMR changes the state of a merge request.
LEMMA StateStep ==
  ASSUME ConstantsOK, IInv, [Next]_vars, edits' = edits, NEW i \in IID,
         mr[i].state # "none", mr'[i].state # mr[i].state
  PROVE  pc = "accept" /\ i = obj.iid
<1>1. TypeOK /\ edits \in Nat /\ edits # edits + 1
  BY DEF IInv, TypeOK, ConstantsOK
<1>2. mr' # mr
  OBVIOUS
<1>3. ~(\E j \in IID : UserMerges(j) \/ UserCloses(j)) /\ ~(\E b \in Branch : DeleteBranch(b))
      /\ ~(\E b \in Branch, h \in Head : UserPushes(b, h))
  BY <1>1 DEF UserMerges, UserCloses, DeleteBranch, UserPushes
<1>4. \A j \in IID, s \in {"can_be_merged", "cannot_be_merged"} : ~CheckMergeability(j, s)
  BY <1>1 DEF CheckMergeability, TypeOK, MergeRequest
<1>5. CASE GetOrCreateMR
  <2>1. CreateMR
    BY <1>2, <1>5 DEF GetOrCreateMR
  <2>2. lastIID + 1 \in IID /\ mr[lastIID + 1].state = "none"
    BY <1>1, <2>1 DEF CreateMR, IInv, Numbered, TypeOK, IID, ConstantsOK
  <2>3. mr' = [mr EXCEPT ![lastIID + 1] = NewMR(cur)]
    BY <2>1 DEF CreateMR
  <2>4. mr'[i] = mr[i]
    BY <1>1, <2>2, <2>3 DEF TypeOK
  <2> QED BY <2>4
<1>6. CASE AcceptMR
  <2>1. mr' = Merged(obj.iid) /\ pc = "accept"
    BY <1>2, <1>6 DEF AcceptMR
  <2> QED BY <1>1, <2>1 DEF Merged, TypeOK, MergeRequest
<1>7. CASE RemoveMR \/ RemoveMROnDelete
  <2>1. mr' = Removed(obj.iid)
    BY <1>2, <1>7 DEF RemoveMR, RemoveMROnDelete
  <2> QED BY <1>1, <2>1 DEF Removed, TypeOK, MergeRequest
<1> QED BY <1>2, <1>3, <1>4, <1>5, <1>6, <1>7
        DEF Next, Step, Environment, vars, gitlab, Reconcile, Crash, CheckSourceBranch,
            ReconcileDelete, PatchConditions, PatchObject, Create, Delete, SetAutoAccept

\* Once an object says "deleted" nothing more is done for it: no merge request
\* is opened for it, none of those opened before is accepted or removed, and
\* its Ready stays.
THEOREM DeletedStaysFinal == Spec => DeletedIsFinal
<1> DEFINE Left(n) ==
             /\ nmr'[n].deleted /\ nmr'[n].ready = nmr[n].ready
             /\ MRsOf(n)' = MRsOf(n)
             /\ edits' = edits =>
                  \A i \in MRsOf(n) : /\ mr'[i].state = mr[i].state
                                      /\ mr'[i].removed = mr[i].removed
<1>1. ASSUME IInv, SInv, DInv, [Next]_vars, NEW n \in NMR, nmr[n].deleted
      PROVE  Left(n)
  <2>1. Promise!Lasting(nmr[n], nmr'[n])
    BY <1>1, StoredMoves, ConstantsOK DEF Keeps
  <2>2. ASSUME pc # "idle", n = cur
        PROVE  /\ pc \notin Opening /\ KnowsRemoved(obj, mr) /\ obj.deleted
    BY <1>1, <2>2 DEF SInv, CopySays, DInv
  <2>3. MRsOf(n)' = MRsOf(n)
    <3>1. ~(Opens(lastIID + 1) /\ n = cur)
      BY <2>2 DEF Opens, Opening
    <3> QED BY <1>1, <3>1, MRsOfStep, ConstantsOK
  <2>4. ASSUME NEW i \in MRsOf(n), i = obj.iid, pc # "idle" PROVE n = cur
    BY <1>1, <2>4 DEF IInv, CopyTruthful, Truthful, MRsOf, TypeOK, IID
  <2>5. ASSUME edits' = edits, NEW i \in MRsOf(n) PROVE mr'[i].state = mr[i].state
    <3>1. i \in IID /\ mr[i].state # "none"
      BY <2>5 DEF MRsOf
    <3>2. ASSUME mr'[i].state # mr[i].state PROVE FALSE
      <4>1. pc = "accept" /\ i = obj.iid
        BY <1>1, <2>5, <3>1, <3>2, StateStep, ConstantsOK
      <4> QED BY <2>2, <2>4, <2>5, <4>1 DEF Opening
    <3> QED BY <3>2
  <2>6. ASSUME NEW i \in MRsOf(n) PROVE mr'[i].removed = mr[i].removed
    <3>1. i \in IID /\ mr[i].state # "none" /\ Traced /\ TypeOK /\ TypeOK'
      BY <1>1, <2>6, NextTraced, TypeNext, ConstantsOK DEF MRsOf, IInv
    <3>2. mr[i].removed => mr'[i].removed
      BY <3>1 DEF Traced, Advances
    <3>3. ASSUME mr'[i].removed, ~mr[i].removed PROVE FALSE
      <4>1. pc # "idle" /\ i = obj.iid
        BY <3>1, <3>3 DEF Traced, Removes
      <4> QED BY <2>2, <2>4, <2>6, <3>3, <4>1 DEF KnowsRemoved
    <3>4. mr[i].removed \in BOOLEAN /\ mr'[i].removed \in BOOLEAN
      BY <3>1 DEF TypeOK, MergeRequest
    <3> QED BY <3>2, <3>3, <3>4
  <2> QED BY <1>1, <2>1, <2>3, <2>5, <2>6 DEF Promise!Lasting
<1>2. IInv /\ SInv /\ DInv /\ [Next]_vars => [\A n \in NMR : nmr[n].deleted => Left(n)]_vars
  BY <1>1
<1> QED BY <1>2, Invariance, CopySaysNoLess, DeletedIsRemoved, PTL DEF Spec, DeletedIsFinal

=============================================================================
