---------------------- MODULE NativeMergeRequestProofs ----------------------
(***************************************************************************)
(* What holds of the NativeMergeRequest controller for any number of       *)
(* objects, merge requests, failures and user edits.                       *)
(***************************************************************************)
EXTENDS NativeMergeRequest, TLAPS

-----------------------------------------------------------------------------
(* Type correctness.                                                       *)

\* Whatever a reconcile writes into it, the copy stays an object.
LEMMA ObjectType ==
  /\ \A o \in Object : /\ Accepted(o) \in Object
                        /\ SettledMR(o) \in Object
                        /\ ConflictSettled(o) \in Object
                        /\ RemovalFailed(o) \in Object
                        /\ WithoutFinalizer(o) \in Object
  /\ \A s, o \in Object : Patched(s, o) \in Object
BY DEF Object, Accepted, SettledMR, ConflictSettled, RemovalFailed, WithoutFinalizer, Patched

LEMMA DoneType ==
  ASSUME ConstantsOK, Done
  PROVE  obj' \in Object /\ cur' = NoNMR /\ pc' = "idle"
BY DEF Done, NoObject, Object, ConstantsOK

\* Whatever happens to them, merge requests stay merge requests.
LEMMA GitLabType ==
  ASSUME ConstantsOK, TypeOK
  PROVE  /\ \A i \in 0 .. MaxMR : Merged(i) \in [IID -> MergeRequest]
         /\ \A i \in 0 .. MaxMR : Removed(i) \in [IID -> MergeRequest]
         /\ \A b \in Branch : Rechecked(b) \in [IID -> MergeRequest]
         /\ \A b \in Branch : ClosedBy(b) \in [IID -> MergeRequest]
         /\ \A n \in NMR : NewMR(n) \in MergeRequest
<1> USE DEF TypeOK, MergeRequest, IID, ConstantsOK
<1>1. \A i \in 0 .. MaxMR : Merged(i) \in [IID -> MergeRequest]
  <2> SUFFICES ASSUME NEW j \in IID
               PROVE  /\ [mr[j] EXCEPT !.state = "merged"] \in MergeRequest
                      /\ [mr[j] EXCEPT !.status = "checking"] \in MergeRequest
                      /\ mr[j] \in MergeRequest
    BY DEF Merged
  <2> QED OBVIOUS
<1>2. \A i \in 0 .. MaxMR : Removed(i) \in [IID -> MergeRequest]
  BY DEF Removed
<1>3. \A b \in Branch : Rechecked(b) \in [IID -> MergeRequest]
  BY DEF Rechecked
<1>4. \A b \in Branch : ClosedBy(b) \in [IID -> MergeRequest]
  BY <1>3 DEF ClosedBy
<1>5. \A n \in NMR : NewMR(n) \in MergeRequest
  BY DEF NewMR
<1> QED BY <1>1, <1>2, <1>3, <1>4, <1>5

LEMMA TypeInit == ConstantsOK /\ Init => TypeOK
BY DEF Init, TypeOK, ConstantsOK, Object, NoObject, MergeRequest, NoMR, Head, IID

LEMMA EnvironmentType ==
  ASSUME ConstantsOK, TypeOK, Environment
  PROVE  TypeOK'
<1> USE DEF gitlab, worker
<1>1. ASSUME NEW n \in NMR, NEW auto \in BOOLEAN, Create(n, auto) PROVE TypeOK'
  <2>1. [NoObject EXCEPT !.phase = "live", !.autoAccept = auto] \in Object
    <3>1. NoObject \in Object
      BY DEF NoObject, Object, ConstantsOK
    <3>2. \A o \in Object : [o EXCEPT !.phase = "live"] \in Object
      BY DEF Object
    <3>3. \A o \in Object : /\ [o EXCEPT !.autoAccept = TRUE] \in Object
                            /\ [o EXCEPT !.autoAccept = FALSE] \in Object
      BY DEF Object
    <3> QED BY <3>1, <3>2, <3>3
  <2> QED BY <1>1, <2>1 DEF Create, TypeOK
<1>2. ASSUME NEW n \in NMR, Delete(n) \/ SetAutoAccept(n) PROVE TypeOK'
  <2>1. nmr' \in [NMR -> Object]
    <3>1. CASE Delete(n)
      BY <3>1 DEF Delete, TypeOK, Object
    <3>2. CASE SetAutoAccept(n)
      <4>1. [nmr[n] EXCEPT !.autoAccept = ~@] \in Object
        BY DEF TypeOK, Object
      <4> QED BY <3>2, <4>1 DEF SetAutoAccept, TypeOK
    <3> QED BY <1>2, <3>1, <3>2
  <2> QED BY <1>2, <2>1 DEF Delete, SetAutoAccept, TypeOK, ConstantsOK
<1>3. ASSUME NEW i \in IID, NEW s \in {"can_be_merged", "cannot_be_merged"},
             CheckMergeability(i, s)
      PROVE  TypeOK'
  BY <1>3 DEF CheckMergeability, TypeOK, MergeRequest
<1>4. ASSUME NEW i \in IID, UserMerges(i) PROVE TypeOK'
  <2>1. Merged(i) \in [IID -> MergeRequest]
    BY GitLabType DEF IID, ConstantsOK
  <2> QED BY <1>4, <2>1 DEF UserMerges, TypeOK, ConstantsOK
<1>5. ASSUME NEW i \in IID, UserCloses(i) PROVE TypeOK'
  BY <1>5 DEF UserCloses, TypeOK, MergeRequest, ConstantsOK
<1>6. ASSUME NEW b \in Branch, NEW h \in Head, UserPushes(b, h) PROVE TypeOK'
  BY <1>6, GitLabType DEF UserPushes, TypeOK, ConstantsOK
<1>7. ASSUME NEW b \in Branch, DeleteBranch(b) PROVE TypeOK'
  BY <1>7, GitLabType DEF DeleteBranch, TypeOK, Head, ConstantsOK
<1> QED BY <1>1, <1>2, <1>3, <1>4, <1>5, <1>6, <1>7 DEF Environment

LEMMA TypeNext ==
  ASSUME ConstantsOK, TypeOK, [Next]_vars
  PROVE  TypeOK'
<1> USE DEF gitlab, worker
<1>1. CASE UNCHANGED vars
  BY <1>1 DEF vars, TypeOK
<1>2. ASSUME NEW n \in NMR, Reconcile(n) PROVE TypeOK'
  BY <1>2 DEF TypeOK, Reconcile, AddFinalizer, Finish, Object
<1>3. CASE CheckSourceBranch
  BY <1>3 DEF TypeOK, CheckSourceBranch, Finish, Fault, ConstantsOK
<1>4. CASE GetOrCreateMR
  <2>1. CASE Exists(obj.iid) /\ Decide(mr[obj.iid]) /\ UNCHANGED <<mr, lastIID, faults>>
    <3>1. obj' \in Object
      <4>1. [obj EXCEPT !.hasConflict = TRUE] \in Object
        BY DEF TypeOK, Object
      <4> QED BY <2>1, <4>1, ObjectType DEF TypeOK, Decide, Finish
    <3>2. pc' \in {"accept", "remove"} => obj'.iid = obj.iid
      BY <2>1 DEF TypeOK, Object, Decide, Finish
    <3>3. obj.iid \in IID
      BY <2>1 DEF Exists, TypeOK, Object, IID, ConstantsOK
    <3>4. pc' \in {"accept", "remove", "conditions"}
      BY <2>1 DEF Decide, Finish
    <3> QED BY <1>4, <2>1, <3>1, <3>2, <3>3, <3>4 DEF TypeOK, GetOrCreateMR
  <2>2. CASE CreateMR
    <3>1. lastIID + 1 \in IID
      BY <2>2 DEF CreateMR, TypeOK, IID, ConstantsOK
    <3>2. mr' \in [IID -> MergeRequest] /\ lastIID' \in 0 .. MaxMR
      BY <2>2, <3>1 DEF CreateMR, NewMR, TypeOK, IID, MergeRequest, ConstantsOK
    <3>3. obj' \in Object
      <4>1. lastIID + 1 \in 0 .. MaxMR
        BY <3>1 DEF IID, ConstantsOK
      <4>2. \A i \in 0 .. MaxMR : [obj EXCEPT !.iid = i] \in Object
        BY DEF TypeOK, Object
      <4>3. [obj EXCEPT !.iid = lastIID + 1] \in Object
        BY <4>1, <4>2
      <4> QED BY <2>2, <4>3 DEF CreateMR, Finish, TypeOK
    <3>4. faults' \in 0 .. MaxFaults /\ pc' = "conditions"
      BY <2>2 DEF CreateMR, Finish, Fault, TypeOK, ConstantsOK
    <3> QED BY <1>4, <3>2, <3>3, <3>4 DEF GetOrCreateMR, TypeOK
  <2>3. CASE UNCHANGED <<mr, lastIID>> /\ Finish(obj) /\ (Fault \/ UNCHANGED faults)
    BY <1>4, <2>3 DEF TypeOK, GetOrCreateMR, Finish, Fault, ConstantsOK
  <2> QED BY <1>4, <2>1, <2>2, <2>3 DEF GetOrCreateMR
<1>5. CASE AcceptMR
  <2>1. mr' \in [IID -> MergeRequest]
    <3>1. CASE MayAccept(obj.iid) /\ mr' = Merged(obj.iid)
      BY <3>1, GitLabType DEF TypeOK, Object
    <3>2. CASE UNCHANGED mr
      BY <3>2 DEF TypeOK
    <3> QED BY <1>5, <3>1, <3>2 DEF AcceptMR
  <2>2. obj' \in Object
    BY <1>5, ObjectType DEF TypeOK, AcceptMR, Finish
  <2> QED BY <1>5, <2>1, <2>2 DEF TypeOK, AcceptMR, Finish, Fault, ConstantsOK
<1>6. CASE RemoveMR
  <2>1. obj.iid \in 0 .. MaxMR
    BY DEF TypeOK, Object
  <2>2. mr' \in [IID -> MergeRequest]
    BY <1>6, <2>1, GitLabType DEF RemoveMR, TypeOK
  <2>3. obj' \in Object
    BY <1>6, ObjectType DEF TypeOK, RemoveMR, Finish
  <2> QED BY <1>6, <2>2, <2>3 DEF TypeOK, RemoveMR, Finish, Fault, ConstantsOK
<1>7. CASE ReconcileDelete
  <2>1. obj' \in Object
    BY <1>7, ObjectType DEF TypeOK, ReconcileDelete, Finish
  <2>2. ~NothingToRemove(obj.iid) => obj.iid \in IID
    BY DEF NothingToRemove, Exists, TypeOK, Object, IID, ConstantsOK
  <2> QED BY <1>7, <2>1, <2>2 DEF TypeOK, ReconcileDelete, Finish, Fault, ConstantsOK
<1>8. CASE RemoveMROnDelete
  <2>1. obj.iid \in 0 .. MaxMR
    BY DEF TypeOK, Object
  <2>2. mr' \in [IID -> MergeRequest]
    BY <1>8, <2>1, GitLabType DEF RemoveMROnDelete, TypeOK
  <2>3. obj' \in Object
    BY <1>8, ObjectType DEF TypeOK, RemoveMROnDelete, Finish
  <2> QED BY <1>8, <2>2, <2>3 DEF TypeOK, RemoveMROnDelete, Finish, Fault, ConstantsOK
<1>9. CASE PatchConditions
  BY <1>9 DEF TypeOK, PatchConditions, Fault, Object, ConstantsOK
<1>10. CASE PatchObject
  <2>1. nmr' \in [NMR -> Object]
    BY <1>10, ObjectType DEF TypeOK, PatchObject
  <2> QED BY <1>10, <2>1, DoneType DEF TypeOK, PatchObject, Fault, ConstantsOK
<1>11. CASE Crash
  BY <1>11, DoneType DEF TypeOK, Crash, Fault, ConstantsOK
<1>12. CASE Environment
  BY <1>12, EnvironmentType
<1> QED BY <1>1, <1>2, <1>3, <1>4, <1>5, <1>6, <1>7, <1>8, <1>9, <1>10, <1>11, <1>12
        DEF Next, Step

\* Every variable keeps its type, for any sets of objects and branches and
\* any bounds.
THEOREM TypeCorrect == Spec => []TypeOK
<1>1. Init => TypeOK
  BY TypeInit, ConstantsOK
<1>2. TypeOK /\ [Next]_vars => TypeOK'
  BY TypeNext, ConstantsOK
<1> QED BY <1>1, <1>2, PTL DEF Spec

-----------------------------------------------------------------------------
(* The inductive invariant.  The stored object is only ever replaced by    *)
(* the worker's copy, so that whatever is to hold of the object has to     *)
(* hold of the copy too, at every step of the reconcile.                   *)

\* What object o, stored or copied, says is true of the merge requests m.
Truthful(o, n, m) ==
  /\ o.iid # 0 => m[o.iid].state # "none" /\ m[o.iid].nmr = n
  /\ o.ready => o.iid # 0 /\ m[o.iid].state = "merged" /\ ~m[o.iid].removed
  /\ o.processed => \E i \in IID : /\ m[i].state # "none" /\ m[i].nmr = n
                                   /\ m[i].state \in {"merged", "closed"} \/ m[i].removed

\* IIDs are given in order.
Numbered == \A i \in IID : i > lastIID => mr[i].state = "none"

StoredTruthful == \A n \in NMR : Truthful(nmr[n], n, mr)

\* A merge request the worker is about to accept or to remove was open when
\* it was looked up: the copy has an IID and is not Ready.
CopyTruthful ==
  pc # "idle" =>
    /\ cur \in NMR
    /\ Truthful(obj, cur, mr)
    /\ nmr[cur].ready => obj.ready
    /\ pc \in {"accept", "remove", "removeClosing"} => obj.iid # 0 /\ ~obj.ready

IInv == TypeOK /\ Numbered /\ StoredTruthful /\ CopyTruthful

\* How merge requests change: none disappears or changes owner, and what was
\* merged, closed or removed stays so.
Advances(m, m2) ==
  \A i \in IID : m[i].state # "none" =>
    /\ m2[i].state # "none" /\ m2[i].nmr = m[i].nmr
    /\ m[i].state \in {"merged", "closed"} => m2[i].state = m[i].state
    /\ m[i].removed => m2[i].removed

LEMMA TruthfulAdvances ==
  ASSUME NEW o \in Object, NEW n, NEW m, NEW m2, ConstantsOK,
         Truthful(o, n, m), Advances(m, m2),
         o.ready => ~m2[o.iid].removed
  PROVE  Truthful(o, n, m2)
<1>1. o.iid # 0 => o.iid \in IID
  BY DEF Object, IID, ConstantsOK
<1> QED BY <1>1 DEF Truthful, Advances

LEMMA GitLabAdvances ==
  ASSUME ConstantsOK, TypeOK
  PROVE  /\ Advances(mr, mr)
         /\ \A i \in 0 .. MaxMR : Open(i) => Advances(mr, Merged(i))
         /\ \A i \in 0 .. MaxMR : Advances(mr, Removed(i))
         /\ \A b \in Branch : Advances(mr, Rechecked(b)) /\ Advances(mr, ClosedBy(b))
<1> USE DEF TypeOK, MergeRequest, Advances, Open
<1>1. Advances(mr, mr)
  OBVIOUS
<1>2. \A i \in 0 .. MaxMR : Open(i) => Advances(mr, Merged(i))
  BY DEF Merged
<1>3. \A i \in 0 .. MaxMR : Advances(mr, Removed(i))
  BY DEF Removed
<1>4. \A b \in Branch : Advances(mr, Rechecked(b)) /\ Advances(mr, ClosedBy(b))
  BY DEF Rechecked, ClosedBy
<1> QED BY <1>1, <1>2, <1>3, <1>4

LEMMA InvInit == ASSUME ConstantsOK, Init PROVE IInv
BY TypeInit DEF Init, IInv, Numbered, StoredTruthful, CopyTruthful, Truthful, NoObject, NoMR

\* Users and GitLab change merge requests but remove none.
LEMMA OutsideGitLab ==
  ASSUME ConstantsOK, IInv, TypeOK', Advances(mr, mr'),
         \A i \in IID : /\ mr'[i].removed = mr[i].removed
                        /\ mr[i].state = "none" => mr'[i].state = "none",
         UNCHANGED <<nmr, lastIID, pc, cur, obj>>
  PROVE  IInv'
<1>1. Numbered'
  BY DEF IInv, Numbered
<1>2. ASSUME NEW o \in Object, NEW n, Truthful(o, n, mr) PROVE Truthful(o, n, mr')
  <2>1. o.ready => o.iid \in IID
    BY <1>2 DEF Truthful, Object, IID, ConstantsOK
  <2>2. o.ready => ~mr'[o.iid].removed
    BY <1>2, <2>1 DEF Truthful
  <2> QED BY <1>2, <2>2, TruthfulAdvances
<1>3. StoredTruthful'
  BY <1>2 DEF IInv, TypeOK, StoredTruthful
<1>4. CopyTruthful'
  BY <1>2 DEF IInv, TypeOK, CopyTruthful
<1> QED BY <1>1, <1>3, <1>4 DEF IInv

LEMMA InvEnvironment ==
  ASSUME ConstantsOK, IInv, TypeOK', Environment
  PROVE  IInv'
<1> USE DEF gitlab, worker
<1>a. TypeOK
  BY DEF IInv
<1>1. ASSUME NEW n \in NMR, NEW auto \in BOOLEAN, Create(n, auto) PROVE IInv'
  <2>1. Truthful(nmr'[n], n, mr)
    BY <1>1, <1>a DEF Create, Truthful, NoObject, TypeOK
  <2>2. StoredTruthful'
    BY <1>1, <1>a, <2>1 DEF Create, IInv, StoredTruthful, TypeOK
  <2>3. CopyTruthful'
    BY <1>1, <1>a DEF Create, NoObject, IInv, CopyTruthful, TypeOK
  <2> QED BY <1>1, <2>2, <2>3 DEF Create, IInv, Numbered
<1>2. ASSUME NEW n \in NMR, Delete(n) \/ SetAutoAccept(n) PROVE IInv'
  <2>1. \A m \in NMR : /\ nmr'[m].iid = nmr[m].iid /\ nmr'[m].ready = nmr[m].ready
                       /\ nmr'[m].processed = nmr[m].processed
    BY <1>2, <1>a DEF Delete, SetAutoAccept, TypeOK, Object
  <2>2. UNCHANGED <<mr, lastIID, pc, cur, obj>>
    BY <1>2 DEF Delete, SetAutoAccept
  <2>3. StoredTruthful' /\ CopyTruthful'
    BY <2>1, <2>2 DEF IInv, StoredTruthful, CopyTruthful, Truthful
  <2> QED BY <2>2, <2>3 DEF IInv, Numbered
<1>3. ASSUME NEW i \in IID, NEW s \in {"can_be_merged", "cannot_be_merged"},
             CheckMergeability(i, s)
      PROVE  IInv'
  <2>1. Advances(mr, mr')
    BY <1>3, <1>a DEF CheckMergeability, Open, Advances, TypeOK, MergeRequest
  <2>2. \A j \in IID : mr'[j].removed = mr[j].removed /\ mr'[j].state = mr[j].state
    BY <1>3, <1>a DEF CheckMergeability, TypeOK, MergeRequest
  <2> QED BY <1>3, <2>1, <2>2, OutsideGitLab DEF CheckMergeability
<1>4. ASSUME NEW i \in IID, UserMerges(i) PROVE IInv'
  <2>1. Advances(mr, mr')
    BY <1>4, <1>a, GitLabAdvances DEF UserMerges, MayAccept, IID, ConstantsOK
  <2>2. \A j \in IID : /\ mr'[j].removed = mr[j].removed
                       /\ mr[j].state = "none" => mr'[j].state = "none"
    BY <1>4, <1>a DEF UserMerges, MayAccept, Open, Merged, TypeOK, MergeRequest
  <2> QED BY <1>4, <2>1, <2>2, OutsideGitLab DEF UserMerges
<1>5. ASSUME NEW i \in IID, UserCloses(i) PROVE IInv'
  <2>1. Advances(mr, mr')
    BY <1>5, <1>a DEF UserCloses, Open, Advances, TypeOK, MergeRequest
  <2>2. \A j \in IID : /\ mr'[j].removed = mr[j].removed
                       /\ mr[j].state = "none" => mr'[j].state = "none"
    BY <1>5, <1>a DEF UserCloses, Open, TypeOK, MergeRequest
  <2> QED BY <1>5, <2>1, <2>2, OutsideGitLab DEF UserCloses
<1>6. ASSUME NEW b \in Branch, NEW h \in Head, UserPushes(b, h) PROVE IInv'
  <2>1. Advances(mr, mr')
    BY <1>6, <1>a, GitLabAdvances DEF UserPushes
  <2>2. \A j \in IID : /\ mr'[j].removed = mr[j].removed
                       /\ mr[j].state = "none" => mr'[j].state = "none"
    BY <1>6, <1>a DEF UserPushes, Rechecked, TypeOK, MergeRequest
  <2> QED BY <1>6, <2>1, <2>2, OutsideGitLab DEF UserPushes
<1>7. ASSUME NEW b \in Branch, DeleteBranch(b) PROVE IInv'
  <2>1. Advances(mr, mr')
    BY <1>7, <1>a, GitLabAdvances DEF DeleteBranch
  <2>2. \A j \in IID : /\ mr'[j].removed = mr[j].removed
                       /\ mr[j].state = "none" => mr'[j].state = "none"
    BY <1>7, <1>a DEF DeleteBranch, ClosedBy, Rechecked, Open, TypeOK, MergeRequest
  <2> QED BY <1>7, <2>1, <2>2, OutsideGitLab DEF DeleteBranch
<1> QED BY <1>1, <1>2, <1>3, <1>4, <1>5, <1>6, <1>7 DEF Environment

\* A step inside a reconcile that leaves the API server alone, and removes no
\* merge request that the stored object or the new copy calls Ready.
LEMMA InsideReconcile ==
  ASSUME ConstantsOK, IInv, TypeOK', pc # "idle",
         UNCHANGED <<nmr, cur>>, Advances(mr, mr'), Numbered',
         Truthful(obj', cur, mr'), obj.ready => obj'.ready,
         pc' \in {"accept", "remove", "removeClosing"} => obj'.iid # 0 /\ ~obj'.ready,
         \A n \in NMR : nmr[n].ready => ~mr'[nmr[n].iid].removed
  PROVE  IInv'
<1>1. StoredTruthful'
  BY TruthfulAdvances DEF IInv, TypeOK, StoredTruthful
<1>2. CopyTruthful'
  BY DEF IInv, CopyTruthful
<1> QED BY <1>1, <1>2 DEF IInv

\* The stored objects stay truthful while nothing is removed.
LEMMA NothingRemoved ==
  ASSUME ConstantsOK, IInv, \A i \in IID : mr'[i].removed = mr[i].removed
  PROVE  \A n \in NMR : nmr[n].ready => ~mr'[nmr[n].iid].removed
<1> SUFFICES ASSUME NEW n \in NMR, nmr[n].ready PROVE ~mr'[nmr[n].iid].removed
  OBVIOUS
<1>1. nmr[n].iid \in IID
  BY DEF IInv, TypeOK, StoredTruthful, Truthful, Object, IID, ConstantsOK
<1> QED BY <1>1 DEF IInv, StoredTruthful, Truthful

LEMMA InvCreateMR ==
  ASSUME ConstantsOK, IInv, TypeOK', GetOrCreateMR, ~Exists(obj.iid), CreateMR
  PROVE  IInv'
<1> DEFINE new == lastIID + 1
<1>1. new \in IID /\ lastIID \in Nat /\ pc # "idle" /\ TypeOK
  BY DEF CreateMR, GetOrCreateMR, IInv, TypeOK, IID, ConstantsOK
<1>2. mr[new].state = "none" /\ ~obj.ready
  BY <1>1 DEF IInv, Numbered, IID, ConstantsOK, CopyTruthful, Truthful, Exists
<1>3. /\ mr' = [mr EXCEPT ![new] = NewMR(cur)] /\ lastIID' = new
      /\ UNCHANGED <<nmr, cur>> /\ pc' = "conditions"
      /\ obj' = [obj EXCEPT !.iid = new] \/ obj' = obj
  BY DEF CreateMR, GetOrCreateMR, Finish
<1>4. Advances(mr, mr')
  BY <1>1, <1>2, <1>3 DEF Advances, TypeOK
<1>5. Numbered'
  BY <1>1, <1>3 DEF IInv, Numbered, TypeOK, IID, ConstantsOK
<1>6. Truthful(obj, cur, mr')
  BY <1>1, <1>2, <1>4, TruthfulAdvances DEF IInv, CopyTruthful, TypeOK
<1>7. Truthful(obj', cur, mr') /\ ~obj'.ready
  <2>1. CASE obj' = obj
    BY <1>2, <1>6, <2>1
  <2>2. CASE obj' = [obj EXCEPT !.iid = new]
    <3>1. mr'[new].state = "opened" /\ mr'[new].nmr = cur
      BY <1>1, <1>3 DEF NewMR, TypeOK
    <3>2. obj'.iid = new /\ obj'.ready = obj.ready /\ obj'.processed = obj.processed
      BY <1>1, <2>2 DEF TypeOK, Object
    <3> QED BY <1>2, <1>6, <3>1, <3>2 DEF Truthful
  <2> QED BY <1>3, <2>1, <2>2
<1>8. \A n \in NMR : nmr[n].ready => ~mr'[nmr[n].iid].removed
  <2> SUFFICES ASSUME NEW n \in NMR, nmr[n].ready PROVE ~mr'[nmr[n].iid].removed
    OBVIOUS
  <2>1. nmr[n].iid # new /\ ~mr[nmr[n].iid].removed
    BY <1>1, <1>2 DEF IInv, StoredTruthful, Truthful
  <2> QED BY <1>1, <1>3, <2>1 DEF TypeOK
<1> QED BY <1>1, <1>2, <1>3, <1>4, <1>5, <1>7, <1>8, InsideReconcile

LEMMA InvGetOrCreateMR ==
  ASSUME ConstantsOK, IInv, TypeOK', GetOrCreateMR
  PROVE  IInv'
<1>1. pc # "idle" /\ TypeOK /\ UNCHANGED <<nmr, cur>>
  BY DEF GetOrCreateMR, IInv
<1>2. CASE ~Exists(obj.iid) /\ CreateMR
  BY <1>2, InvCreateMR
<1>3. CASE UNCHANGED <<mr, lastIID>>
  <2>1. Advances(mr, mr') /\ Numbered'
    BY <1>1, <1>3, GitLabAdvances DEF IInv, Numbered
  <2>2. \A n \in NMR : nmr[n].ready => ~mr'[nmr[n].iid].removed
    BY <1>3, NothingRemoved
  <2>3. CASE Finish(obj)
    BY <1>1, <1>3, <2>1, <2>2, <2>3, InsideReconcile DEF Finish, IInv, CopyTruthful
  <2>4. CASE Exists(obj.iid) /\ Decide(mr[obj.iid])
    <3> DEFINE i == obj.iid
    <3>1. i \in IID /\ i # 0 /\ ~mr[i].removed /\ mr[i].state # "none"
      BY <1>1, <2>4 DEF Exists, TypeOK, Object, IID, ConstantsOK
    <3>2. Truthful(obj, cur, mr)
      BY <1>1 DEF IInv, CopyTruthful
    <3>3. CASE mr[i].state \in {"merged", "closed"} /\ Finish(SettledMR(obj))
      <4>1. /\ obj'.iid = i /\ obj'.ready = obj.ready /\ obj'.processed
            /\ pc' = "conditions"
        BY <1>1, <3>3 DEF Finish, SettledMR, TypeOK, Object
      <4>2. Truthful(obj', cur, mr')
        BY <1>3, <3>1, <3>2, <3>3, <4>1 DEF Truthful
      <4> QED BY <1>1, <2>1, <2>2, <4>1, <4>2, InsideReconcile
    <3>4. CASE mr[i].state = "opened" /\ pc' = "accept" /\ UNCHANGED obj
      BY <1>1, <1>3, <2>1, <2>2, <3>1, <3>2, <3>4, InsideReconcile DEF Truthful
    <3>5. CASE /\ mr[i].state = "opened" /\ pc' = "remove"
               /\ obj' = [obj EXCEPT !.hasConflict = TRUE]
      <4>1. obj'.iid = i /\ obj'.ready = obj.ready /\ obj'.processed = obj.processed
        BY <1>1, <3>5 DEF TypeOK, Object
      <4>2. Truthful(obj', cur, mr') /\ ~obj'.ready
        BY <1>3, <3>2, <3>5, <4>1 DEF Truthful
      <4> QED BY <1>1, <2>1, <2>2, <3>1, <4>1, <4>2, InsideReconcile
    <3> QED BY <2>3, <2>4, <3>3, <3>4, <3>5 DEF Decide
  <2> QED BY <1>2, <2>3, <2>4 DEF GetOrCreateMR
<1> QED BY <1>2, <1>3 DEF GetOrCreateMR

LEMMA InvAcceptMR ==
  ASSUME ConstantsOK, IInv, TypeOK', AcceptMR
  PROVE  IInv'
<1>1. /\ pc = "accept" /\ TypeOK /\ UNCHANGED <<nmr, cur, lastIID>> /\ pc' = "conditions"
      /\ obj' = obj \/ obj' = Accepted(obj)
  BY DEF AcceptMR, Finish, IInv
<1>2. /\ obj.iid \in IID /\ obj.iid # 0 /\ ~obj.ready /\ Truthful(obj, cur, mr)
      /\ obj.iid \in 0 .. MaxMR
  BY <1>1 DEF IInv, CopyTruthful, TypeOK, Object, IID, ConstantsOK
<1>3. CASE UNCHANGED mr /\ obj' = obj
  <2>1. Advances(mr, mr') /\ Numbered'
    BY <1>1, <1>3, GitLabAdvances DEF IInv, Numbered
  <2> QED BY <1>1, <1>2, <1>3, <2>1, NothingRemoved, InsideReconcile
<1>4. CASE MayAccept(obj.iid) /\ mr' = Merged(obj.iid)
  <2>1. Open(obj.iid) /\ Advances(mr, mr')
    BY <1>1, <1>2, <1>4, GitLabAdvances DEF MayAccept
  <2>2. \A i \in IID : /\ mr'[i].removed = mr[i].removed
                       /\ mr[i].state = "none" => mr'[i].state = "none"
    BY <1>1, <1>4, <2>1 DEF Merged, Open, TypeOK, MergeRequest
  <2>3. Numbered'
    BY <1>1, <2>2 DEF IInv, Numbered
  <2>4. Truthful(obj, cur, mr')
    BY <1>1, <1>2, <2>1, TruthfulAdvances DEF TypeOK
  <2>5. mr'[obj.iid].state = "merged" /\ ~mr'[obj.iid].removed
    BY <1>1, <1>2, <1>4, <2>1 DEF Merged, Open, TypeOK, MergeRequest
  <2>6. CASE obj' = obj
    BY <1>1, <1>2, <2>1, <2>2, <2>3, <2>4, <2>6, NothingRemoved, InsideReconcile
  <2>7. CASE obj' = Accepted(obj)
    <3>1. obj'.iid = obj.iid /\ obj'.processed = obj.processed
      BY <1>1, <2>7 DEF Accepted, TypeOK, Object
    <3>2. Truthful(obj', cur, mr')
      BY <1>2, <2>4, <2>5, <3>1 DEF Truthful
    <3> QED BY <1>1, <1>2, <2>1, <2>2, <2>3, <3>2, NothingRemoved, InsideReconcile
  <2> QED BY <1>1, <2>6, <2>7
<1> QED BY <1>3, <1>4 DEF AcceptMR, Finish

\* RemoveMR, in a reconcile whose copy is not Ready: the merge request it
\* removes is the object's own, and no object is Ready because of it.
LEMMA OwnRemoved ==
  ASSUME ConstantsOK, IInv, pc \in {"remove", "removeClosing"}, mr' = Removed(obj.iid),
         UNCHANGED lastIID
  PROVE  /\ Advances(mr, mr') /\ Numbered' /\ Truthful(obj, cur, mr')
         /\ mr'[obj.iid].removed /\ mr'[obj.iid].nmr = cur /\ mr'[obj.iid].state # "none"
         /\ \A n \in NMR : nmr[n].ready => ~mr'[nmr[n].iid].removed
<1>1. /\ obj.iid \in IID /\ obj.iid # 0 /\ ~obj.ready /\ Truthful(obj, cur, mr)
      /\ obj.iid \in 0 .. MaxMR /\ TypeOK /\ cur \in NMR /\ ~nmr[cur].ready
  BY DEF IInv, CopyTruthful, TypeOK, Object, IID, ConstantsOK
<1>2. Advances(mr, mr')
  BY <1>1, GitLabAdvances
<1>3. Numbered'
  BY <1>1 DEF IInv, Numbered, Removed, TypeOK, MergeRequest
<1>4. Truthful(obj, cur, mr')
  BY <1>1, <1>2, TruthfulAdvances DEF TypeOK
<1>5. mr'[obj.iid].removed /\ mr'[obj.iid].nmr = cur /\ mr'[obj.iid].state # "none"
  BY <1>1 DEF Removed, TypeOK, MergeRequest, Truthful
<1>6. ASSUME NEW n \in NMR, nmr[n].ready PROVE ~mr'[nmr[n].iid].removed
  <2>1. Truthful(nmr[n], n, mr) /\ n # cur
    BY <1>1, <1>6 DEF IInv, StoredTruthful
  <2>2. nmr[n].iid \in IID /\ nmr[n].iid # obj.iid /\ ~mr[nmr[n].iid].removed
    BY <1>1, <1>6, <2>1 DEF Truthful, TypeOK, Object, IID, ConstantsOK
  <2> QED BY <1>1, <2>2 DEF Removed, TypeOK
<1> QED BY <1>2, <1>3, <1>4, <1>5, <1>6

LEMMA InvRemove ==
  ASSUME ConstantsOK, IInv, TypeOK', RemoveMR \/ ReconcileDelete \/ RemoveMROnDelete
  PROVE  IInv'
<1>1. /\ TypeOK /\ UNCHANGED <<nmr, cur, lastIID>> /\ pc # "idle"
      /\ pc' = "conditions" \/ (pc' = "removeClosing" /\ ~NothingToRemove(obj.iid) /\ obj' = obj)
      /\ obj' \in {obj, ConflictSettled(obj), WithoutFinalizer(obj)}
  BY DEF RemoveMR, ReconcileDelete, RemoveMROnDelete, RemovalFailed, Finish, IInv, gitlab
<1>2. Truthful(obj, cur, mr) /\ obj \in Object /\ cur \in NMR
  BY <1>1 DEF IInv, CopyTruthful, TypeOK
<1>3. /\ WithoutFinalizer(obj).iid = obj.iid /\ ConflictSettled(obj).iid = obj.iid
      /\ WithoutFinalizer(obj).ready = obj.ready /\ ConflictSettled(obj).ready = obj.ready
      /\ WithoutFinalizer(obj).processed = obj.processed
  BY <1>2 DEF WithoutFinalizer, ConflictSettled, Object
<1>4. CASE UNCHANGED mr /\ obj' \in {obj, WithoutFinalizer(obj)}
  <2>1. Advances(mr, mr') /\ Numbered'
    BY <1>1, <1>4, GitLabAdvances DEF IInv, Numbered
  <2>2. Truthful(obj', cur, mr') /\ obj'.ready = obj.ready
    BY <1>2, <1>3, <1>4 DEF Truthful
  <2>3. pc' = "removeClosing" => obj'.iid # 0 /\ ~obj'.ready
    BY <1>1, <1>2 DEF NothingToRemove, Exists, Truthful
  <2> QED BY <1>1, <1>4, <2>1, <2>2, <2>3, NothingRemoved, InsideReconcile
<1>5. CASE mr' = Removed(obj.iid) /\ pc \in {"remove", "removeClosing"}
  <2>1. Truthful(obj', cur, mr')
    <3>1. obj.iid \in IID
      BY <1>5, <1>2 DEF IInv, CopyTruthful, Object, IID, ConstantsOK
    <3> QED BY <1>1, <1>3, <1>5, <3>1, OwnRemoved DEF Truthful
  <2>2. obj'.ready = obj.ready /\ pc' = "conditions"
    BY <1>1, <1>3, <1>5 DEF RemoveMR, RemoveMROnDelete, ReconcileDelete, Finish
  <2> QED BY <1>1, <1>5, <2>1, <2>2, OwnRemoved, InsideReconcile
<1> QED BY <1>1, <1>4, <1>5
        DEF RemoveMR, ReconcileDelete, RemoveMROnDelete, RemovalFailed, Finish, gitlab

LEMMA InvReconcile ==
  ASSUME ConstantsOK, IInv, TypeOK', NEW n \in NMR, Reconcile(n)
  PROVE  IInv'
<1> USE DEF gitlab
<1>1. /\ TypeOK /\ cur' = n /\ UNCHANGED <<nmr, mr, lastIID>>
      /\ pc' \in {"conditions", "branch", "getMR"}
      /\ obj' \in {[nmr[n] EXCEPT !.finalizer = TRUE], [nmr[n] EXCEPT !.processed = FALSE], nmr[n]}
  BY DEF Reconcile, AddFinalizer, Finish, IInv
<1>2. /\ obj'.iid = nmr[n].iid /\ obj'.ready = nmr[n].ready
      /\ obj'.processed = nmr[n].processed \/ ~obj'.processed
  BY <1>1 DEF TypeOK, Object
<1>3. Truthful(obj', n, mr)
  BY <1>2 DEF IInv, StoredTruthful, Truthful
<1> QED BY <1>1, <1>2, <1>3 DEF IInv, Numbered, StoredTruthful, CopyTruthful

LEMMA InvPatch ==
  ASSUME ConstantsOK, IInv, TypeOK', PatchConditions \/ PatchObject \/ Crash
  PROVE  IInv'
<1> USE DEF gitlab
<1>1. TypeOK /\ UNCHANGED <<mr, lastIID>> /\ pc # "idle" /\ Truthful(obj, cur, mr) /\ cur \in NMR
  BY DEF PatchConditions, PatchObject, Crash, IInv, CopyTruthful
<1>2. CASE PatchConditions
  <2>1. \A n \in NMR : /\ nmr'[n].iid = nmr[n].iid /\ nmr'[n].ready = nmr[n].ready
                       /\ \/ nmr'[n].processed = nmr[n].processed
                          \/ n = cur /\ nmr'[n].processed = obj.processed
    BY <1>1, <1>2 DEF PatchConditions, TypeOK, Object
  <2>2. pc' = "object" /\ UNCHANGED <<cur, obj>>
    BY <1>2 DEF PatchConditions
  <2>3. StoredTruthful'
    BY <1>1, <2>1 DEF IInv, StoredTruthful, Truthful
  <2>4. CopyTruthful'
    BY <1>1, <2>1, <2>2 DEF IInv, CopyTruthful
  <2> QED BY <1>1, <2>3, <2>4 DEF IInv, Numbered
<1>3. CASE PatchObject
  <2>1. \A n \in NMR : \/ nmr'[n] = nmr[n]
                       \/ n = cur /\ nmr'[n] = Patched(nmr[n], obj)
    BY <1>1, <1>3 DEF PatchObject, TypeOK
  <2>2. /\ Patched(nmr[cur], obj).iid = obj.iid /\ Patched(nmr[cur], obj).ready = obj.ready
        /\ Patched(nmr[cur], obj).processed = nmr[cur].processed
    BY <1>1 DEF Patched, TypeOK, Object
  <2>3. Truthful(Patched(nmr[cur], obj), cur, mr)
    BY <1>1, <2>2 DEF IInv, StoredTruthful, Truthful
  <2>4. StoredTruthful'
    BY <1>1, <2>1, <2>3 DEF IInv, StoredTruthful
  <2>5. pc' = "idle"
    BY <1>3 DEF PatchObject, Done
  <2> QED BY <1>1, <2>4, <2>5 DEF IInv, Numbered, CopyTruthful
<1>4. CASE Crash
  BY <1>1, <1>4 DEF Crash, Done, IInv, Numbered, StoredTruthful, CopyTruthful
<1> QED BY <1>2, <1>3, <1>4

LEMMA InvNext == ASSUME ConstantsOK, IInv, [Next]_vars PROVE IInv'
<1>1. TypeOK'
  BY TypeNext DEF IInv
<1>2. CASE UNCHANGED vars
  BY <1>2 DEF vars, IInv, TypeOK, Numbered, StoredTruthful, CopyTruthful
<1>3. CASE CheckSourceBranch
  <2>1. UNCHANGED <<nmr, mr, lastIID, cur, obj>> /\ pc # "idle" /\ pc' \in {"mr", "conditions"}
    BY <1>3 DEF CheckSourceBranch, Finish, gitlab
  <2> QED BY <1>1, <2>1 DEF IInv, Numbered, StoredTruthful, CopyTruthful
<1> QED BY <1>1, <1>2, <1>3, InvReconcile, InvGetOrCreateMR, InvAcceptMR, InvRemove,
           InvPatch, InvEnvironment
        DEF Next, Step

\* The invariant that carries the others: at every step of a reconcile what
\* the stored objects and the copy say is true of GitLab.
THEOREM Invariance == Spec => []IInv
<1>1. Init => IInv
  BY InvInit, ConstantsOK
<1>2. IInv /\ [Next]_vars => IInv'
  BY InvNext, ConstantsOK
<1> QED BY <1>1, <1>2, PTL DEF Spec

\* Status.Ready, which the Merge controller reads as "merged", is stored only
\* of a merge request that was merged, whatever fails and whoever interferes.
THEOREM ReadyIsMerged == Spec => []ReadyMeansMerged
<1>1. IInv => ReadyMeansMerged
  BY DEF IInv, StoredTruthful, Truthful, ReadyMeansMerged
<1> QED BY <1>1, Invariance, PTL

\* The IID an object stores is of a merge request that was opened for it.
THEOREM OwnMergeRequest == Spec => []OwnsItsMR
<1>1. IInv => OwnsItsMR
  <2> SUFFICES ASSUME IInv, NEW n \in NMR, nmr[n].iid # 0
               PROVE  nmr[n].iid \in MRsOf(n)
    BY DEF OwnsItsMR
  <2>1. nmr[n].iid \in IID
    BY ConstantsOK DEF IInv, TypeOK, Object, IID, ConstantsOK
  <2> QED BY <2>1 DEF IInv, StoredTruthful, Truthful, MRsOf
<1> QED BY <1>1, Invariance, PTL

\* An object looks processed only once a merge request of its own was merged,
\* closed or removed.
THEOREM ProcessedIsSettled == Spec => []ProcessedMeansSettled
<1>1. IInv => ProcessedMeansSettled
  BY DEF IInv, StoredTruthful, Truthful, ProcessedMeansSettled, MRsOf
<1> QED BY <1>1, Invariance, PTL

=============================================================================
