------------------------- MODULE NativeMergeRequest -------------------------
(***************************************************************************)
(* The NativeMergeRequest controller: one worker that reconciles the       *)
(* NativeMergeRequest objects of the cluster with the merge requests of    *)
(* one GitLab project.  A reconcile is not atomic.  It reads the object,   *)
(* calls GitLab one to three times, and its deferred patch writes the      *)
(* conditions first and the rest of the object (finalizer, status) in a    *)
(* second API call; between any two of those steps users, GitLab and the   *)
(* Merge controller may act, a call may fail before or after it took       *)
(* effect, and the process may crash.                                      *)
(***************************************************************************)
EXTENDS Naturals, FiniteSets

CONSTANTS
  NMR,        \* names of NativeMergeRequest objects
  NoNMR,      \* not a name: the idle worker
  Branch,     \* branches of the project
  Source,     \* Spec.SourceBranch of each object
  Target,     \* Spec.TargetBranch of each object
  Checked,    \* objects whose Spec.CheckSourceBranchMessage is not empty
  MaxMR,      \* bound: merge requests GitLab numbers, from 1
  MaxFaults,  \* bound: failed calls, lost answers and crashes
  MaxEdits    \* bound: pushes, branch deletions, closures by users

ASSUME ConstantsOK ==
  /\ NoNMR \notin NMR
  /\ Source \in [NMR -> Branch]
  /\ Target \in [NMR -> Branch]
  /\ Checked \subseteq NMR
  /\ MaxMR \in Nat /\ MaxFaults \in Nat /\ MaxEdits \in Nat

VARIABLES
  nmr,        \* the API server: object name -> Object
  mr,         \* GitLab: IID -> MergeRequest
  lastIID,    \* GitLab: the IID given last
  heads,      \* GitLab: branch -> what its head commit message says
  pc,         \* the worker: the step of the reconcile it is in
  cur,        \* the worker: the object it reconciles
  obj,        \* the worker: its copy of the object, patched at the end
  faults,     \* failures so far
  edits       \* user edits so far

gitlab == <<mr, lastIID, heads>>
worker == <<pc, cur, obj>>
vars == <<nmr, mr, lastIID, heads, pc, cur, obj, faults, edits>>

IID == 1 .. MaxMR

\* iid = 0 is the empty Status.IID, which parseIID reads as 0.  processed is
\* whether the Ready condition, the summary of the others, is True.
Object ==
  [phase: {"none", "live", "deleting", "gone"}, finalizer: BOOLEAN,
   autoAccept: BOOLEAN, iid: 0 .. MaxMR, ready: BOOLEAN,
   hasConflict: BOOLEAN, deleted: BOOLEAN, processed: BOOLEAN]

\* nmr is the object the operator opened the merge request for; removed
\* keeps the state a deleted merge request had.
MergeRequest ==
  [state: {"none", "opened", "merged", "closed"}, removed: BOOLEAN,
   status: {"checking", "can_be_merged", "cannot_be_merged"},
   nmr: NMR \cup {NoNMR}]

Head == {"absent", "plain", "okok"}

NoObject ==
  [phase |-> "none", finalizer |-> FALSE, autoAccept |-> FALSE, iid |-> 0,
   ready |-> FALSE, hasConflict |-> FALSE, deleted |-> FALSE,
   processed |-> FALSE]

NoMR ==
  [state |-> "none", removed |-> FALSE, status |-> "checking", nmr |-> NoNMR]

Init ==
  /\ nmr = [n \in NMR |-> NoObject]
  /\ mr = [i \in IID |-> NoMR]
  /\ lastIID = 0
  /\ heads = [b \in Branch |-> "plain"]
  /\ pc = "idle" /\ cur = NoNMR /\ obj = NoObject
  /\ faults = 0 /\ edits = 0

-----------------------------------------------------------------------------
(* GitLab, as the client of pkg/clients/gitclient uses it.                 *)

Open(i) == mr[i].state = "opened" /\ ~mr[i].removed

\* Variant: a merge request that is no longer open counts as not found.
ExistsOpen(i) == i # 0 /\ Open(i)

Exists(i) == i # 0 /\ mr[i].state # "none" /\ ~mr[i].removed

SamePair(n, m) == Source[n] = Source[m] /\ Target[n] = Target[m]

\* GitLab refuses a second open merge request for the same two branches.
MayCreate(n) ==
  /\ heads[Source[n]] # "absent" /\ heads[Target[n]] # "absent"
  /\ \A i \in IID : Open(i) => ~SamePair(mr[i].nmr, n)

MayAccept(i) ==
  /\ Open(i) /\ mr[i].status = "can_be_merged"
  /\ heads[Source[mr[i].nmr]] # "absent" /\ heads[Target[mr[i].nmr]] # "absent"

\* Merging moves the target's head: GitLab checks the others on it again.
Merged(i) ==
  [j \in IID |->
     IF j = i THEN [mr[j] EXCEPT !.state = "merged"]
     ELSE IF Open(j) /\ Target[mr[j].nmr] = Target[mr[i].nmr]
          THEN [mr[j] EXCEPT !.status = "checking"]
          ELSE mr[j]]

Removed(i) == [mr EXCEPT ![i].removed = TRUE]

\* The merge requests after branch b moved.
Rechecked(b) ==
  [j \in IID |->
     IF Open(j) /\ b \in {Source[mr[j].nmr], Target[mr[j].nmr]}
     THEN [mr[j] EXCEPT !.status = "checking"]
     ELSE mr[j]]

\* Deleting a branch closes the merge requests it is the source of.
ClosedBy(b) ==
  [j \in IID |->
     IF Open(j) /\ b = Source[mr[j].nmr]
     THEN [mr[j] EXCEPT !.state = "closed"]
     ELSE Rechecked(b)[j]]

-----------------------------------------------------------------------------
(* The worker.                                                             *)

Fault == faults < MaxFaults /\ faults' = faults + 1

\* The reconcile returns with the copy o: the deferred patch comes next.
Finish(o) == pc' = "conditions" /\ obj' = o

Done == pc' = "idle" /\ cur' = NoNMR /\ obj' = NoObject

Stored(n) == nmr[n].phase \in {"live", "deleting"}

\* Variant: the finalizer is added together with the rest of the work.
AddAtOnce(n) ==
  pc' = "branch" /\ obj' = [nmr[n] EXCEPT !.processed = FALSE, !.finalizer = TRUE]

\* Without the finalizer a reconcile only adds it, and comes back.
AddFinalizer(n) == Finish([nmr[n] EXCEPT !.finalizer = TRUE])

\* Variant: no early return for an object whose merge request was removed.
NeverLeftAlone(o) == FALSE

LeftAlone(o) == o.deleted

\* Reads the object.  An object whose merge request was removed after a
\* conflict is left alone for good; else the conditions restart from False.
Reconcile(n) ==
  /\ pc = "idle" /\ Stored(n)
  /\ cur' = n
  /\ \/ nmr[n].phase = "live" /\ ~nmr[n].finalizer /\ AddFinalizer(n)
     \/ /\ nmr[n].phase = "live" /\ nmr[n].finalizer /\ ~LeftAlone(nmr[n])
        /\ pc' = "branch" /\ obj' = [nmr[n] EXCEPT !.processed = FALSE]
     \/ nmr[n].phase = "deleting" /\ pc' = "getMR" /\ obj' = nmr[n]
  /\ UNCHANGED <<nmr, gitlab, faults, edits>>

SourceReady(n) ==
  /\ heads[Source[n]] # "absent"
  /\ n \in Checked => heads[Source[n]] = "okok"

\* GetBranch, and the check of the head commit's message.
CheckSourceBranch ==
  /\ pc = "branch"
  /\ \/ /\ SourceReady(cur) /\ pc' = "mr" /\ UNCHANGED <<obj, faults>>
     \/ ~SourceReady(cur) /\ Finish(obj) /\ UNCHANGED faults
     \/ Fault /\ Finish(obj)
  /\ UNCHANGED <<nmr, gitlab, cur, edits>>

\* Variant: a merge request that was closed counts as accepted too.
SettledReady(o) == [o EXCEPT !.processed = TRUE, !.ready = TRUE]

\* Merged or closed: only the condition, Status.Ready stays as it is.
SettledMR(o) == [o EXCEPT !.processed = TRUE]

\* Variant: a conflict is only waited out.
NeverConflicting(m) == FALSE

Conflicting(m) == m.status = "cannot_be_merged"

\* The switch on the state of the merge request that was found.
Decide(m) ==
  \/ ~obj.autoAccept /\ Finish(obj)
  \/ obj.autoAccept /\ m.state \in {"merged", "closed"} /\ Finish(SettledMR(obj))
  \/ /\ obj.autoAccept /\ m.state = "opened"
     /\ \/ m.status = "can_be_merged" /\ pc' = "accept" /\ UNCHANGED obj
        \/ Conflicting(m) /\ pc' = "remove" /\ obj' = [obj EXCEPT !.hasConflict = TRUE]
        \/ m.status # "can_be_merged" /\ ~Conflicting(m) /\ Finish(obj)

NewMR(n) ==
  [state |-> "opened", removed |-> FALSE, status |-> "checking", nmr |-> n]

\* Variant: an open merge request for the same branches is adopted.
CreateOrAdoptMR ==
  \/ \E i \in IID :
       /\ Open(i) /\ SamePair(mr[i].nmr, cur)
       /\ Finish([obj EXCEPT !.iid = i]) /\ UNCHANGED <<mr, lastIID, faults>>
  \/ /\ MayCreate(cur) /\ lastIID < MaxMR
     /\ lastIID' = lastIID + 1
     /\ mr' = [mr EXCEPT ![lastIID + 1] = NewMR(cur)]
     /\ \/ Finish([obj EXCEPT !.iid = lastIID + 1]) /\ UNCHANGED faults
        \/ Fault /\ Finish(obj)

\* GetOrCreateMR looks the merge request up by the IID of the status only:
\* an IID that was never stored is not found again.
CreateMR ==
  /\ MayCreate(cur) /\ lastIID < MaxMR
  /\ lastIID' = lastIID + 1
  /\ mr' = [mr EXCEPT ![lastIID + 1] = NewMR(cur)]
  /\ \/ Finish([obj EXCEPT !.iid = lastIID + 1]) /\ UNCHANGED faults
     \/ Fault /\ Finish(obj)

GetOrCreateMR ==
  /\ pc = "mr"
  /\ \/ Exists(obj.iid) /\ Decide(mr[obj.iid]) /\ UNCHANGED <<mr, lastIID, faults>>
     \/ ~Exists(obj.iid) /\ CreateMR
     \/ /\ ~Exists(obj.iid) /\ ~MayCreate(cur)
        /\ Finish(obj) /\ UNCHANGED <<mr, lastIID, faults>>
     \/ Fault /\ Finish(obj) /\ UNCHANGED <<mr, lastIID>>
  /\ UNCHANGED <<nmr, heads, cur, edits>>

Accepted(o) == [o EXCEPT !.ready = TRUE]

AcceptMR ==
  /\ pc = "accept"
  /\ \/ /\ MayAccept(obj.iid) /\ mr' = Merged(obj.iid)
        /\ \/ Finish(Accepted(obj)) /\ UNCHANGED faults
           \/ Fault /\ Finish(obj)
     \/ ~MayAccept(obj.iid) /\ Finish(obj) /\ UNCHANGED <<mr, faults>>
     \/ Fault /\ Finish(obj) /\ UNCHANGED mr
  /\ UNCHANGED <<nmr, lastIID, heads, cur, edits>>

ConflictSettled(o) == [o EXCEPT !.deleted = TRUE, !.processed = TRUE]

\* Variant: RemoveMR's error is ignored.
RemovalIgnored(o) == ConflictSettled(o)

\* RemoveMR failed, or its answer was lost.
RemovalFailed(o) == o

\* hasConflict is set in the copy before RemoveMR is called, whatever it answers.
RemoveMR ==
  /\ pc = "remove"
  /\ \/ /\ mr' = Removed(obj.iid)
        /\ \/ Finish(ConflictSettled(obj)) /\ UNCHANGED faults
           \/ Fault /\ Finish(RemovalFailed(obj))
     \/ Fault /\ Finish(RemovalFailed(obj)) /\ UNCHANGED mr
  /\ UNCHANGED <<nmr, lastIID, heads, cur, edits>>

\* Variant: an object that never got a merge request keeps its finalizer.
FinalizerKept(o) == [o EXCEPT !.finalizer = o.iid = 0]

WithoutFinalizer(o) == [o EXCEPT !.finalizer = FALSE]

\* Variant: whether a merge request was found is not asked for.
ClosedOrMerged(i) == Exists(i) /\ mr[i].state # "opened"

\* Not found, closed or merged.
NothingToRemove(i) == Exists(i) => mr[i].state # "opened"

\* reconcileDelete: GetMergeRequest, then RemoveMR unless closed or merged.
ReconcileDelete ==
  /\ pc = "getMR"
  /\ \/ ~NothingToRemove(obj.iid) /\ pc' = "removeClosing" /\ UNCHANGED <<obj, faults>>
     \/ NothingToRemove(obj.iid) /\ Finish(WithoutFinalizer(obj)) /\ UNCHANGED faults
     \/ Fault /\ Finish(obj)
  /\ UNCHANGED <<nmr, gitlab, cur, edits>>

RemoveMROnDelete ==
  /\ pc = "removeClosing"
  /\ \/ /\ mr' = Removed(obj.iid)
        /\ \/ Finish(WithoutFinalizer(obj)) /\ UNCHANGED faults
           \/ Fault /\ Finish(obj)
     \/ Fault /\ Finish(obj) /\ UNCHANGED mr
  /\ UNCHANGED <<nmr, lastIID, heads, cur, edits>>

\* patchHelper.Patch, first call: the conditions.
PatchConditions ==
  /\ pc = "conditions" /\ pc' = "object"
  /\ \/ /\ Stored(cur) /\ nmr' = [nmr EXCEPT ![cur].processed = obj.processed]
        /\ UNCHANGED faults
     \/ ~Stored(cur) /\ UNCHANGED <<nmr, faults>>
     \/ Fault /\ UNCHANGED nmr
  /\ UNCHANGED <<gitlab, cur, obj, edits>>

\* What the second call stores over s: the fields the reconcile may change.
\* autoAccept is the Merge controller's and is not in the patch.
Patched(s, o) ==
  [s EXCEPT !.phase = IF s.phase = "deleting" /\ ~o.finalizer THEN "gone" ELSE @,
            !.finalizer = o.finalizer, !.iid = o.iid, !.ready = o.ready,
            !.hasConflict = o.hasConflict, !.deleted = o.deleted]

\* patchHelper.Patch, second call: metadata and status.  It is attempted
\* whatever became of the first.
PatchObject ==
  /\ pc = "object" /\ Done
  /\ \/ /\ Stored(cur) /\ nmr' = [nmr EXCEPT ![cur] = Patched(@, obj)]
        /\ UNCHANGED faults
     \/ ~Stored(cur) /\ UNCHANGED <<nmr, faults>>
     \/ Fault /\ UNCHANGED nmr
  /\ UNCHANGED <<gitlab, edits>>

\* The process dies and restarts: only the copy is lost.
Crash ==
  /\ pc # "idle" /\ Fault /\ Done
  /\ UNCHANGED <<nmr, gitlab, edits>>

-----------------------------------------------------------------------------
(* The Merge controller, GitLab and its users.                             *)

Create(n, auto) ==
  /\ nmr[n].phase = "none"
  /\ nmr' = [nmr EXCEPT ![n] = [NoObject EXCEPT !.phase = "live", !.autoAccept = auto]]
  /\ UNCHANGED <<gitlab, worker, faults, edits>>

\* Without a finalizer the API server drops the object at once.
Delete(n) ==
  /\ nmr[n].phase = "live"
  /\ nmr' = [nmr EXCEPT ![n].phase = IF nmr[n].finalizer THEN "deleting" ELSE "gone"]
  /\ UNCHANGED <<gitlab, worker, faults, edits>>

SetAutoAccept(n) ==
  /\ Stored(n) /\ edits < MaxEdits /\ edits' = edits + 1
  /\ nmr' = [nmr EXCEPT ![n].autoAccept = ~@]
  /\ UNCHANGED <<gitlab, worker, faults>>

\* GitLab finishes its asynchronous check of a merge request.
CheckMergeability(i, s) ==
  /\ Open(i) /\ mr[i].status = "checking" /\ s # "checking"
  /\ mr' = [mr EXCEPT ![i].status = s]
  /\ UNCHANGED <<nmr, lastIID, heads, worker, faults, edits>>

UserMerges(i) ==
  /\ MayAccept(i) /\ edits < MaxEdits /\ edits' = edits + 1
  /\ mr' = Merged(i)
  /\ UNCHANGED <<nmr, lastIID, heads, worker, faults>>

UserCloses(i) ==
  /\ Open(i) /\ edits < MaxEdits /\ edits' = edits + 1
  /\ mr' = [mr EXCEPT ![i].state = "closed"]
  /\ UNCHANGED <<nmr, lastIID, heads, worker, faults>>

\* A push, which also restores a branch that was deleted.  The message is
\* told apart only where an object checks it.
UserPushes(b, h) ==
  /\ h = "plain" \/ (h = "okok" /\ \E n \in Checked : Source[n] = b)
  /\ edits < MaxEdits /\ edits' = edits + 1
  /\ heads' = [heads EXCEPT ![b] = h]
  /\ mr' = Rechecked(b)
  /\ UNCHANGED <<nmr, lastIID, worker, faults>>

DeleteBranch(b) ==
  /\ heads[b] # "absent" /\ edits < MaxEdits /\ edits' = edits + 1
  /\ heads' = [heads EXCEPT ![b] = "absent"]
  /\ mr' = ClosedBy(b)
  /\ UNCHANGED <<nmr, lastIID, worker, faults>>

-----------------------------------------------------------------------------

Step ==
  \/ CheckSourceBranch \/ GetOrCreateMR \/ AcceptMR \/ RemoveMR
  \/ ReconcileDelete \/ RemoveMROnDelete
  \/ PatchConditions \/ PatchObject

Environment ==
  \/ \E n \in NMR, auto \in BOOLEAN : Create(n, auto)
  \/ \E n \in NMR : Delete(n) \/ SetAutoAccept(n)
  \/ \E i \in IID, s \in {"can_be_merged", "cannot_be_merged"} : CheckMergeability(i, s)
  \/ \E i \in IID : UserMerges(i) \/ UserCloses(i)
  \/ \E b \in Branch, h \in Head : UserPushes(b, h)
  \/ \E b \in Branch : DeleteBranch(b)

Next ==
  \/ \E n \in NMR : Reconcile(n)
  \/ Step
  \/ Crash
  \/ Environment

\* The work queue serves every object again and again (requests are requeued
\* after an error or a delay, and the informer resyncs); a reconcile that
\* started goes on; GitLab finishes its checks.
Fairness ==
  /\ \A n \in NMR : SF_vars(Reconcile(n))
  /\ WF_vars(Step)
  /\ \A i \in IID :
       WF_vars(\E s \in {"can_be_merged", "cannot_be_merged"} : CheckMergeability(i, s))

Spec == Init /\ [][Next]_vars

FairSpec == Spec /\ Fairness

-----------------------------------------------------------------------------

\* The types, and what the calls take: a merge request is only ever accepted
\* or removed by an IID that GitLab gave, never by the 0 that parseIID reads
\* in the status of an object whose IID was not stored.
TypeOK ==
  /\ nmr \in [NMR -> Object]
  /\ mr \in [IID -> MergeRequest]
  /\ lastIID \in 0 .. MaxMR
  /\ heads \in [Branch -> Head]
  /\ pc \in {"idle", "branch", "mr", "accept", "remove", "getMR",
             "removeClosing", "conditions", "object"}
  /\ cur \in NMR \cup {NoNMR}
  /\ obj \in Object
  /\ pc \in {"accept", "remove", "removeClosing"} => obj.iid \in IID
  /\ faults \in 0 .. MaxFaults
  /\ edits \in 0 .. MaxEdits

\* The merge requests the operator opened for n.
MRsOf(n) == {i \in IID : mr[i].state # "none" /\ mr[i].nmr = n}

\* Status.Ready, which the Merge controller takes for "merged", is only ever
\* stored for a merge request that was merged, whatever fails in between.
ReadyMeansMerged ==
  \A n \in NMR : nmr[n].ready => nmr[n].iid # 0 /\ mr[nmr[n].iid].state = "merged"

\* The IID an object stores is of a merge request opened for that very
\* object: two objects for the same branches never act on each other's.
OwnsItsMR ==
  \A n \in NMR : nmr[n].iid # 0 => nmr[n].iid \in MRsOf(n)

\* The Ready condition is True only once some merge request of the object
\* was merged, closed, or removed after a conflict: a crash or a failed
\* patch never makes an object look processed while nothing happened.
ProcessedMeansSettled ==
  \A n \in NMR : nmr[n].processed =>
    \E i \in MRsOf(n) : mr[i].state \in {"merged", "closed"} \/ mr[i].removed

\* GetOrCreateMR is retried over and over, but every merge request of an
\* object beyond the first was paid for by a failure.
NoDuplicateMRs ==
  \A n \in NMR : Cardinality(MRsOf(n)) <= 1 + faults

\* An open merge request the operator can no longer reach: no object and no
\* reconcile under way knows its IID, so that nothing will ever remove it.
Leaked(i) ==
  /\ Open(i)
  /\ ~(Stored(mr[i].nmr) /\ nmr[mr[i].nmr].iid = i)
  /\ obj.iid # i

\* At most one merge request leaks per failure; none in a run without.
LeaksNeedFaults == Cardinality({i \in IID : Leaked(i)}) <= faults

\* Once Status.Deleted is stored the operator is done with the object: it
\* opens no merge request for it and accepts or removes none of those it
\* opened, not even when the object itself is deleted.  What becomes of them
\* then is what users do, which edits counts.
DeletedIsFinal ==
  [][\A n \in NMR :
       nmr[n].deleted =>
         /\ nmr'[n].deleted /\ nmr'[n].ready = nmr[n].ready
         /\ MRsOf(n)' = MRsOf(n)
         /\ edits' = edits =>
              \A i \in MRsOf(n) : /\ mr'[i].state = mr[i].state
                                  /\ mr'[i].removed = mr[i].removed]_vars

\* What others can see of an object, and what became of its merge requests.
Published ==
  [n \in NMR |->
     [phase |-> nmr[n].phase, autoAccept |-> nmr[n].autoAccept,
      ready |-> nmr[n].ready, hasConflict |-> nmr[n].hasConflict,
      deleted |-> nmr[n].deleted, processed |-> nmr[n].processed]]

History ==
  [n \in NMR |->
     ({mr[i].state : i \in MRsOf(n)} \cap {"merged", "closed"})
       \cup (IF \E i \in MRsOf(n) : mr[i].removed THEN {"removed"} ELSE {})]

Promise == INSTANCE NMRPromise WITH view <- Published, past <- History

\* The controller keeps the promise the Merge controller builds on: what an
\* object says of its merge requests is founded on what happened to them,
\* and what counts for a release is never taken back.
KeepsPromise == Promise!Spec

\* A merge request in the way: open for the same branches as n, but not n's.
Blocked(n) ==
  \E i \in IID : Open(i) /\ SamePair(mr[i].nmr, n) /\ nmr[n].iid # i

\* What the Merge controller waits for: the Ready condition is True.
Settled(n) == nmr[n].processed

\* The report was lost: the merge request was removed after a conflict, the
\* patch of the conditions failed and that of the status, which stores
\* Deleted, did not.  Every later reconcile then returns before it sets a
\* condition, so that Ready stays False for good.
Unreported(n) == nmr[n].deleted /\ ~nmr[n].processed /\ faults > 0

\* With finitely many failures and user edits, every object to be accepted
\* automatically is reported as Ready in the end, unless it waits for its
\* users (no branch, no agreed commit message), another open merge request
\* for the same branches stands in the way, or a failure hit the one report
\* that is never repeated (Unreported).
Settles ==
  \A n \in NMR :
    (nmr[n].phase = "live") ~>
      \/ Settled(n) \/ Unreported(n) \/ Blocked(n)
      \/ nmr[n].phase # "live" \/ ~nmr[n].autoAccept
      \/ ~SourceReady(n) \/ heads[Target[n]] = "absent"

\* What the README says of reconciling, "until the desired state is reached",
\* for a conflict: once its merge request is removed the object is reported
\* as Ready, whatever failed before.
ConflictsAreReported ==
  \A n \in NMR : (nmr[n].phase = "live" /\ nmr[n].deleted) ~>
                    (Settled(n) \/ nmr[n].phase # "live")

\* An object under deletion loses its finalizer in the end.
DeletionCompletes ==
  \A n \in NMR : (nmr[n].phase = "deleting") ~> (nmr[n].phase = "gone")

=============================================================================
