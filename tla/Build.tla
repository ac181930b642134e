------------------------------- MODULE Build -------------------------------
(***************************************************************************)
(* The Build controller: one worker that keeps, for each repository a      *)
(* Build names, a Merge object with the branches to be released, and sums  *)
(* up whether they are Ready.                                              *)
(*                                                                         *)
(* A reconcile reads the Build, lists the Merge objects with its label,    *)
(* and creates, deletes and patches Merge objects one call at a time after *)
(* what it read; the Build is patched at the end, the conditions first.    *)
(* In between users edit Builds, the Merge controller works on the Merge   *)
(* objects, and the API server collects those whose Build is gone.  A call *)
(* may fail, before or after it took effect, and the process may crash.    *)
(* What was done too early, or half, a later reconcile must make good, so  *)
(* everything hangs on that one being asked for.                           *)
(***************************************************************************)
EXTENDS Naturals, Sequences, FiniteSets

CONSTANTS
  Builds,         \* names of Build objects
  Nobody,         \* no Build
  URL,            \* repositories
  BranchName,     \* branches of the repositories
  Name,           \* names of Merge objects
  MergeName,      \* mergeName: the name for a Build and a repository
  Specs,          \* what the users of each Build may ask for
  MaxUID,         \* bound: times a Build of each name is created
  MaxFaults,      \* bound: failed calls, lost answers and crashes
  MaxEdits        \* bound: edits by users, and Merges that fall back

Repo == [url: URL, branches: Seq(BranchName), auto: BOOLEAN]

ASSUME ConstantsOK ==
  /\ Nobody \notin Builds
  /\ MergeName \in [Builds -> [URL -> Name]]
  /\ Specs \in [Builds -> SUBSET Seq(Repo)]
  /\ MaxUID \in [Builds -> Nat \ {0}] /\ MaxFaults \in Nat /\ MaxEdits \in Nat

VARIABLES
  builds,   \* the API server: the Build objects
  merges,   \* the API server: the Merge objects, by name
  queue,    \* the work queue, and the events that are under way to it
  pc,       \* the worker: the step of the reconcile it is in
  cur,      \* the worker: the Build it reconciles
  obj,      \* the worker: its copy of the Build
  plan,     \* the worker: what is left to do
  retry,    \* the worker: whether the reconcile asks for another one
  faults,   \* failures so far
  edits     \* edits so far

worker == <<pc, cur, obj, plan, retry>>
bounds == <<faults, edits>>
vars == <<builds, merges, queue, worker, bounds>>

Condition == {"absent", "False", "True"}

Conditions == [ready: Condition, buildReady: Condition, synced: Condition]

BuildObject ==
  [phase: {"none", "live", "deleting"}, uid: Nat, finalizer: BOOLEAN,
   repos: Seq(Repo), conditions: Conditions]

\* A Merge object: its label, the uid of its owner, its spec; finalizer says
\* that the Merge controller has seen it, ready is its condition Ready.
MergeObject ==
  [phase: {"live", "deleting"}, build: Builds, owner: Nat, repo: Repo,
   finalizer: BOOLEAN, ready: BOOLEAN]

\* Repositories to create a Merge for, by their place in the spec, those whose
\* Merge is to be deleted or patched, and whether all that were listed are Ready.
Plan == [create: SUBSET Nat, remove: SUBSET URL, update: SUBSET URL, ready: BOOLEAN]

NoConditions == [ready |-> "absent", buildReady |-> "absent", synced |-> "absent"]

NoBuild ==
  [phase |-> "none", uid |-> 0, finalizer |-> FALSE, repos |-> <<>>, conditions |-> NoConditions]

NewBuild(uid, rs) == [NoBuild EXCEPT !.phase = "live", !.uid = uid, !.repos = rs]

NoMerge == [phase |-> "none"]

NewMerge(b, uid, r) ==
  [phase |-> "live", build |-> b, owner |-> uid, repo |-> r, finalizer |-> FALSE, ready |-> FALSE]

NoPlan == [create |-> {}, remove |-> {}, update |-> {}, ready |-> FALSE]

Init ==
  /\ \E asked \in [Builds -> UNION {Specs[b] : b \in Builds}] :
       /\ \A b \in Builds : asked[b] \in Specs[b]
       /\ builds = [b \in Builds |-> NewBuild(1, asked[b])]
  /\ merges = [n \in Name |-> NoMerge]
  /\ queue = Builds
  /\ pc = "idle" /\ cur = Nobody /\ obj = NoBuild /\ plan = NoPlan /\ retry = FALSE
  /\ faults = 0 /\ edits = 0

-----------------------------------------------------------------------------
(* Repo.Equal, getFullReposDiff.                                           *)

\* Variant: the lengths are not compared.
Included(a, b) == \A i \in DOMAIN a : \E j \in DOMAIN b : a[i] = b[j]

\* branchEqual: as long, and everything of a is in b.
BranchEqual(a, b) == Len(a) = Len(b) /\ \A i \in DOMAIN a : \E j \in DOMAIN b : a[i] = b[j]

RepoEqual(r, s) == r.url = s.url /\ BranchEqual(r.branches, s.branches)

Asked(rs) == {rs[i].url : i \in DOMAIN rs}

\* A repository that is named twice is taken as it is named last.
Entry(rs, u) ==
  rs[CHOOSE i \in DOMAIN rs : rs[i].url = u /\ \A j \in DOMAIN rs : rs[j].url = u => j <= i]

\* The Merge objects with the label b, those that are being deleted included.
Labelled(b) == {n \in Name : merges[n].phase # "none" /\ merges[n].build = b}

\* Variant: a Merge that is not as asked for is to be deleted as well.
PlanReplacing(rs, L) ==
  LET urls == {merges[n].repo.url : n \in L}
      changed == {u \in urls \cap Asked(rs) :
                    \E n \in L : merges[n].repo.url = u /\ ~RepoEqual(Entry(rs, u), merges[n].repo)} IN
  [create |-> {i \in DOMAIN rs : rs[i].url \notin urls},
   remove |-> (urls \ Asked(rs)) \cup changed,
   update |-> changed,
   ready  |-> \A n \in L : merges[n].ready]

\* What to do to have a Merge for each of rs, when there are those of L.
PlanFor(rs, L) ==
  LET urls == {merges[n].repo.url : n \in L} IN
  [create |-> {i \in DOMAIN rs : rs[i].url \notin urls},
   remove |-> urls \ Asked(rs),
   update |-> {u \in urls \cap Asked(rs) :
                 \E n \in L : merges[n].repo.url = u /\ ~RepoEqual(Entry(rs, u), merges[n].repo)},
   ready  |-> \A n \in L : merges[n].ready]

-----------------------------------------------------------------------------
(* Calls.                                                                  *)

Fault == faults < MaxFaults /\ faults' = faults + 1

\* The reconcile returns with the copy o: the deferred patch comes next.
Return(o, again) == pc' = "conditions" /\ obj' = o /\ plan' = NoPlan /\ retry' = again

NotSynced(o) == [o EXCEPT !.conditions.synced = "False"]

\* Everything was done.
Concluded(o, ready) ==
  [o EXCEPT !.conditions.synced = "True",
            !.conditions.buildReady = IF ready THEN "True" ELSE "False"]

\* Goes on with what is left of the plan.
Proceed(p) ==
  IF p.create = {} /\ p.remove = {} /\ p.update = {} THEN Return(Concluded(obj, p.ready), FALSE)
  ELSE pc' = "apply" /\ plan' = p /\ UNCHANGED <<obj, retry>>

\* A call took effect: its answer comes, or is lost.
Answered(p) ==
  \/ Proceed(p) /\ UNCHANGED faults
  \/ Fault /\ Return(NotSynced(obj), TRUE)

\* Variant: the error is noted, but not returned.
RefusedForGood(cond) ==
  /\ (cond /\ UNCHANGED faults) \/ Fault
  /\ Return(NotSynced(obj), FALSE)
  /\ UNCHANGED <<merges, queue>>

\* A call is refused, or fails.
Refused(cond) ==
  /\ (cond /\ UNCHANGED faults) \/ Fault
  /\ Return(NotSynced(obj), TRUE)
  /\ UNCHANGED <<merges, queue>>

\* An object that is deleted stays as long as it has its finalizer.
Deleted(n) == IF merges[n].finalizer THEN [merges[n] EXCEPT !.phase = "deleting"] ELSE NoMerge

\* Variant: only the deletion of a Merge is told.
ToldOnDelete(n, m) == IF m = NoMerge THEN {merges[n].build} ELSE {}

\* MergeToBuildMapFunc: the Build to be told that Merge n becomes m.
Told(n, m) == IF m # merges[n] THEN {merges[n].build} ELSE {}

\* A change of a Merge object, of which its Build is told; it is not told of
\* a creation.
SetMerge(n, m) ==
  /\ merges' = [merges EXCEPT ![n] = m]
  /\ queue' = queue \cup Told(n, m)

-----------------------------------------------------------------------------
(* The reconcile.                                                          *)

\* Reads the Build; one that is gone is forgotten.
Reconcile(b) ==
  /\ pc = "idle" /\ b \in queue
  /\ \/ /\ builds[b].phase # "none"
        /\ pc' = "list" /\ cur' = b /\ obj' = builds[b]
        /\ queue' = queue \ {b} /\ UNCHANGED <<plan, retry, faults>>
     \/ builds[b].phase = "none" /\ queue' = queue \ {b} /\ UNCHANGED <<worker, faults>>
     \/ Fault /\ UNCHANGED <<queue, worker>>
  /\ UNCHANGED <<builds, merges, edits>>

\* Lists the Merge objects; then reconcileDelete, or reconcileNormal up to its
\* first call.
List ==
  /\ pc = "list"
  /\ \/ /\ obj.phase = "deleting"
        /\ Return([obj EXCEPT !.finalizer = FALSE], FALSE) /\ UNCHANGED faults
     \/ /\ obj.phase = "live" /\ ~obj.finalizer
        /\ Return([obj EXCEPT !.finalizer = TRUE], TRUE) /\ UNCHANGED faults
     \/ /\ obj.phase = "live" /\ obj.finalizer
        /\ Proceed(PlanFor(obj.repos, Labelled(cur))) /\ UNCHANGED faults
     \/ Fault /\ Return(NotSynced(obj), TRUE)
  /\ UNCHANGED <<builds, merges, queue, cur, edits>>

\* Variant: a Merge that is there already is taken over.
CreateOrAdoptMerge ==
  /\ pc = "apply"
  /\ \E i \in plan.create :
       LET r == Entry(obj.repos, obj.repos[i].url)
           n == MergeName[cur][r.url] IN
       /\ merges' = [merges EXCEPT ![n] = NewMerge(cur, obj.uid, r)]
       /\ Answered([plan EXCEPT !.create = @ \ {i}])
  /\ UNCHANGED <<builds, queue, cur, edits>>

CreateMerge ==
  /\ pc = "apply"
  /\ \E i \in plan.create :
       LET r == Entry(obj.repos, obj.repos[i].url)
           n == MergeName[cur][r.url] IN
       /\ \A j \in plan.create : i <= j
       /\ \/ /\ merges[n].phase = "none"
             /\ merges' = [merges EXCEPT ![n] = NewMerge(cur, obj.uid, r)]
             /\ Answered([plan EXCEPT !.create = @ \ {i}])
             /\ UNCHANGED queue
          \/ Refused(merges[n].phase # "none")
  /\ UNCHANGED <<builds, cur, edits>>

RemoveMerge(u) ==
  /\ pc = "apply" /\ plan.create = {} /\ u \in plan.remove
  /\ LET n == MergeName[cur][u] IN
     \/ /\ merges[n].phase # "none"
        /\ SetMerge(n, Deleted(n))
        /\ Answered([plan EXCEPT !.remove = @ \ {u}])
     \/ Refused(merges[n].phase = "none")
  /\ UNCHANGED <<builds, cur, edits>>

\* The patch is the difference to an empty object: FALSE is not in it.
Patched(r, s) == [url |-> s.url, branches |-> s.branches, auto |-> r.auto \/ s.auto]

UpdateMerge(u) ==
  /\ pc = "apply" /\ plan.create = {} /\ plan.remove = {} /\ u \in plan.update
  /\ LET n == MergeName[cur][u] IN
     \/ /\ merges[n].phase # "none"
        /\ SetMerge(n, [merges[n] EXCEPT !.repo = Patched(@, Entry(obj.repos, u))])
        /\ Answered([plan EXCEPT !.update = @ \ {u}])
     \/ Refused(merges[n].phase = "none")
  /\ UNCHANGED <<builds, cur, edits>>

\* SetSummary over BuildReady and BuildSynced, as far as there are any.
Summarized(c) ==
  LET scope == {c.buildReady, c.synced} IN
  [c EXCEPT !.ready = IF scope = {"absent"} THEN c.ready
                      ELSE IF scope \subseteq {"absent", "True"} THEN "True" ELSE "False"]

\* The Build's own events.
SetBuild(b, o, asked) ==
  /\ builds' = [builds EXCEPT ![b] = o]
  /\ queue' = queue \cup IF asked \/ o # builds[b] THEN {b} ELSE {}

\* patchHelper.Patch, first call: the conditions, if they changed.
PatchConditions ==
  /\ pc = "conditions" /\ pc' = "object"
  /\ LET o == [builds[cur] EXCEPT !.conditions = Summarized(obj.conditions)] IN
     \/ /\ builds[cur].phase # "none" /\ SetBuild(cur, o, FALSE)
        /\ \/ UNCHANGED <<retry, faults>>
           \/ o # builds[cur] /\ Fault /\ retry' = TRUE
     \/ builds[cur].phase = "none" /\ retry' = TRUE /\ UNCHANGED <<builds, queue, faults>>
     \/ o # builds[cur] /\ Fault /\ retry' = TRUE /\ UNCHANGED <<builds, queue>>
  /\ UNCHANGED <<merges, cur, obj, plan, edits>>

Done == pc' = "idle" /\ cur' = Nobody /\ obj' = NoBuild /\ plan' = NoPlan /\ retry' = FALSE

\* Variant: finalizers are merged, not replaced.
FinalizedMerging(b, f) == [b EXCEPT !.finalizer = f \/ b.finalizer]

\* A Build that is being deleted goes with its finalizer.
Finalized(b, f) ==
  IF b.phase = "deleting" /\ ~f
  THEN [b EXCEPT !.phase = "none", !.finalizer = FALSE, !.repos = <<>>, !.conditions = NoConditions]
  ELSE [b EXCEPT !.finalizer = f]

\* Second call: the finalizer, if it changed; then the reconcile is over.
PatchObject ==
  /\ pc = "object" /\ Done
  /\ LET o == Finalized(builds[cur], obj.finalizer) IN
     \/ /\ builds[cur].phase # "none"
        /\ \/ SetBuild(cur, o, retry) /\ UNCHANGED faults
           \/ o # builds[cur] /\ Fault /\ SetBuild(cur, o, TRUE)
     \/ builds[cur].phase = "none" /\ SetBuild(cur, builds[cur], TRUE) /\ UNCHANGED faults
     \/ o # builds[cur] /\ Fault /\ SetBuild(cur, builds[cur], TRUE)
  /\ UNCHANGED <<merges, edits>>

\* The process dies and restarts: every Build there is comes as created.
Crash ==
  /\ pc # "idle" \/ queue # {}
  /\ Fault /\ Done
  /\ queue' = {b \in Builds : builds[b].phase # "none"}
  /\ UNCHANGED <<builds, merges, edits>>

-----------------------------------------------------------------------------
(* The Merge controller and the garbage collector.                         *)

\* The Merge controller sees the object, or its release becomes Ready.
MergeAdvances(n) ==
  /\ merges[n].phase = "live"
  /\ \/ ~merges[n].finalizer /\ SetMerge(n, [merges[n] EXCEPT !.finalizer = TRUE])
     \/ merges[n].finalizer /\ ~merges[n].ready /\ SetMerge(n, [merges[n] EXCEPT !.ready = TRUE])
  /\ UNCHANGED <<builds, worker, bounds>>

\* The Merge controller is done with an object that is being deleted.
MergeGoes(n) ==
  /\ merges[n].phase = "deleting" /\ SetMerge(n, NoMerge)
  /\ UNCHANGED <<builds, worker, bounds>>

\* The owner of a Merge is gone, though another may have its name.
Ownerless(n) ==
  LET b == builds[merges[n].build] IN b.phase = "none" \/ b.uid # merges[n].owner

CollectGarbage(n) ==
  /\ merges[n].phase = "live" /\ Ownerless(n) /\ SetMerge(n, Deleted(n))
  /\ UNCHANGED <<builds, worker, bounds>>

-----------------------------------------------------------------------------
(* Users, and Merges whose release falls back.                             *)

Edit == edits < MaxEdits /\ edits' = edits + 1

ChangeRepos(b, rs) ==
  /\ builds[b].phase = "live" /\ Edit
  /\ SetBuild(b, [builds[b] EXCEPT !.repos = rs], FALSE)
  /\ UNCHANGED <<merges, worker, faults>>

DeleteBuild(b) ==
  /\ builds[b].phase = "live" /\ Edit
  /\ SetBuild(b, Finalized([builds[b] EXCEPT !.phase = "deleting"], builds[b].finalizer), FALSE)
  /\ UNCHANGED <<merges, worker, faults>>

RecreateBuild(b, rs) ==
  /\ builds[b].phase = "none" /\ builds[b].uid < MaxUID[b]
  /\ SetBuild(b, NewBuild(builds[b].uid + 1, rs), FALSE)
  /\ UNCHANGED <<merges, worker, bounds>>

DeleteMerge(n) ==
  /\ merges[n].phase = "live" /\ Edit /\ SetMerge(n, Deleted(n))
  /\ UNCHANGED <<builds, worker, faults>>

MergeFallsBack(n) ==
  /\ merges[n].phase = "live" /\ merges[n].ready /\ Edit
  /\ SetMerge(n, [merges[n] EXCEPT !.ready = FALSE])
  /\ UNCHANGED <<builds, worker, faults>>

-----------------------------------------------------------------------------

Step ==
  \/ List \/ CreateMerge
  \/ \E u \in URL : RemoveMerge(u) \/ UpdateMerge(u)
  \/ PatchConditions \/ PatchObject

Settling(n) == MergeAdvances(n) \/ MergeGoes(n) \/ CollectGarbage(n)

Users ==
  \/ \E b \in Builds : DeleteBuild(b) \/ \E rs \in Specs[b] : ChangeRepos(b, rs) \/ RecreateBuild(b, rs)
  \/ \E n \in Name : DeleteMerge(n) \/ MergeFallsBack(n)

Next ==
  \/ \E b \in Builds : Reconcile(b)
  \/ Step \/ Crash
  \/ \E n \in Name : Settling(n)
  \/ Users

Spec == Init /\ [][Next]_vars

-----------------------------------------------------------------------------

Typed ==
  /\ builds \in [Builds -> BuildObject] /\ \A b \in Builds : builds[b].uid <= MaxUID[b]
  /\ merges \in [Name -> MergeObject \cup {NoMerge}]
  /\ queue \subseteq Builds
  /\ pc \in {"idle", "list", "apply", "conditions", "object"}
  /\ cur \in Builds \cup {Nobody} /\ (cur = Nobody <=> pc = "idle")
  /\ obj \in BuildObject /\ plan \in Plan /\ retry \in BOOLEAN
  /\ faults \in 0 .. MaxFaults /\ edits \in 0 .. MaxEdits

\* What is created and patched is looked up in the copy, and nothing that is
\* asked for there is deleted.
PlanOfCopy ==
  /\ plan.create \subseteq DOMAIN obj.repos /\ plan.update \subseteq Asked(obj.repos)
  /\ plan.remove \cap Asked(obj.repos) = {}

\* The variables have their types, and what is planned in getFullReposDiff is
\* about the repositories of the worker's copy as long as it is carried out.
TypeOK == Typed /\ (pc = "apply" => PlanOfCopy)

\* Nothing is under way to make good what was done for b.
AtRest(b) == pc = "idle" /\ b \notin queue /\ builds[b].phase = "live"

Members(l) == {l[i] : i \in DOMAIN l}

OnceEach(l) == \A k, m \in DOMAIN l : l[k] = l[m] => k = m

\* The Merge objects of b are what it asks for: one for each repository, with
\* its branches in any order, and none that is to stay without being asked for.
\* For an entry that names a branch twice, branchEqual does not tell whether
\* the branches are the same ([a, a] equals [a, b]), and nothing is said of them.
InSync(b) ==
  LET rs == builds[b].repos IN
  /\ \A u \in Asked(rs) : \E n \in Labelled(b) :
       /\ merges[n].repo.url = u
       /\ OnceEach(Entry(rs, u).branches) =>
            Members(merges[n].repo.branches) = Members(Entry(rs, u).branches)
  /\ \A n \in Labelled(b) : merges[n].phase = "live" => merges[n].repo.url \in Asked(rs)

\* No wake-up is lost: whenever no reconcile is due for a Build, whatever was
\* edited, failed, crashed or half done in whichever step of the last one, its
\* Merge objects are those it asks for, as InSync has it, and it says so.
InSyncAtRest ==
  \A b \in Builds : AtRest(b) => InSync(b) /\ builds[b].conditions.synced = "True"

\* Nor is a change of a Merge lost: a Build for which no reconcile is due says
\* that it is ready if all its Merges are, those apart that nobody has
\* seen since they were created, and never says so otherwise.
ReadyAtRest ==
  \A b \in Builds : AtRest(b) =>
    LET c == builds[b].conditions IN
    /\ c.ready = c.buildReady /\ c.ready \in {"True", "False"}
    /\ c.ready = "True" => \A n \in Labelled(b) : merges[n].finalizer => merges[n].ready
    /\ c.ready = "False" => \E n \in Labelled(b) : ~merges[n].ready

\* The controller never touches the Merge object of another Build, though the
\* two may be named alike and what it acts on was read calls ago.
OwnMergesOnly ==
  [][pc = "apply" /\ worker' # worker =>
       \A n \in Name : merges[n].phase # "none" /\ merges'[n] # merges[n] =>
         merges[n].build = cur]_vars

\* Requests are served for ever: an error or Requeue requeues, and one worker
\* serves a queue in which none is overtaken for ever.  The Merge controller
\* and the garbage collector go on.  Nothing is assumed of users.
Fairness ==
  /\ WF_vars(Step) /\ \A b \in Builds : SF_vars(Reconcile(b))
  /\ \A n \in Name : WF_vars(Settling(n))

FairSpec == Spec /\ Fairness

\* A Build waits for a name that a Merge object of another repository or of
\* another Build has.
Blocked(b) ==
  \E i \in DOMAIN builds[b].repos :
    LET u == builds[b].repos[i].url
        n == MergeName[b][u] IN
    merges[n].phase = "live" /\ (merges[n].build # b \/ merges[n].repo.url # u)

\* Whatever was edited, failed or crashed, in the end the Merge objects of a
\* Build are what it asks for, as InSync has it, and stay so, unless a name it
\* needs is taken.
Synchronizes ==
  \A b \in Builds : <>[](builds[b].phase = "live" =>
    Blocked(b) \/ (InSync(b) /\ builds[b].conditions.synced = "True"))

\* A Build that is deleted goes, and its Merge objects with it, even if a
\* Build of its name is created in between.
DeletionCompletes ==
  \A b \in Builds : (builds[b].phase = "deleting") ~>
    (builds[b].phase # "deleting" /\ \A n \in Labelled(b) : ~Ownerless(n))

\* README.md:51: synchronizing "untile the desired state is reached".  Here:
\* when nothing is due for a Build, a final merge request is accepted by the
\* operator if and only if the Build says so.
ConsentReached ==
  \A b \in Builds : AtRest(b) =>
    \A n \in Labelled(b) : merges[n].repo.url \in Asked(builds[b].repos) =>
      merges[n].repo.auto = Entry(builds[b].repos, merges[n].repo.url).auto

=============================================================================
