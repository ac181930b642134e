# Verification of release-operator

TLA+ models of the operator's controllers, TLC configurations that check them
on small instances, and proofs that TLAPS checks.  `PROJECT.json` lists runs,
mutants, theorems, findings and hazards, and maps every definition to the
lines it models.

## Inventory

The operator is one process with three controllers over three kinds of
Kubernetes objects.  They talk to each other through those objects only, and to
one GitLab instance through `pkg/clients/gitclient`.

| Component | State it keeps | Operations | Interacts with |
|---|---|---|---|
| Build controller (`controllers/build_controller.go`) | Build: finalizer, conditions BuildSynced, BuildReady, Ready | diff of `Spec.Repos` against the Merge objects, create / delete / update Merges, summarize | creates and patches Merge objects, is woken by their changes |
| Merge controller (`merge_controller.go`) | Merge: finalizer, branches with the names of their objects, conflict state, final MR, final tag, six conditions | clean-up after a change of branches, branch checks, one NativeMergeRequest per branch, conflict resolution, tag, final merge request, deletion | creates, reads, deletes NativeMergeRequests; branches and tags in GitLab |
| NativeMergeRequest controller (`nativemergerequest_controller.go`) | NativeMergeRequest: finalizer, IID, Ready, HasConflict, Deleted, conditions | check the source branch, get or create the merge request, accept or remove it, deletion | merge requests in GitLab |
| GitLab client (`gitclient.go`) | none | one call or check-then-act pairs, 404 told apart from errors, no retries | GitLab |
| API types (`api/v1alpha1`) | none | `HasConflict`, `BranchesAlreadyProcessed`, `NotValidBranches`, `Repo.Equal` | all controllers |
| Manager (`main.go`, `internal/app`) | none | start-up; reads of the three kinds bypass the cache | - |

What is hard about it:

* A reconcile is a long sequence of calls on a private copy of one object.
  Between two calls the other controllers, GitLab, its users and whoever edits
  the objects act.  Only the deferred patch at the end stores what happened.
* That patch is two calls, conditions first, then finalizer and status; each
  may fail while the other succeeds (library behaviour of
  `sigs.k8s.io/cluster-api/util/patch`, modelled from how it is used).
* A call may fail, or take effect and lose its answer.  The client does not
  retry (`gitclient.go:26`); the work queue does, from the stored object.
* The process may crash between any two calls.
* GitLab acts on its own: mergeability is checked asynchronously, deleting a
  branch closes its merge requests, two open merge requests for the same two
  branches are refused.  Users merge, close, push and delete.

What makes each component correct: a NativeMergeRequest only says of its merge
request what happened to it, never touches another's, opens no second one
without a failure, and settles; a Merge never crosses its objects, loses no
branch between processing and tag, throws no resolution away, is Ready only for
a release, and progresses; a Build has exactly the Merges it names.

## Modules

| Module | What it is |
|---|---|
| `NativeMergeRequest` | the NativeMergeRequest controller, its GitLab and its users |
| `NMRPromise` | abstract specification: what a NativeMergeRequest's published fields promise |
| `NativeMergeRequestProofs` | inductive invariant and theorems about `NativeMergeRequest` |
| `NMRPromiseProofs` | that it implements `NMRPromise`, and how many merge requests it opens and loses |
| `Merge` | the Merge controller, over objects within `NMRPromise` |
| `MergeProofs` | lemmas about lists of branches, inductive invariant of `Merge`, its types, what its status refers to, and that it keeps to `NMRPromise` |
| `MergeReleaseProofs` | that tags and resolutions stay, and what Ready means |
| `MergeAccountProofs` | that the tag of a release has its branches |
| `MergeOrphanProofs` | how many objects the Merge controller loses track of |
| `Versions` | the versions several Merge objects of one project are tagged with |
| `VersionsProofs` | inductive invariants and theorems about `Versions` |
| `Build` | the Build controller, its Merge objects and their owners |
| `BuildProofs` | inductive invariant and theorems about `Build` |
| `MCNativeMergeRequest`, `MCMerge`, `MCVersions`, `MCBuild` | instances for TLC |

### NativeMergeRequest

`nmr` is what the API server stores, `mr`, `lastIID` and `heads` what GitLab
has, `pc`, `cur` and `obj` the one worker: the step it is in, the object it
reconciles and its copy.  One action per call of the code: `Reconcile` (read,
finalizer, early returns), `CheckSourceBranch`, `GetOrCreateMR` with the switch
on its result (`Decide`), `AcceptMR`, `RemoveMR`, `ReconcileDelete`,
`RemoveMROnDelete`, `PatchConditions`, `PatchObject`, and `Crash`.  Every call
has a disjunct for an answer that is lost after it took effect and one for a
plain failure; both count against `MaxFaults`.  The conditions are abstracted to
`processed`, whether their summary Ready is True, which is all others read of
them.  GitLab and its users are `CheckMergeability`, `UserMerges`,
`UserCloses`, `UserPushes`, `DeleteBranch`; the Merge controller is `Create`,
`Delete` and `SetAutoAccept`.

### NMRPromise and Merge

The Merge controller reads four fields of an object and has no other knowledge
of merge requests.  `NMRPromise` states what may be concluded from them and how
they may change; TLC checks that `NativeMergeRequest` implements it
(`KeepsPromise`, with a mapping that forgets GitLab and keeps, as `past`, what
became of the merge requests) and that the environment written into `Merge`
stays within it (`WithinPromise`).  The converse, that `Merge` has all the
promise allows, is neither shown nor so: see below for what is not in it.

`Merge` has one Merge object, split as the code treats it: `spec`, edited by the
Build controller, and `stored`, the rest.  `merge` is the worker's copy, `want`
the spec as it read it, `at` its loop index.  Objects are numbered as they are
created, 0 being the empty name.  A commit is the set of branches merged on top
of a revision of main, which is what tells whether a tag has a branch.  The
resolve branch of a list of branches is that list.  Actions follow the code
call by call, from `Reconcile` over the clean-up (`Drop...`), the loop over the
branches and `Judge`, `reconcileConflict`, tag and final merge request to the
two patches.

The NativeMergeRequest objects in it are a subset of the promise: merge
requests are accepted, found in conflict and reported in the order of that
controller's patches; an accept's report may be lost, a removal may fail or go
unrecorded so that another one is opened, and a report may be retracted.  Not
in it: the object being refused a merge request because an orphan holds the two
branches (that is in `NativeMergeRequest`, and an exception of its `Settles`),
and toggles of AutoAccept by others.  The versions of other Merge objects and of users are in `Versions`;
removal of the build branch by users and lists with a branch named twice are
left out.  A Merge names at least one branch in some spec (`Name # {}`), and the
name of a resolve branch, made of the others by the controller, is no branch's
own name; both are part of `ConstantsOK`.

### Versions

`Merge` counts versions; `Versions` has several Merge objects of one project
and the tags as GitLab shows them: `Page` is the first page of `ListTags`, in
descending order of names, and `Latest` what `getLatestVersion` makes of it.
What precedes the tag is reduced to whether the branches of the release are on
the build branch (`built`), and a release to its number.  The actions are the
calls from `deleteFinalMRIfExist` over `createFinalTag`, with `GetOrCreateTag`
as the two calls it is, to `createFinalMR` and the patch.  Users push and delete
versions, and tags that are no versions, which sort before or after all
versions.  Versions are v0.0.n with n below 1000: the code only ever adds one to
the last part.  `MaxTag` bounds them in `ListTags`: no version is chosen beyond it.

### Build

`builds` and `merges` are what the API server stores, `queue` the work queue
together with the events on their way to it, `pc`, `cur`, `obj`, `plan` and
`retry` the one worker.  `Reconcile` reads the Build, `List` the Merge objects
with its label and either finishes (deletion, finalizer) or makes the plan of
`getFullReposDiff`; `CreateMerge`, `RemoveMerge` and `UpdateMerge` carry it out
call by call, in that order; `PatchConditions` and `PatchObject` are the
deferred patch.  `MergeName` is a constant, so that names may clash as
`mergeName` lets them: path.Base drops the group of a repository, and a Build's
name may end in what another's repository begins with.  `SetMerge` tells the
owner of an update or a deletion, and not of a creation, as the predicates of
`SetupWithManager` have it.  Around the worker, users edit, delete and create
again Builds and delete Merge objects, the Merge controller adds its finalizer
and makes objects Ready or not, and the garbage collector deletes what has no
owner by uid.

## Runs

| Configuration | Question | Bounds |
|---|---|---|
| `NMR` | is what an object says true, is the promise kept, do two objects for the same branches stay out of each other's way, does every object settle and every deletion complete? | 2 objects, one of them checked for its commit message, 3 merge requests, 1 fault, 1 edit |
| `MergeFaults` | does a release survive a failure or crash anywhere? | 2 branches, 1 fault |
| `MergeEdits` | does every order of reports lead to a correct release, with one edit or action of a user anywhere; does a release complete, does a deletion? | 1 or 2 branches, 4 objects, 1 edit |
| `MergeDrops` | and when the clean-up itself fails half-way; are the objects used as `NMRPromise` allows? | 1 branch swapped for another, 1 fault, 1 edit; the two names are symmetric |
| `Versions` | does each release get a later version of its own, and in the end a tag that stays? | 2 Merge objects; 19 tags before, with a gap, and a page of 20; 2 faults, 1 edit, 1 tag of a user |
| `Build` | is no wake-up lost, does a Build reach what it asks for, does none touch another's Merge objects? | 2 Builds with clashing names, 2 repositories, 1 fault, 1 edit; one Build is created twice |
| `MergeStaleTag`, `MergeRemovedBranch`, `BuildConsent`, `VersionsHundred`, `VersionsKeptTag`, `NMRLostReport` | see below | one object of the kind; 2 Merge objects and 99 tags for `VersionsHundred` |

The bounds: two branches are the least at which one may be merged and the other
conflict, or one be removed and the other stay; nothing in the code relates
three.  One fault puts a failure, a lost answer and a crash at each step of each
reconcile; recovery never needs a second; the theorems hold for any number.  The
numbers of objects and merge requests suffice for one complete cycle after the
last failure.  One edit reaches a change of branches at each step, and
`MergeDrops` combines it with a fault.  In `NMR` the object that is checked
needs the one edit for its message, so that two objects with a merge request
each and a further action of a user are left to the proofs.  In `MergeEdits`
four objects are two branches, a resolution and a final merge request; a change
of branches after all four exist is left to the proofs and to `MergeDrops`.  In
`Build` one edit is also one Merge that falls back or is deleted; the second
Build asks for one thing only, since all it is there for is to clash, to go and
to come again; that names clash within one Build too, when a repository moves to
another group, is left to the proofs, which hold for any `MergeName`; the
invariant behind the run was also checked with two edits, and is proved for any
number.  In `Versions` a page that is full after one more tag shows both sides
of its limit, and the gap shows whether a freed name is reused; that nothing
changes up to v0.0.99 is left to the proofs; two faults are the least to lose
both an answer of `CreateTag` and what follows.  `CHECK_DEADLOCK FALSE` is set
where a run may end: the Merge object is gone, numbers are used up, or all
Builds rest.

Fairness.  The liveness runs assume that requests are served again and again
(an error or `RequeueAfter` requeues, each status patch wakes the controller
again, informers resync) and that a reconcile that started goes on.  Strong
fairness of `Reconcile(n)` reflects that one worker serves a queue in which no
object is overtaken for ever.  GitLab is assumed to finish its mergeability
checks; users are not assumed to do anything.  In `Merge` the other controller
is assumed to settle and to report.  `Settles` shows that it does so for an
object to be accepted automatically, with four exceptions: its users have yet to
push, another open merge request holds its branches, it is deleted, or a failure
hit the one report that is not repeated (`Unreported`, `NMRLostReport`).
`Progresses` is therefore no more than what holds without failures, users'
actions and merge requests in the way.  In `Build` only a
request that is in the queue is served: nothing is resynchronized, so that
`Synchronizes` rests on every wake-up being asked for.  The Merge controller
and the garbage collector are assumed to go on.  In `Versions` a Merge is
reconciled again and again, since each of its reconciles that finds the release
unmerged or fails requeues.

Each property has a mutant in `PROJECT.json`: a plausible bug (an operator whose
comment begins "Variant") under which the run reports it violated.  Those of the
type invariants break what the calls take: a plan that deletes a Merge the Build
asks for, a tag created without a version, the removal of a merge request whose
IID was never stored, a branch listed twice.

## Where the code falls short of what is said of it

`README.md:51` says the controllers synchronize "untile the desired state is
reached".  Six runs show where that fails:

* `MergeStaleTag`: Ready is stored before HasConflict; a Merge that reads
  between the two tags the release without the branch in conflict, and keeps
  the tag when the conflict is resolved.
* `MergeRemovedBranch`: a merge under way lands on the recreated build branch,
  and the tag has a branch that was taken out of the release.
* `BuildConsent`: a Build that withdraws AcceptFinalMR does not reach its Merge:
  `Repo.Equal` does not compare it, and the patch, the difference to an empty
  object, never says false.
* `NMRLostReport`: after a conflict the merge request is removed; the patch of the
  conditions fails, and that of the status stores Deleted.  From then on each
  reconcile returns at once (`nativemergerequest_controller.go:103`), Ready stays
  False, and the Merge waits for it for ever (`merge_controller.go:209`, `:222`).
* `VersionsKeptTag`: `deleteFinalMRIfExist` gives the tag up only with a final
  merge request.  If the creation of that failed and branches change, the new
  branches are released under the tag of the old ones.
* `VersionsHundred`: v0.0.100 is not on the page of tags that `ListTags` asks
  for, and the next Merge to be tagged takes it for its own.

Others have no run of their own; they are the exceptions the properties make:

* `Settles` excepts an object whose merge request was opened but whose IID was
  not stored: the next one is refused for as long as the first is open
  (`gitclient.go:236-259` looks it up by IID only).  It also excepts what
  `NMRLostReport` shows.
* `Progresses` excepts a resolution that a user merged by hand, since that is one
  of the actions `edits` counts: the Merge does stay there, as only the operator's
  own accept sets Status.Ready, which `merge_controller.go:313` asks for.
* `Progresses` and `ReadyMeansReleased` are about runs without failures or
  edits: `ReleaseBranchReady` is never set to True again
  (`merge_controller.go:185`), and TagReady is not summarized
  (`merge_controller.go:662`), so that a Merge whose branches came to nothing
  is Ready without a tag.
* `ReleaseHasItsTag` ends at v0.0.99 (`UnderHundred`) and lets the tag be that of an
  earlier release of the same Merge after a failure combined with a change of
  branches: what `VersionsHundred` and `VersionsKeptTag` show.  It and the other
  properties of versions but `Releases` are silent once users push or delete one.
  `Releases` excepts tags on the page that are no versions.
* `Synchronizes` excepts a name that is taken: of two repositories of one name
  only one gets a Merge, and one that moves to another group waits for the
  removal of the old Merge, which comes after its own creation.
* `ReadyAtRest` excepts Merge objects nobody has seen since they were created.
* `InSyncAtRest` and `Synchronizes` say nothing of the branches of an entry that
  names one twice: `branchEqual` (`types.go:23`) takes [a, a] for equal to [a, b], so
  that a branch overwritten with the name of another stays in the Merge.
* `TagAccountsForBranches` excuses branches that conflicted or were closed
  (`MergeStaleTag` shows what that hides), and `FinalMRIsTagged` says that there is
  a tag, not whose it is.

## Proofs

`NativeMergeRequestProofs` proves for all constants that satisfy `ConstantsOK`,
any number of objects, merge requests, faults and edits:

* `TypeCorrect`: `TypeOK`;
* `OwnMergeRequest`: an object's IID is of a merge request opened for it;
* `ReadyIsMerged`: Ready is only stored of a merge request that was merged;
* `ProcessedIsSettled`: the Ready condition is only True once a merge request
  of the object was merged, closed or removed.

None of the three is inductive: the stored status comes from the worker's copy,
which was filled steps earlier, while users acted.  `IInv` adds `Numbered` (the
merge requests that exist are those up to `lastIID`, and each has an owner),
`StoredTruthful` (the three properties, of what is stored) and `CopyTruthful`
(the same of the copy, at each step, including what the step presumes of the
merge request it is about to act on).  What makes it inductive is that GitLab's
facts are stable: merged stays merged, removed stays removed and an owner never
changes, which is one lemma each.  `Invariance` has one step per action.

`NMRPromiseProofs` proves of the same module:

* `PromiseKept`: it implements `NMRPromise` (`KeepsPromise`), initial state by
  initial state and step by step;
* `DeletedStaysFinal`: `DeletedIsFinal`, for an object whose merge request was
  removed after a conflict nothing is opened, accepted or removed again, not even
  when it is deleted;
* `FewDuplicates`: an object has one merge request, and one more only for each
  failure (`NoDuplicateMRs`);
* `FewLeaks`: an open merge request the operator can no longer reach was paid
  for by a failure (`LeaksNeedFaults`).

The promise is that published fields are not taken back, and `PatchObject`
replaces them all with the copy's.  `SInv` says that the copy says no less than
what is stored, and what it may forget: only a merge request that is gone.  The
two counts are no invariants by themselves: a step that opens a merge request
has to know that none was opened since the last failure.  `MayOpen` is that
knowledge, for each point at which the worker or a crash may be, and `Counted`
adds one to the count where it holds.  `DeletedIsFinal` needs to know that the
merge request of an object that says Deleted is the removed one (`DInv`, with the
theorem `DeletedIsRemoved`): its deletion then finds nothing to remove.

The proofs about merge requests assume `ConstantsOK` only.

`MergeProofs`, `MergeReleaseProofs`, `MergeAccountProofs` and `MergeOrphanProofs`
prove of `Merge`, for any branches, objects, tags, failures and edits:

* `TypeCorrect`: `TypeOK`, which here says that no list of branches ever has one
  twice: `AddBranchesToStatus` and the clean-up filter by name;
* `OwnBranches`: `NamesItsOwn`; `TaggedFirst`: `FinalMRIsTagged`;
* `StaysWithinPromise`: `WithinPromise`, so that `Merge` takes the other controller
  to do nothing that its promise, which `PromiseKept` shows it keeps, forbids.
  That it does nothing else than what `Merge` has it do is not shown;
* `TagsLast`: `TagStays`; `ResolutionsLast`: `ResolutionStays`;
* `ReadyIsReleased`: `ReadyMeansReleased`;
* `TagsAccount`: `TagAccountsForBranches`;
* `FewOrphans`: `OrphansNeedFaults`.

`Inv` claims of the copy what it claims of the stored object (`Sound`), because
the patch replaces the one with the other, and adds at each step what the steps
before have established (`StepOK`): the clean-up forgets resolution, release and
branches in an order in which nothing is forgotten before what refers to it.
Objects keep their two branches for ever and are only created, which makes
`Sound` stable under everything others do.

`TagStays` is about an edit and a reconcile that may be far apart.  `ReleaseInv`
says that without edits a copy with a tag, or whose build branch started over,
has just the branches asked for, so that the clean-up finds no change
(`Unedited`); and that a reconcile which gave the stored tag up has a branch
that is not processed, which no call of the same reconcile can make good
(`GivenUp`): hence it does not come to `CreateFinalTag`.  The exception is a Merge
whose last branch was removed: with no branch left to wait for, the same
reconcile tags the empty release.

Ready summarizes conditions, and a reconcile that returns early leaves those of
earlier ones as they are.  `ReadyInv` says, in runs without failures and edits,
what `AllBranchMerged` tells of the copy at each step (`Honest`).  It is True
only with a tag and a final merge request; and where a reconcile ends it is True
or False, unless nothing was stored but the finalizer.  The reason for the second
is that the first reconcile to look at the branches finds objects it has just
created, so that it cannot come past the loop: as long as the condition is
absent, no branch is processed.

That a branch was merged does not say that it is on the build branch: the
resolution of a conflict starts the build branch over, and the objects of the
branches merged before stay processed.  `AInv` therefore accounts, in runs without
failures, for each branch of a copy at each step: it is on the build branch; or
its merge request was closed or removed (`Excused`); or it was merged and taken
off again (`Missing`), and then the copy knows of the conflict, or will when it
has read the objects (`Noticed`), so that the reconcile goes the way of the
resolution.  That way ends only when the resolution was merged, and with it all
branches (`ResolutionOK`, which counts on what is on a resolve branch,
`HeadsHold`).  From `compare` to the tag nothing of this may change, and a tag
that is stored, or that a copy will store, has the branches of the commit it was
put on (`TagOK`); `TagsInOrder` gives that the version asked for is a new one.
Others may act between any two steps: `Benign` says all that the proof needs of
them.

What a failing patch or a crash orphans was created by that very reconcile.
`OrphanInv` bounds what the copy refers to and the stored object does not
(`FreshOK`), and says that what the copy no longer refers to was deleted before
(`LostAreDead`).  The bound of one object for each branch is met because a
reconcile returns before it asks for a resolve or final merge request when it
has just created one for a branch.

`VersionsProofs` proves `TypeCorrect` for any Merge objects and tags, and, with a
page of at least nine tags (`WidePage`; GitLab's own default is 20):

* `ReleasesTagged`: `ReleaseHasItsTag`, which itself speaks of states with no version
  above v0.0.99;

and, with `MaxTag` below a hundred besides (`Few`):

* `VersionsOnlyGrow`: `VersionsGrow`;
* `FewVersions`: `VersionsNeedFaults`.

The page shows the names that sort last, and v0.0.9 sorts after v0.0.10.
`NextIsLater` shows that below a hundred the version after the latest on the page is
nevertheless later than all: of the lesser versions only v0.0.2 to v0.0.9 may
sort after the latest, fewer than a page holds, so that the latest is on it.
`VersionsHundred` shows that the bound is needed.  `Ordered` relates the releases that are asked for, built and stored;
`VSound` says whose tag a status has, of the copy too, and that the version to be
created is still fresh, since nobody else creates one in between; `Counted` is
the count with the same kind of addition as above (`Pending`).  The last three
assume that users leave versions alone (`meddling = 0`), as the properties do.

`BuildProofs` proves for any Builds, repositories, names (clashing or not),
failures, edits and recreations:

* `TypeCorrect`: `TypeOK`, with what is being carried out: a plan stays one about the
  worker's copy, and deletes nothing that is asked for there;
* `RestsInSync`: a Build for which no reconcile is due has a Merge object for each
  repository it asks for and keeps no other (`InSyncAtRest`); each has the branches
  asked for, unless the Build's entry names one twice;
* `RestsReady`: it is Ready as they are (`ReadyAtRest`);
* `TouchesItsOwn`: the worker changes no Merge object of another Build;
* `BranchEqualIsSameBranches`: if the first list names no branch twice, lists that
  `branchEqual` takes for equal name the same branches; if neither does, it tells
  exactly that.  The proof is by counting.

At rest nothing is known but that no reconcile is due, so the invariant has to
say at every step what the reconcile under way is worth.  `Attended(b)` does: a
reconcile is due, or the copy is still what is stored (`list`), or carrying out
the rest of the plan settles b (`apply`, `PlanSettles`), or the conditions to be
patched say what is the case, or the reconcile will ask for another.  It is kept
by others because whoever changes a Build or a Merge object asks for a reconcile
of that Build (`MergeTold`, `BuildTold`); the one change that tells nobody, a
creation, is made by the worker for its own Build, with a plan that counts on it.
A call of the worker that changes nothing tells nobody either: then the object
was as planned already, which needs `NamesMatch` (a Merge object has the name of
its label and its repository) and `PlanSound` (what is to be removed or patched
is still no other Build's).  `PlanDone` turns an empty plan into `InSync`, with
`BranchEqualIsSameBranches` for the entries that name no branch twice; nothing is
assumed of what users write.

Only model-checked: liveness, since fairness and ENABLED are out of the prover's
reach (`Settles`, `DeletionCompletes`, `Progresses`, `Synchronizes`, `Releases`
and the like).  Every invariant that a passing run checks is proved.

## Plan

Done: all modules, and the proofs above.  Left: a composition of `Merge` with
`NativeMergeRequest` itself, at one branch.

Not modelled, and not planned: start-up, flags and probes (`main.go`,
`internal/app`), generated code, manifests and deployment files; messages of
conditions, logging, durations of requeues; validation of URLs (a URL that does
not parse ends the reconcile as a project that is not found does);
`GetMR`, `RemoveMRIfExist` and `MergeBranch` of the client, which nothing
calls.  Leader election is off by default and one replica is assumed.
