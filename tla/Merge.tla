------------------------------- MODULE Merge -------------------------------
(***************************************************************************)
(* The Merge controller: one worker that turns the branches a Merge object *)
(* names into a release of one GitLab project.  It creates the build       *)
(* branch, has every branch merged into it by a NativeMergeRequest object  *)
(* of its own, falls back to a branch on which people resolve conflicts,   *)
(* tags the build branch and asks for it to be merged into main.           *)
(*                                                                         *)
(* One Merge object is modelled.  Its worker reads the object, works on a  *)
(* copy through up to twenty calls to GitLab and the API server, and       *)
(* writes the copy back in two calls, the conditions first.  Between any   *)
(* two of its steps the NativeMergeRequest controller, GitLab's users and  *)
(* the Build controller, which edits the object, may act; any call may     *)
(* fail, before or after it took effect, and the process may crash.        *)
(***************************************************************************)
EXTENDS Naturals, Sequences, FiniteSets

CONSTANTS
  Name,           \* branches a Merge may name
  build, main,    \* the build branch, named by the label, and main
  Specs,          \* what users ask for: Spec.Repo
  MaxNMR,         \* bound: NativeMergeRequest objects created, from 1
  MaxTag,         \* bound: tags, from v0.0.1
  MaxRev,         \* bound: merges into main
  MaxFaults,      \* bound: failed calls, lost answers and crashes
  MaxEdits        \* bound: edits of the object, and merges, closures and
                  \* branch deletions by users

Lists == {s \in UNION {[1 .. k -> Name] : k \in 0 .. Cardinality(Name)} :
            \A k, l \in DOMAIN s : s[k] = s[l] => k = l}

ASSUME ConstantsOK ==
  /\ IsFiniteSet(Name) /\ Name # {} /\ build \notin Name /\ main \notin Name /\ build # main
  /\ Lists \cap (Name \cup {build, main}) = {}
  /\ Specs \subseteq [branches: Lists, acceptFinalMR: BOOLEAN]
  /\ MaxNMR \in Nat /\ MaxTag \in Nat /\ MaxRev \in Nat /\ MaxFaults \in Nat /\ MaxEdits \in Nat

VARIABLES
  spec,     \* the API server: Spec.Repo of the Merge object
  stored,   \* the API server: the rest of the Merge object
  nmr,      \* the API server: the NativeMergeRequest objects, by number
  lastNMR,  \* the API server: the number given last
  past,     \* what became of the merge requests of each of them
  heads,    \* GitLab: branch -> its head
  tags,     \* GitLab: n -> the commit tagged v0.0.n
  pc,       \* the worker: the step of the reconcile it is in
  merge,    \* the worker: its copy of the object
  want,     \* the worker: Spec.Repo as it read it
  at,       \* the worker: the branch of the status it is at
  faults,   \* failures so far
  edits     \* user edits so far

objects == <<nmr, lastNMR, past>>
gitlab == <<heads, tags>>
worker == <<pc, merge, want, at>>
bounds == <<faults, edits>>
vars == <<spec, stored, objects, gitlab, worker, bounds>>

NMR == 1 .. MaxNMR

\* The branch on which the conflicts between the branches s are resolved is
\* named after them: here it is s itself.
Branch == Name \cup {build, main} \cup (Lists \ {<<>>})

\* A branch's head: the branches merged on top of revision rev of main.  A
\* resolve branch has none until its users pushed a resolution, with the
\* message that the controller waits for.
Commit == [exists: BOOLEAN, rev: 0 .. MaxRev, on: SUBSET Name]

Absent == [exists |-> FALSE, rev |-> 0, on |-> {}]

HeadAt(r, s) == [exists |-> TRUE, rev |-> r, on |-> s]

\* A NativeMergeRequest as it is seen from here, see NMRPromise, and its merge
\* request: accepted by the controller itself, which will report it Ready;
\* removed after a conflict; or settled, by users or for good.
Object ==
  [phase: {"none", "live", "deleting", "gone"}, source: Branch, target: {build, main},
   autoAccept: BOOLEAN, ready: BOOLEAN, hasConflict: BOOLEAN, deleted: BOOLEAN,
   processed: BOOLEAN, mr: {"none", "open", "accepted", "removed", "settled"}]

Outcome == {"merged", "closed", "removed"}

BranchStatus ==
  [name: Name, nmr: 0 .. MaxNMR, valid: BOOLEAN, conflict: BOOLEAN, processed: BOOLEAN]

\* Conditions: absent, False or True.  ready is the summary of the others.
Condition == {"absent", "False", "True"}

Conditions ==
  [repositories: Condition, releaseBranch: Condition, branchesExist: Condition,
   branchMerged: Condition, resolved: Condition, ready: Condition]

\* 0 is the empty name of a NativeMergeRequest and the empty tag; <<>> the
\* empty name of a resolve branch.
Status ==
  [phase: {"live", "deleting", "gone"}, finalizer: BOOLEAN,
   branches: UNION {[1 .. k -> BranchStatus] : k \in 0 .. Cardinality(Name)},
   recreated: BOOLEAN, resolveName: Lists, resolveMR: 0 .. MaxNMR,
   finalMR: 0 .. MaxNMR, finalTag: 0 .. MaxTag, conditions: Conditions]

NoConditions ==
  [repositories |-> "absent", releaseBranch |-> "absent", branchesExist |-> "absent",
   branchMerged |-> "absent", resolved |-> "absent", ready |-> "absent"]

NewStatus ==
  [phase |-> "live", finalizer |-> FALSE, branches |-> <<>>, recreated |-> FALSE,
   resolveName |-> <<>>, resolveMR |-> 0, finalMR |-> 0, finalTag |-> 0,
   conditions |-> NoConditions]

NoSpec == [branches |-> <<>>, acceptFinalMR |-> FALSE]

NoNMR ==
  [phase |-> "none", source |-> main, target |-> main, autoAccept |-> FALSE, ready |-> FALSE,
   hasConflict |-> FALSE, deleted |-> FALSE, processed |-> FALSE, mr |-> "none"]

Init ==
  /\ spec \in Specs
  /\ stored = NewStatus
  /\ nmr = [n \in NMR |-> NoNMR] /\ lastNMR = 0 /\ past = [n \in NMR |-> {}]
  /\ heads = [b \in Branch |-> IF b = main THEN HeadAt(0, {})
                               ELSE IF b \in Name THEN HeadAt(0, {b}) ELSE Absent]
  /\ tags = [t \in 1 .. MaxTag |-> Absent]
  /\ pc = "idle" /\ merge = NewStatus /\ want = NoSpec /\ at = 0
  /\ faults = 0 /\ edits = 0

-----------------------------------------------------------------------------
(* Calls.                                                                  *)

Fault == faults < MaxFaults /\ faults' = faults + 1

Goto(step, m) == pc' = step /\ merge' = m

\* The reconcile returns with the copy m: the deferred patch comes next.
Return(m) == Goto("conditions", m)

\* A call took effect: its answer comes and the reconcile goes on with m, or
\* is lost and it returns with e.
Answered(step, m, e) ==
  \/ Goto(step, m) /\ UNCHANGED faults
  \/ Fault /\ Return(e)

Unsettled(n) == nmr[n].phase \in {"live", "deleting"} /\ nmr[n].mr = "open"

\* The merge requests of the objects S come to an end.
End(S, mr, outcome) ==
  /\ nmr' = [n \in NMR |-> IF n \in S THEN [nmr[n] EXCEPT !.mr = mr] ELSE nmr[n]]
  /\ past' = [n \in NMR |-> IF n \in S THEN past[n] \cup {outcome} ELSE past[n]]

\* GitLab closes the merge requests whose source goes; an object may not
\* have opened its own yet.
RemoveBranch(b) ==
  /\ heads' = [heads EXCEPT ![b] = Absent]
  /\ \E S \in SUBSET {n \in NMR : heads[b].exists /\ Unsettled(n) /\ nmr[n].source = b} :
       End(S, "settled", "closed")

GetOrCreateBranch(b) ==
  heads' = IF heads[b].exists THEN heads ELSE [heads EXCEPT ![b] = heads[main]]

Found(n) == n # 0 /\ nmr[n].phase \in {"live", "deleting"}

NewNMR(s, t, auto) ==
  [NoNMR EXCEPT !.phase = "live", !.source = s, !.target = t, !.autoAccept = auto,
                !.mr = "open"]

\* getOrCreateNativeMR: r is the number of the object, or 0 for an error.
GetOrCreateNativeMR(n, s, t, auto, r) ==
  /\ UNCHANGED past
  /\ \/ Found(n) /\ r = n /\ UNCHANGED <<nmr, lastNMR, faults>>
     \/ /\ ~Found(n) /\ lastNMR < MaxNMR
        /\ lastNMR' = lastNMR + 1
        /\ nmr' = [nmr EXCEPT ![lastNMR + 1] = NewNMR(s, t, auto)]
        /\ \/ r = lastNMR + 1 /\ UNCHANGED faults
           \/ r = 0 /\ Fault
     \/ r = 0 /\ Fault /\ UNCHANGED <<nmr, lastNMR>>

\* deleteNativeMR.  An object without its finalizer yet goes at once.
DeleteNativeMR(n) ==
  /\ UNCHANGED <<lastNMR, past>>
  /\ \/ /\ Found(n)
        /\ \E p \in {"deleting"} \cup IF past[n] = {} THEN {"gone"} ELSE {} :
             nmr' = [nmr EXCEPT ![n].phase = p]
     \/ ~Found(n) /\ UNCHANGED nmr

-----------------------------------------------------------------------------
(* The reconcile.                                                          *)

Names(bs) == {bs[k].name : k \in DOMAIN bs}

Listed(l) == {l[k] : k \in DOMAIN l}

\* len(add) > 0 || len(remove) > 0, and len(remove) > 0.
Changed(m, w) == Names(m.branches) # Listed(w.branches)
Shrunk(m, w) == ~(Names(m.branches) \subseteq Listed(w.branches))

HasConflict(m) == \E k \in DOMAIN m.branches : m.branches[k].conflict

\* Reads the object and looks the project up.
Reconcile ==
  /\ pc = "idle" /\ want' = spec /\ at' = 1
  /\ \/ /\ stored.phase = "live" /\ ~stored.finalizer
        /\ Return([stored EXCEPT !.finalizer = TRUE]) /\ UNCHANGED faults
     \/ /\ stored.phase = "live" /\ stored.finalizer
        /\ \/ /\ Goto(IF Changed(stored, spec) THEN "dropResolveBranch" ELSE "branches",
                     [stored EXCEPT !.conditions.repositories = "True"])
              /\ UNCHANGED faults
           \/ Fault /\ Return([stored EXCEPT !.conditions.repositories = "False"])
     \/ /\ stored.phase = "deleting"
        /\ Return([stored EXCEPT !.finalizer = FALSE]) /\ UNCHANGED faults
  /\ UNCHANGED <<spec, stored, objects, gitlab, edits>>

\* removeConflictStateIfExist: the resolve branch, then its object.
DropResolveBranch ==
  /\ pc = "dropResolveBranch"
  /\ \/ /\ merge.resolveName = <<>> /\ Goto("dropResolveMR", merge)
        /\ UNCHANGED <<heads, nmr, past, faults>>
     \/ /\ merge.resolveName # <<>> /\ RemoveBranch(merge.resolveName)
        /\ Answered("dropResolveMR", merge, merge)
     \/ merge.resolveName # <<>> /\ Fault /\ Return(merge) /\ UNCHANGED <<heads, nmr, past>>
  /\ UNCHANGED <<spec, stored, lastNMR, tags, want, at, edits>>

\* Variant: the object of the resolve branch is not forgotten.
ConflictStateLeft(m) == [m EXCEPT !.recreated = FALSE, !.resolveName = <<>>]

NoConflictState(m) == [m EXCEPT !.recreated = FALSE, !.resolveName = <<>>, !.resolveMR = 0]

DropResolveMR ==
  /\ pc = "dropResolveMR"
  /\ \/ /\ merge.resolveMR = 0 /\ Goto("dropFinalMR", NoConflictState(merge))
        /\ UNCHANGED <<objects, faults>>
     \/ /\ merge.resolveMR # 0 /\ DeleteNativeMR(merge.resolveMR)
        /\ Answered("dropFinalMR", NoConflictState(merge), merge)
     \/ merge.resolveMR # 0 /\ Fault /\ Return(merge) /\ UNCHANGED objects
  /\ UNCHANGED <<spec, stored, gitlab, want, at, edits>>

\* Variant: only the tag is forgotten.
TagForgotten(m) == [m EXCEPT !.finalTag = 0]

ReleaseForgotten(m) == [m EXCEPT !.finalMR = 0, !.finalTag = 0]

\* deleteFinalMRIfExist: the tag is forgotten with the object, if there is one.
DropFinalMR ==
  /\ pc = "dropFinalMR"
  /\ LET next == IF Shrunk(merge, want) THEN "dropBuild" ELSE "branches" IN
     \/ merge.finalMR = 0 /\ Goto(next, merge) /\ UNCHANGED <<objects, faults>>
     \/ /\ merge.finalMR # 0 /\ DeleteNativeMR(merge.finalMR)
        /\ Answered(next, ReleaseForgotten(merge), merge)
     \/ merge.finalMR # 0 /\ Fault /\ Return(merge) /\ UNCHANGED objects
  /\ UNCHANGED <<spec, stored, gitlab, want, at, edits>>

ReleaseBranchFailed(m) == [m EXCEPT !.conditions.releaseBranch = "False"]

\* A branch was taken out of the release: the build branch starts over.
DropBuild ==
  /\ pc = "dropBuild"
  /\ \/ RemoveBranch(build) /\ Answered("dropMRs", merge, ReleaseBranchFailed(merge))
     \/ Fault /\ Return(ReleaseBranchFailed(merge)) /\ UNCHANGED <<heads, nmr, past>>
  /\ UNCHANGED <<spec, stored, lastNMR, tags, want, at, edits>>

\* deleteBranchesNativeMR, one object a step; then the status starts over.
DropBranchMRs ==
  /\ pc = "dropMRs"
  /\ \/ /\ at > Len(merge.branches) /\ at' = 1
        /\ Goto("branches", [merge EXCEPT !.branches = <<>>])
        /\ UNCHANGED <<objects, faults>>
     \/ /\ at <= Len(merge.branches) /\ at' = at + 1
        /\ \/ merge.branches[at].nmr = 0 /\ Goto("dropMRs", merge) /\ UNCHANGED <<objects, faults>>
           \/ /\ merge.branches[at].nmr # 0 /\ DeleteNativeMR(merge.branches[at].nmr)
              /\ Answered("dropMRs", [merge EXCEPT !.branches[at].nmr = 0],
                          ReleaseBranchFailed(merge))
           \/ /\ merge.branches[at].nmr # 0 /\ Fault /\ Return(ReleaseBranchFailed(merge))
              /\ UNCHANGED objects
  /\ UNCHANGED <<spec, stored, gitlab, want, edits>>

NewBranch(b) == [name |-> b, nmr |-> 0, valid |-> FALSE, conflict |-> FALSE, processed |-> FALSE]

\* Variant: the branches that are there already are added again.
ExtendedTwice(m, w) == m.branches \o [k \in DOMAIN w.branches |-> NewBranch(w.branches[k])]

\* The branches that are new in w, in its order.
Added(m, w) ==
  CHOOSE l \in Lists :
    /\ Listed(l) = Listed(w.branches) \ Names(m.branches)
    /\ \E place \in [DOMAIN l -> DOMAIN w.branches] :
         /\ \A k \in DOMAIN l : l[k] = w.branches[place[k]]
         /\ \A j, k \in DOMAIN l : j < k => place[j] < place[k]

\* The status with the branches that are new in w.
Extended(m, w) ==
  LET new == Added(m, w)
  IN  m.branches \o [k \in DOMAIN new |-> NewBranch(new[k])]

Validated(bs, failed) ==
  [k \in DOMAIN bs |-> [bs[k] EXCEPT !.valid = heads[bs[k].name].exists /\ k # failed]]

\* addBranchesToStatus: a branch that cannot be looked up is not valid.
AddBranchesToStatus ==
  /\ pc = "branches"
  /\ LET bs == Extended(merge, want) IN
     \/ Goto("build", [merge EXCEPT !.branches = Validated(bs, 0)]) /\ UNCHANGED faults
     \/ \E k \in DOMAIN bs :
          Fault /\ Goto("build", [merge EXCEPT !.branches = Validated(bs, k)])
  /\ UNCHANGED <<spec, stored, objects, gitlab, want, at, edits>>

GetOrCreateBuildBranch ==
  /\ pc = "build"
  /\ \/ GetOrCreateBranch(build) /\ Answered("nmrs", merge, ReleaseBranchFailed(merge))
     \/ Fault /\ Return(ReleaseBranchFailed(merge)) /\ UNCHANGED heads
  /\ UNCHANGED <<spec, stored, objects, tags, want, at, edits>>

\* Variant: the object is recorded once it is processed.
NotedLate(bs, k, r) ==
  [bs EXCEPT ![k].nmr = IF nmr'[r].processed THEN r ELSE 0,
             ![k].conflict = nmr'[r].hasConflict, ![k].processed = nmr'[r].processed]

\* What the status keeps of object r, as it is after the call.
Noted(bs, k, r) ==
  [bs EXCEPT ![k].nmr = r, ![k].conflict = nmr'[r].hasConflict, ![k].processed = nmr'[r].processed]

\* The loop over the branches of the status, one object a step.
EnsureBranchMR ==
  /\ pc = "nmrs" /\ at <= Len(merge.branches) /\ at' = at + 1
  /\ \E r \in 0 .. MaxNMR :
       /\ GetOrCreateNativeMR(merge.branches[at].nmr, merge.branches[at].name, build, TRUE, r)
       /\ IF r = 0 THEN Return(merge)
          ELSE Goto("nmrs", [merge EXCEPT !.branches = Noted(@, at, r)])
  /\ UNCHANGED <<spec, stored, gitlab, want, edits>>

\* Variant: the first branch that is processed is enough.
SomeProcessed(m) == \E k \in DOMAIN m.branches : m.branches[k].processed

\* Variant: a branch that conflicts is waited for as well.
AllMerged(m) ==
  \A k \in DOMAIN m.branches : m.branches[k].processed /\ ~m.branches[k].conflict

AllProcessed(m) == \A k \in DOMAIN m.branches : m.branches[k].processed

\* Variant: the build branch starts over whenever there is a conflict.
AlwaysRecreated(m) == TRUE

ToBeRecreated(m) == ~m.recreated

\* All branches must exist and be processed before the release goes on.
Judge ==
  /\ pc = "nmrs" /\ at > Len(merge.branches)
  /\ LET exist == [merge EXCEPT !.conditions.branchesExist = "True"] IN
     \/ /\ \E k \in DOMAIN merge.branches : ~merge.branches[k].valid
        /\ Return([merge EXCEPT !.conditions.branchesExist = "False"])
     \/ /\ \A k \in DOMAIN merge.branches : merge.branches[k].valid
        /\ \/ ~AllProcessed(merge) /\ Return([exist EXCEPT !.conditions.branchMerged = "False"])
           \/ /\ AllProcessed(merge) /\ HasConflict(merge)
              /\ Goto(IF ToBeRecreated(merge) THEN "recreate" ELSE "resolveBranch", exist)
           \/ AllProcessed(merge) /\ ~HasConflict(merge) /\ Goto("compare", exist)
  /\ UNCHANGED <<spec, stored, objects, gitlab, want, at, bounds>>

\* reconcileConflict.  RecreateBranch removes the build branch, if there is
\* one, and then creates it from main.
RecreateBuild ==
  /\ pc = "recreate"
  /\ \/ RemoveBranch(build) /\ Answered("createBuild", merge, ReleaseBranchFailed(merge))
     \/ Fault /\ Return(ReleaseBranchFailed(merge)) /\ UNCHANGED <<heads, nmr, past>>
  /\ UNCHANGED <<spec, stored, lastNMR, tags, want, at, edits>>

CreateBuild ==
  /\ pc = "createBuild"
  /\ \/ /\ heads' = [heads EXCEPT ![build] = heads[main]]
        /\ Answered("resolveBranch", [merge EXCEPT !.recreated = TRUE],
                    ReleaseBranchFailed(merge))
     \/ Fault /\ Return(ReleaseBranchFailed(merge)) /\ UNCHANGED heads
  /\ UNCHANGED <<spec, stored, objects, tags, want, at, edits>>

ResolveName(m) == [k \in DOMAIN m.branches |-> m.branches[k].name]

GetOrCreateResolveBranch ==
  /\ pc = "resolveBranch"
  /\ \/ GetOrCreateBranch(ResolveName(merge))
        /\ Answered("resolveMR", merge, ReleaseBranchFailed(merge))
     \/ Fault /\ Return(ReleaseBranchFailed(merge)) /\ UNCHANGED heads
  /\ UNCHANGED <<spec, stored, objects, tags, want, at, edits>>

\* The conflict is resolved once the object reports itself Ready.
EnsureResolveMR ==
  /\ pc = "resolveMR"
  /\ \E r \in 0 .. MaxNMR :
       /\ GetOrCreateNativeMR(merge.resolveMR, ResolveName(merge), build, TRUE, r)
       /\ LET m == IF r = 0 THEN merge
                   ELSE [merge EXCEPT !.resolveName = ResolveName(merge), !.resolveMR = r] IN
          IF r # 0 /\ ~nmr'[r].hasConflict /\ nmr'[r].ready
          THEN Goto("compare", [m EXCEPT !.conditions.resolved = "True"])
          ELSE Return([m EXCEPT !.conditions.resolved = "False"])
  /\ UNCHANGED <<spec, stored, gitlab, want, at, edits>>

\* createTag: nothing is tagged while the build branch is still main.
CompareWithMain ==
  /\ pc = "compare"
  /\ \/ heads[build].exists /\ heads[build] # heads[main] /\ Goto("tag", merge) /\ UNCHANGED faults
     \/ (~heads[build].exists \/ heads[build] = heads[main]) /\ Return(merge) /\ UNCHANGED faults
     \/ Fault /\ Return(merge)
  /\ UNCHANGED <<spec, stored, objects, gitlab, want, at, edits>>

\* The version after the latest; v0.0.1 when there is none.
NextVersion == 1 + Cardinality({u \in DOMAIN tags : tags[u].exists})

\* Variant: every pass makes a version of its own.
NewTag(m) == NextVersion

TagOf(m) == IF m.finalTag = 0 THEN NextVersion ELSE m.finalTag

\* createFinalTag: a tag that the status names or that exists is not moved.
\* The build branch is there: only this worker removes it.
CreateFinalTag ==
  /\ pc = "tag"
  /\ LET t == TagOf(merge)
          tagged == [merge EXCEPT !.finalTag = t] IN
     \/ /\ t <= MaxTag /\ tags[t].exists /\ Goto("finalMR", tagged) /\ UNCHANGED <<tags, faults>>
     \/ /\ t <= MaxTag /\ ~tags[t].exists
        /\ tags' = [tags EXCEPT ![t] = heads[build]]
        /\ Answered("finalMR", tagged, merge)
     \/ Fault /\ Return(merge) /\ UNCHANGED tags
  /\ UNCHANGED <<spec, stored, objects, heads, want, at, edits>>

EnsureFinalMR ==
  /\ pc = "finalMR"
  /\ \E r \in 0 .. MaxNMR :
       /\ GetOrCreateNativeMR(merge.finalMR, build, main, want.acceptFinalMR, r)
       /\ IF r = 0 THEN Return(merge) ELSE Goto("setAuto", [merge EXCEPT !.finalMR = r])
  /\ UNCHANGED <<spec, stored, gitlab, want, at, edits>>

Merged(m) == [m EXCEPT !.conditions.branchMerged = "True"]

\* createFinalMR keeps Spec.AutoAccept of the object up to date.  The object
\* is there: only this worker deletes it.
SetAutoAccept ==
  /\ pc = "setAuto"
  /\ \/ /\ nmr' = [nmr EXCEPT ![merge.finalMR].autoAccept = want.acceptFinalMR]
        /\ \/ Return(Merged(merge)) /\ UNCHANGED faults
           \/ Fault /\ Return(merge)
     \/ Fault /\ Return(merge) /\ UNCHANGED nmr
  /\ UNCHANGED <<spec, stored, lastNMR, past, gitlab, want, at, edits>>

\* Variant: AllBranchMerged is not among the conditions that count.
SummaryOfFew(m) ==
  LET c == m.conditions
      scope == {c.repositories, c.releaseBranch, c.branchesExist}
                 \cup IF HasConflict(m) THEN {c.resolved} ELSE {}
  IN  IF scope = {"absent"} THEN c.ready
      ELSE IF scope \subseteq {"absent", "True"} THEN "True" ELSE "False"

\* SetSummary over the conditions there are; the conflict's only when the
\* copy has one.
Summary(m) ==
  LET c == m.conditions
      scope == {c.repositories, c.releaseBranch, c.branchesExist, c.branchMerged}
                 \cup IF HasConflict(m) THEN {c.resolved} ELSE {}
  IN  IF scope = {"absent"} THEN c.ready
      ELSE IF scope \subseteq {"absent", "True"} THEN "True" ELSE "False"

Stored == stored.phase \in {"live", "deleting"}

\* patchHelper.Patch, first call: the conditions.
PatchConditions ==
  /\ pc = "conditions" /\ pc' = "object"
  /\ \/ /\ Stored /\ UNCHANGED faults
        /\ stored' = [stored EXCEPT !.conditions = [merge.conditions EXCEPT !.ready = Summary(merge)]]
     \/ ~Stored /\ UNCHANGED <<stored, faults>>
     \/ Fault /\ UNCHANGED stored
  /\ UNCHANGED <<spec, objects, gitlab, merge, want, at, edits>>

Done == pc' = "idle" /\ merge' = NewStatus /\ want' = NoSpec /\ at' = 0

\* Variant: the finalizers are merged, not replaced.
PatchedMerging(s, m) ==
  [m EXCEPT !.phase = s.phase, !.finalizer = m.finalizer \/ s.finalizer,
            !.conditions = s.conditions]

Patched(s, m) ==
  [m EXCEPT !.phase = IF s.phase = "deleting" /\ ~m.finalizer THEN "gone" ELSE s.phase,
            !.conditions = s.conditions]

\* Second call: the finalizer and the status, whatever became of the first.
PatchObject ==
  /\ pc = "object" /\ Done
  /\ \/ Stored /\ stored' = Patched(stored, merge) /\ UNCHANGED faults
     \/ ~Stored /\ UNCHANGED <<stored, faults>>
     \/ Fault /\ UNCHANGED stored
  /\ UNCHANGED <<spec, objects, gitlab, edits>>

\* The process dies and restarts: only the copy is lost.
Crash ==
  /\ pc # "idle" /\ Fault /\ Done
  /\ UNCHANGED <<spec, stored, objects, gitlab, edits>>

-----------------------------------------------------------------------------
(* The NativeMergeRequest controller: a subset of NMRPromise, in the order *)
(* of NativeMergeRequest's patches.                                        *)

\* What may be merged: there is something on the source, and the target.
Mergeable(n) ==
  /\ Unsettled(n)
  /\ heads[nmr[n].source].exists /\ heads[nmr[n].target].exists
  /\ nmr[n].source \in Lists => heads[nmr[n].source].on # {}

\* The heads after the merge request of n was merged.
MergedInto(n) ==
  LET t == nmr[n].target
      s == heads[nmr[n].source] IN
  [heads EXCEPT ![t] = IF t = main THEN HeadAt(heads[main].rev + 1, {})
                       ELSE HeadAt(heads[t].rev, heads[t].on \cup s.on)]

\* Merged by the controller, which then reports it Ready, unless the answer
\* or the report is lost.
Accept(n) ==
  /\ Mergeable(n) /\ nmr[n].autoAccept
  /\ nmr[n].target = main => heads[main].rev < MaxRev
  /\ heads' = MergedInto(n)
  /\ \/ End({n}, "accepted", "merged") /\ UNCHANGED faults
     \/ End({n}, "settled", "merged") /\ Fault
  /\ UNCHANGED <<spec, stored, lastNMR, tags, worker, edits>>

\* The merge request conflicts: the controller removes it.
FindConflict(n) ==
  /\ Mergeable(n) /\ nmr[n].autoAccept
  /\ End({n}, "removed", "removed")
  /\ UNCHANGED <<spec, stored, lastNMR, gitlab, worker, bounds>>

\* It conflicts, but it could not be removed.
FailToRemove(n) ==
  /\ Mergeable(n) /\ nmr[n].autoAccept /\ Fault
  /\ nmr' = [nmr EXCEPT ![n].hasConflict = TRUE]
  /\ UNCHANGED <<spec, stored, lastNMR, past, gitlab, worker, edits>>

\* It was removed, but that was not stored: another one is opened.
Reopen(n) ==
  /\ Found(n) /\ nmr[n].mr = "removed" /\ ~nmr[n].deleted /\ Fault
  /\ \E c \in {nmr[n].hasConflict, TRUE} :
       nmr' = [nmr EXCEPT ![n].mr = "open", ![n].hasConflict = c, ![n].processed = FALSE]
  /\ UNCHANGED <<spec, stored, lastNMR, past, gitlab, worker, edits>>

\* Variant: the report is about the object, not its merge request.
ReportingEarly(n) == Found(n) /\ nmr[n].autoAccept

Reporting(n) == Found(n) /\ nmr[n].autoAccept /\ nmr[n].mr \in {"settled", "removed"}

ReportReady(n) ==
  /\ Found(n) /\ nmr[n].mr = "accepted"
  /\ nmr' = [nmr EXCEPT ![n].ready = TRUE, ![n].mr = "settled"]
  /\ UNCHANGED <<spec, stored, lastNMR, past, gitlab, worker, bounds>>

\* The conditions; after a conflict they come before the rest.
ReportProcessed(n) ==
  /\ Reporting(n) /\ ~nmr[n].processed /\ ~nmr[n].deleted
  /\ heads[nmr[n].source].exists
  /\ nmr' = [nmr EXCEPT ![n].processed = TRUE]
  /\ UNCHANGED <<spec, stored, lastNMR, past, gitlab, worker, bounds>>

\* A later reconcile did not find the source, or failed.
Retract(n) ==
  /\ Reporting(n) /\ nmr[n].processed /\ nmr[n].mr = "settled"
  /\ \/ ~heads[nmr[n].source].exists /\ UNCHANGED faults
     \/ heads[nmr[n].source].exists /\ Fault
  /\ nmr' = [nmr EXCEPT ![n].processed = FALSE]
  /\ UNCHANGED <<spec, stored, lastNMR, past, gitlab, worker, edits>>

\* The rest, once the conditions were written or failed to be.
ReportConflict(n) ==
  /\ Reporting(n) /\ nmr[n].mr = "removed" /\ ~nmr[n].deleted
  /\ \/ nmr[n].processed /\ UNCHANGED faults
     \/ ~nmr[n].processed /\ Fault
  /\ nmr' = [nmr EXCEPT ![n].hasConflict = TRUE, ![n].deleted = TRUE]
  /\ UNCHANGED <<spec, stored, lastNMR, past, gitlab, worker, edits>>

Vanish(n) ==
  /\ nmr[n].phase = "deleting"
  /\ nmr' = [nmr EXCEPT ![n].phase = "gone"]
  /\ UNCHANGED <<spec, stored, lastNMR, past, gitlab, worker, bounds>>

\* The API server deletes the objects a Merge object that is gone owned.
CollectGarbage(n) ==
  /\ stored.phase = "gone" /\ nmr[n].phase = "live"
  /\ nmr' = [nmr EXCEPT ![n].phase = "deleting"]
  /\ UNCHANGED <<spec, stored, lastNMR, past, gitlab, worker, bounds>>

-----------------------------------------------------------------------------
(* The Build controller and GitLab's users.                                *)

Edit == edits < MaxEdits /\ edits' = edits + 1

ChangeSpec(s) ==
  /\ stored.phase = "live" /\ s # spec /\ Edit
  /\ spec' = s
  /\ UNCHANGED <<stored, objects, gitlab, worker, faults>>

DeleteMerge ==
  /\ stored.phase = "live" /\ Edit
  /\ stored' = [stored EXCEPT !.phase = IF stored.finalizer THEN "deleting" ELSE "gone"]
  /\ UNCHANGED <<spec, objects, gitlab, worker, faults>>

\* Users merge or close an open merge request of the operator's; Ready is
\* then never reported.
UserMerges(n) ==
  /\ Mergeable(n) /\ Edit
  /\ nmr[n].target = main => heads[main].rev < MaxRev
  /\ heads' = MergedInto(n) /\ End({n}, "settled", "merged")
  /\ UNCHANGED <<spec, stored, lastNMR, tags, worker, faults>>

UserCloses(n) ==
  /\ Unsettled(n) /\ Edit
  /\ End({n}, "settled", "closed")
  /\ UNCHANGED <<spec, stored, lastNMR, gitlab, worker, faults>>

\* A branch of the release is deleted, which closes its merge requests, or
\* comes back.
UserRemovesBranch(b) ==
  /\ heads[b].exists /\ Edit
  /\ RemoveBranch(b)
  /\ UNCHANGED <<spec, stored, lastNMR, tags, worker, faults>>

UserPushes(b) ==
  /\ ~heads[b].exists
  /\ heads' = [heads EXCEPT ![b] = HeadAt(0, {b})]
  /\ UNCHANGED <<spec, stored, objects, tags, worker, bounds>>

\* A resolution of the conflicts between the branches l.
PushResolution(l) ==
  /\ heads[l].exists /\ heads[l].on = {}
  /\ heads' = [heads EXCEPT ![l].on = Listed(l)]
  /\ UNCHANGED <<spec, stored, objects, tags, worker, bounds>>

-----------------------------------------------------------------------------

Step ==
  \/ DropResolveBranch \/ DropResolveMR \/ DropFinalMR
  \/ DropBuild \/ DropBranchMRs
  \/ AddBranchesToStatus \/ GetOrCreateBuildBranch \/ EnsureBranchMR \/ Judge
  \/ RecreateBuild \/ CreateBuild \/ GetOrCreateResolveBranch \/ EnsureResolveMR
  \/ CompareWithMain \/ CreateFinalTag \/ EnsureFinalMR \/ SetAutoAccept
  \/ PatchConditions \/ PatchObject

Settling(n) == Accept(n) \/ FindConflict(n)

Reports(n) == ReportReady(n) \/ ReportProcessed(n) \/ ReportConflict(n) \/ Vanish(n)

Failing(n) == FailToRemove(n) \/ Reopen(n) \/ Retract(n)

Users ==
  \/ \E s \in Specs : ChangeSpec(s)
  \/ DeleteMerge
  \/ \E n \in NMR : UserMerges(n) \/ UserCloses(n)
  \/ \E b \in Name : UserRemovesBranch(b) \/ UserPushes(b)
  \/ \E l \in Lists \ {<<>>} : PushResolution(l)

Next ==
  \/ Reconcile \/ Step \/ Crash
  \/ \E n \in NMR : Settling(n) \/ Reports(n) \/ Failing(n) \/ CollectGarbage(n)
  \/ Users

Spec == Init /\ [][Next]_vars

-----------------------------------------------------------------------------

TypeOK ==
  /\ spec \in [branches: Lists, acceptFinalMR: BOOLEAN]
  /\ stored \in Status /\ merge \in Status
  /\ nmr \in [NMR -> Object] /\ lastNMR \in 0 .. MaxNMR
  /\ past \in [NMR -> SUBSET Outcome]
  /\ heads \in [Branch -> Commit] /\ tags \in [1 .. MaxTag -> Commit]
  /\ pc \in {"idle", "dropResolveBranch", "dropResolveMR", "dropFinalMR", "dropBuild",
             "dropMRs", "branches", "build", "nmrs", "recreate", "createBuild",
             "resolveBranch", "resolveMR", "compare", "tag", "finalMR", "setAuto",
             "conditions", "object"}
  /\ want \in [branches: Lists, acceptFinalMR: BOOLEAN]
  /\ at \in 0 .. Cardinality(Name) + 1
  /\ faults \in 0 .. MaxFaults /\ edits \in 0 .. MaxEdits

\* The objects a copy of the Merge object refers to.
Refs(m) == {m.branches[k].nmr : k \in DOMAIN m.branches} \cup {m.resolveMR, m.finalMR}

\* Every object the status names merges the very branch it is named for:
\* recreating and forgetting objects never crosses them, whatever fails.
NamesItsOwn ==
  /\ \A k \in DOMAIN stored.branches :
       LET n == stored.branches[k].nmr IN
       n # 0 => nmr[n].source = stored.branches[k].name /\ nmr[n].target = build
  /\ stored.resolveMR # 0 =>
       nmr[stored.resolveMR].source = stored.resolveName /\ nmr[stored.resolveMR].target = build
  /\ stored.finalMR # 0 =>
       nmr[stored.finalMR].source = build /\ nmr[stored.finalMR].target = main

\* Objects nobody refers to any more, which go on merging branches.
Orphans == {n \in NMR : nmr[n].phase = "live" /\ n \notin Refs(stored) \cup Refs(merge)}

\* A failed patch or a crash orphans what its reconcile created, at most one
\* object for each branch; without failures nothing is orphaned.
OrphansNeedFaults ==
  stored.phase = "live" => Cardinality(Orphans) <= faults * Cardinality(Name)

\* A final merge request is only asked for after the release was tagged, and
\* both are given up together.
FinalMRIsTagged ==
  stored.finalMR # 0 => stored.finalTag # 0 /\ tags[stored.finalTag].exists

\* In a run without failures, a branch the release is tagged without either
\* conflicted or was closed by its users: no order in which objects report
\* and branches come and go loses another one.
TagAccountsForBranches ==
  faults = 0 /\ stored.finalMR # 0 =>
    \A k \in DOMAIN stored.branches :
      \/ stored.branches[k].name \in tags[stored.finalTag].on
      \/ past[stored.branches[k].nmr] \cap {"removed", "closed"} # {}

Released ==
  stored.finalTag # 0 /\ stored.finalMR # 0 /\ AllProcessed(stored)

\* In a run without failures and without users' edits the object of a release
\* of any branches is only Ready between two reconciles when the release was
\* tagged and its final merge request asked for.
ReadyMeansReleased ==
  faults = 0 /\ edits = 0 /\ pc = "idle" /\ stored.conditions.ready = "True" =>
    Released \/ spec.branches = <<>>

\* The tag of a release stays until its object is edited, however often the
\* reconcile is repeated; then it is given up with its final merge request,
\* and no reconcile puts another in its place unless no branch is left.
TagStays ==
  [][stored.finalTag # 0 /\ stored'.finalTag # stored.finalTag =>
       /\ edits > 0
       /\ (stored'.finalTag = 0 /\ stored'.finalMR = 0) \/ stored'.branches = <<>>]_vars

\* Once it is stored that the build branch started over for a resolution, no
\* later reconcile, crash or retry takes anything off the build branch, as
\* long as users edit nothing.
ResolutionStays ==
  [][edits = 0 /\ stored.recreated =>
       heads[build]'.exists /\ heads[build].on \subseteq heads[build]'.on]_vars

\* What the NativeMergeRequest objects do here is within their promise.
Published ==
  [n \in NMR |->
     [phase |-> nmr[n].phase, autoAccept |-> nmr[n].autoAccept, ready |-> nmr[n].ready,
      hasConflict |-> nmr[n].hasConflict, deleted |-> nmr[n].deleted,
      processed |-> nmr[n].processed]]

Promise == INSTANCE NMRPromise WITH view <- Published

\* The objects stay within what NativeMergeRequest promises: this controller
\* creates each once and deletes it once, and what the other one is here taken
\* to do is allowed to it.  That it does no more than that is not said.
WithinPromise == Promise!Spec

\* Reconciles are requeued or resynchronized for ever, and one that started
\* goes on.  The other controller settles and reports in the end, which is so
\* unless a failure hits its report (NativeMergeRequest, Settles) or an open
\* merge request is in its way.  Nothing is assumed of users.
Fairness ==
  /\ WF_vars(Reconcile) /\ WF_vars(Step)
  /\ \A n \in NMR : WF_vars(Settling(n)) /\ WF_vars(Reports(n)) /\ WF_vars(CollectGarbage(n))

FairSpec == Spec /\ Fairness

AwaitsUsers ==
  \/ \E k \in DOMAIN stored.branches : ~heads[stored.branches[k].name].exists
  \/ stored.resolveName # <<>> /\ heads[stored.resolveName].on = {}
  \/ stored.resolveMR # 0 /\ past[stored.resolveMR] # {"merged"}

\* Left to itself, that is without failures, edits and actions of users, every
\* release is completed, unless it waits for its users to push a branch or a
\* resolution that merges.  A resolution that users merge is such an action.
Progresses ==
  (stored.phase = "live") ~>
    \/ stored.conditions.branchMerged = "True"
    \/ AwaitsUsers \/ edits > 0 \/ faults > 0

\* A Merge object that is deleted goes, and its NativeMergeRequests with it.
DeletionCompletes ==
  (stored.phase = "deleting") ~>
    (stored.phase = "gone" /\ \A n \in NMR : ~Found(n))

\* README.md:51: synchronizing "untile the desired state is reached".  Here:
\* once the conflict counts as resolved and the release as merged, its tag
\* has every branch.
ResolvedReleaseIsTagged ==
  (stored.conditions.branchMerged = "True" /\ stored.conditions.resolved = "True") ~>
    /\ stored.finalTag # 0
    /\ Names(stored.branches) \subseteq tags[stored.finalTag].on

\* README.md:51: the same.  Here: the tag of a release has no branch that was taken out
\* of it.
TagHasOnlyItsBranches ==
  stored.finalTag # 0 => tags[stored.finalTag].on \subseteq Names(stored.branches)

=============================================================================
