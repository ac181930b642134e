------------------------------ MODULE Versions ------------------------------
(***************************************************************************)
(* The versions of one GitLab project, which several Merge objects tag     *)
(* their build branches with: createFinalTag takes the latest version it   *)
(* is shown, adds one and gets or creates the tag of that name.            *)
(*                                                                         *)
(* Nothing reserves a version.  The controller is shown one page of tags,  *)
(* in the order of their names, not of their versions; between the page    *)
(* and the tag, and between the tag and the patch that stores its name,    *)
(* calls fail, the process crashes, branches of the release change and     *)
(* users push and delete tags of their own.  Merge has what comes before   *)
(* the tag; here a release is a number, and is merged when it is.          *)
(***************************************************************************)
EXTENDS Naturals, Sequences, FiniteSets

CONSTANTS
  Merges,       \* Merge objects of the project
  Nobody,       \* no Merge
  Before,       \* the versions the project has already, n being v0.0.n
  PageSize,     \* tags in an answer of GitLab
  MaxTag,       \* bound: the greatest version, more than can be needed
  MaxFaults,    \* bound: failed calls, lost answers and crashes
  MaxEdits,     \* bound: changes of the branches of Merge objects
  MaxMeddling   \* bound: tags that users push or delete

ASSUME ConstantsOK ==
  /\ Nobody \notin Merges
  /\ PageSize \in Nat \ {0} /\ MaxTag \in Nat /\ Before \subseteq 1 .. MaxTag
  /\ MaxFaults \in Nat /\ MaxEdits \in Nat /\ MaxMeddling \in Nat

VARIABLES
  asked,    \* the API server: the release a Merge asks for
  stored,   \* the API server: its status
  built,    \* GitLab: the release that is on its build branch
  tags,     \* GitLab: n -> what is tagged v0.0.n
  others,   \* GitLab: tags that are no versions
  pc,       \* the worker: the step of the reconcile it is in
  cur,      \* the worker: the Merge it reconciles
  copy,     \* the worker: its copy of the status
  want,     \* the worker: the release that was asked for when it read it
  version,  \* the worker: the version it is about to tag
  faults,   \* failures so far
  edits,    \* changes of branches so far
  meddling  \* tags pushed and deleted by users so far

gitlab == <<built, tags, others>>
worker == <<pc, cur, copy, want, version>>
bounds == <<faults, edits, meddling>>
vars == <<asked, stored, gitlab, worker, bounds>>

Version == 1 .. MaxTag

\* The releases a Merge may ask for, 0 being none.
Release == 0 .. MaxEdits + 1

\* The release a status is about, its tag, 0 being none, and whether there is
\* a final merge request.
Status == [release: Release, tag: 0 .. MaxTag, finalMR: BOOLEAN]

\* What is tagged; users' commits are no Merge's.
Commit == [of: Merges \cup {Nobody}, release: Release]

\* There is no tag.
Untagged == [of |-> Nobody]

Tagged(m, r) == [of |-> m, release |-> r]

NewStatus == [release |-> 0, tag |-> 0, finalMR |-> FALSE]

Init ==
  /\ asked = [m \in Merges |-> 1] /\ stored = [m \in Merges |-> NewStatus]
  /\ built = [m \in Merges |-> 0]
  /\ tags = [n \in Version |-> IF n \in Before THEN Tagged(Nobody, 0) ELSE Untagged]
  /\ others = {}
  /\ pc = "idle" /\ cur = Nobody /\ copy = NewStatus /\ want = 0 /\ version = 0
  /\ faults = 0 /\ edits = 0 /\ meddling = 0

-----------------------------------------------------------------------------
(* The order of names.                                                     *)

\* The digits of a version, as they are written.
Digits(n) ==
  IF n < 10 THEN <<n>>
  ELSE IF n < 100 THEN <<n \div 10, n % 10>>
  ELSE <<n \div 100, (n \div 10) % 10, n % 10>>

\* The name v0.0.k comes before v0.0.n in the order of the alphabet.
NameLess(k, n) ==
  LET a == Digits(k)
      b == Digits(n) IN
  \/ Len(a) < Len(b) /\ \A i \in DOMAIN a : a[i] = b[i]
  \/ \E i \in DOMAIN a \cap DOMAIN b : a[i] < b[i] /\ \A j \in 1 .. i - 1 : a[j] = b[j]

\* The names that come after that of a version.
After == [n \in Version |-> {k \in Version : NameLess(n, k)}]

Free(n) == tags[n] = Untagged

Existing == {n \in Version : ~Free(n)}

\* Client.ListTags: the first page, the last names first.  Of the tags that are no
\* versions, those "above" come before all versions, those "below" after them.
Page == {n \in Existing : Cardinality(After[n] \cap Existing) < PageSize}

OthersOnPage == "above" \in others \/ ("below" \in others /\ Cardinality(Existing) < PageSize)

\* Variant: the latest by name.
LatestByName(P) == CHOOSE n \in P : P \cap After[n] = {}

\* getLatestVersion, which sorts by version.
Latest(P) == CHOOSE n \in P : \A k \in P : k <= n

\* The first version is v0.0.1.
NextVersion == IF Page = {} THEN 1 ELSE Latest(Page) + 1

-----------------------------------------------------------------------------
(* The reconcile.                                                          *)

Fault == faults < MaxFaults /\ faults' = faults + 1

Goto(step, c) == pc' = step /\ copy' = c

\* The reconcile returns with the copy c: the deferred patch comes next.
Return(c) == Goto("patch", c)

\* A call took effect: its answer comes, or is lost and it returns with e.
Answered(step, c, e) ==
  \/ Goto(step, c) /\ UNCHANGED faults
  \/ Fault /\ Return(e)

\* Variant: every reconcile takes a new version.
ToNewTag(c) ==
  /\ version' = 0
  /\ IF built[cur'] = c.release THEN Goto("list", c) ELSE Return(c)

\* Variant: the tag of the status is taken even if there is none.
ToNoTag(c) ==
  /\ version' = c.tag
  /\ IF built[cur'] = c.release THEN Goto("get", c) ELSE Return(c)

\* Variant: a tag that is known is not looked up.
ToKnownTag(c) ==
  /\ version' = c.tag
  /\ IF built[cur'] = c.release THEN Goto(IF c.tag = 0 THEN "list" ELSE "finalMR", c) ELSE Return(c)

\* Where the reconcile goes on with a release whose branches are merged; the
\* version of a tag that is known is taken again.
ToTag(c) ==
  /\ version' = c.tag
  /\ IF built[cur'] = c.release THEN Goto(IF c.tag = 0 THEN "list" ELSE "get", c) ELSE Return(c)

Reconcile(m) ==
  /\ pc = "idle" /\ cur' = m /\ want' = asked[m]
  /\ IF stored[m].release = asked[m] THEN ToTag(stored[m])
     ELSE Goto("drop", stored[m]) /\ UNCHANGED version
  /\ UNCHANGED <<asked, stored, gitlab, bounds>>

\* Variant: the tag is not forgotten.
TagKept(c) == [c EXCEPT !.finalMR = FALSE]

Forgotten(c) == IF c.finalMR THEN [c EXCEPT !.finalMR = FALSE, !.tag = 0] ELSE c

\* deleteFinalMRIfExist, which forgets the tag only with a merge request; then
\* the status is about the new release.
DropFinalMR ==
  /\ pc = "drop" /\ UNCHANGED cur
  /\ \/ ToTag([Forgotten(copy) EXCEPT !.release = want]) /\ UNCHANGED faults
     \/ copy.finalMR /\ Fault /\ Return(copy) /\ UNCHANGED version
  /\ UNCHANGED <<asked, stored, gitlab, want, edits, meddling>>

\* ListTags, and the version after the latest on the page; a tag that is no
\* version is an error.
ListTags ==
  /\ pc = "list"
  /\ \/ /\ ~OthersOnPage /\ NextVersion <= MaxTag /\ version' = NextVersion
        /\ Goto("get", copy) /\ UNCHANGED faults
     \/ OthersOnPage /\ Return(copy) /\ UNCHANGED <<version, faults>>
     \/ Fault /\ Return(copy) /\ UNCHANGED version
  /\ UNCHANGED <<asked, stored, gitlab, cur, want, edits, meddling>>

\* GetOrCreateTag: a tag of that name that is there is taken for the release's.
GetTag ==
  /\ pc = "get"
  /\ \/ ~Free(version) /\ Goto("finalMR", [copy EXCEPT !.tag = version]) /\ UNCHANGED faults
     \/ Free(version) /\ Goto("create", copy) /\ UNCHANGED faults
     \/ Fault /\ Return(copy)
  /\ UNCHANGED <<asked, stored, gitlab, cur, want, version, edits, meddling>>

CreateTag ==
  /\ pc = "create"
  /\ \/ /\ Free(version)
        /\ tags' = [tags EXCEPT ![version] = Tagged(cur, built[cur])]
        /\ Answered("finalMR", [copy EXCEPT !.tag = version], copy)
     \/ /\ (~Free(version) /\ UNCHANGED faults) \/ Fault
        /\ Return(copy) /\ UNCHANGED tags
  /\ UNCHANGED <<asked, stored, built, others, cur, want, version, edits, meddling>>

\* createFinalMR.
EnsureFinalMR ==
  /\ pc = "finalMR"
  /\ Answered("patch", [copy EXCEPT !.finalMR = TRUE], copy)
  /\ UNCHANGED <<asked, stored, gitlab, cur, want, version, edits, meddling>>

Done == pc' = "idle" /\ cur' = Nobody /\ copy' = NewStatus /\ want' = 0 /\ version' = 0

PatchStatus ==
  /\ pc = "patch" /\ Done
  /\ \/ /\ stored' = [stored EXCEPT ![cur] = copy]
        /\ UNCHANGED faults \/ (copy # stored[cur] /\ Fault)
     \/ copy # stored[cur] /\ Fault /\ UNCHANGED stored
  /\ UNCHANGED <<asked, gitlab, edits, meddling>>

\* The process dies and restarts: only the copy is lost.
Crash ==
  /\ pc # "idle" /\ Fault /\ Done
  /\ UNCHANGED <<asked, stored, gitlab, edits, meddling>>

-----------------------------------------------------------------------------
(* The other controllers and the users.                                    *)

\* The branches of the release are merged.
MergeBranches(m) ==
  /\ built[m] # stored[m].release
  /\ built' = [built EXCEPT ![m] = stored[m].release]
  /\ UNCHANGED <<asked, stored, tags, others, worker, bounds>>

ChangeBranches(m) ==
  /\ edits < MaxEdits /\ edits' = edits + 1
  /\ asked' = [asked EXCEPT ![m] = @ + 1]
  /\ UNCHANGED <<stored, gitlab, worker, faults, meddling>>

Meddle == meddling < MaxMeddling /\ meddling' = meddling + 1

\* Users push a version that comes next to another, or delete one of those
\* pushed since the beginning.
UserTags ==
  /\ Meddle
  /\ \E n \in Version :
       \/ Free(n) /\ n - 1 \in Existing /\ tags' = [tags EXCEPT ![n] = Tagged(Nobody, 0)]
       \/ ~Free(n) /\ n \notin Before /\ tags' = [tags EXCEPT ![n] = Untagged]
  /\ UNCHANGED <<asked, stored, built, others, worker, faults, edits>>

\* They push a tag that is no version, or delete it.
UserTagsOther(o) ==
  /\ Meddle
  /\ others' = IF o \in others THEN others \ {o} ELSE others \cup {o}
  /\ UNCHANGED <<asked, stored, built, tags, worker, faults, edits>>

-----------------------------------------------------------------------------

Step == DropFinalMR \/ ListTags \/ GetTag \/ CreateTag \/ EnsureFinalMR \/ PatchStatus

Users ==
  \/ \E m \in Merges : ChangeBranches(m)
  \/ UserTags \/ \E o \in {"above", "below"} : UserTagsOther(o)

Next ==
  \/ \E m \in Merges : Reconcile(m) \/ MergeBranches(m)
  \/ Step \/ Crash \/ Users

Spec == Init /\ [][Next]_vars

-----------------------------------------------------------------------------

\* The types, and what the calls take: a tag is only ever looked up, created
\* or stored under the name of a version, never under the empty name that a
\* status without a tag has.
TypeOK ==
  /\ asked \in [Merges -> Release] /\ stored \in [Merges -> Status]
  /\ built \in [Merges -> Release]
  /\ tags \in [Version -> Commit \cup {Untagged}]
  /\ others \subseteq {"above", "below"}
  /\ pc \in {"idle", "drop", "list", "get", "create", "finalMR", "patch"}
  /\ cur \in Merges \cup {Nobody} /\ (cur = Nobody <=> pc = "idle")
  /\ copy \in Status /\ want \in Release /\ version \in 0 .. MaxTag
  /\ pc \in {"get", "create", "finalMR"} => version \in Version
  /\ faults \in 0 .. MaxFaults /\ edits \in 0 .. MaxEdits /\ meddling \in 0 .. MaxMeddling

\* The page shows the latest version as long as there is none above v0.0.99.
UnderHundred == \A n \in Existing : n < 100

\* As long as there are versions below a hundred only, and users do not push
\* or delete any, a release is tagged with a version of its own, never with
\* that of another Merge, whatever the page leaves out and whatever fails or
\* crashes; nor with that of a release before it, unless a call failed and
\* branches were changed.  The runs of TaggedAsAsked show what the two
\* exceptions hide.
ReleaseHasItsTag ==
  meddling = 0 /\ UnderHundred => \A m \in Merges :
    stored[m].finalMR =>
      \E r \in 0 .. stored[m].release :
        /\ tags[stored[m].tag] = Tagged(m, r)
        /\ faults = 0 \/ edits = 0 => r = stored[m].release

\* Versions only grow: each is later than all there are.
VersionsGrow ==
  [][meddling' = 0 => \A n \in Version : tags'[n] # tags[n] => \A k \in Existing : k < n]_vars

\* A release is given one version, and another one only for a failure.
VersionsNeedFaults ==
  meddling = 0 =>
    \A m \in Merges : \A r \in Release : r # 0 =>
      Cardinality({n \in Version : tags[n] = Tagged(m, r)}) <= 1 + faults

\* A reconcile is asked for again and again and goes on, and branches are
\* merged.  Nothing is assumed of users.
Fairness ==
  /\ WF_vars(Step)
  /\ \A m \in Merges : SF_vars(Reconcile(m)) /\ WF_vars(MergeBranches(m))

FairSpec == Spec /\ Fairness

\* In the end every release is tagged and stays so, even if users delete its
\* tag, unless a tag on the page is no version.
Releases ==
  \A m \in Merges : <>[](OthersOnPage \/
    (stored[m].release = asked[m] /\ stored[m].finalMR /\ ~Free(stored[m].tag)))

\* README.md:51: synchronizing "untile the desired state is reached".  Here:
\* the release that was asked for is what its tag has.
TaggedAsAsked ==
  \A m \in Merges : stored[m].finalMR /\ stored[m].release = asked[m] =>
    tags[stored[m].tag] = Tagged(m, asked[m])

=============================================================================
