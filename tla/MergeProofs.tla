------------------------------ MODULE MergeProofs ------------------------------
(***************************************************************************)
(* What holds of the Merge controller for any branches, any number of      *)
(* objects, tags, failures, crashes and edits.                             *)
(***************************************************************************)
EXTENDS Merge, FiniteSetTheorems, SequenceTheorems, WellFoundedInduction, TLAPS

-----------------------------------------------------------------------------
(* Lists.                                                                  *)

\* What is asked for, of any branches.
SpecType == [branches: Lists, acceptFinalMR: BOOLEAN]

\* The branches of a status.
BranchList == UNION {[1 .. k -> BranchStatus] : k \in 0 .. Cardinality(Name)}

\* No branch is in a list of the status twice.
Distinct(bs) == \A k, l \in DOMAIN bs : bs[k].name = bs[l].name => k = l

\* There are finitely many names.
LEMMA NamesNumber == ConstantsOK => Cardinality(Name) \in Nat
BY FS_CardinalityType DEF ConstantsOK

\* A function on a beginning of the numbers is a sequence.
LEMMA BoundedLists ==
  ASSUME NEW S, NEW N \in Nat, NEW l, l \in UNION {[1 .. k -> S] : k \in 0 .. N}
  PROVE  /\ l \in Seq(S) /\ Len(l) \in 0 .. N
         /\ DOMAIN l = 1 .. Len(l) /\ l \in [1 .. Len(l) -> S]
<1>1. PICK k \in 0 .. N : l \in [1 .. k -> S]
  OBVIOUS
<1>2. k \in Nat /\ l \in Seq(S)
  BY <1>1, SeqDef
<1>3. Len(l) = k
  BY <1>1, <1>2
<1> QED BY <1>1, <1>2, <1>3

\* A sequence of at most N elements is among the functions the model lists.
LEMMA SeqsAreBounded ==
  ASSUME NEW S, NEW N \in Nat, NEW l \in Seq(S), Len(l) <= N
  PROVE  l \in UNION {[1 .. k -> S] : k \in 0 .. N}
<1>1. Len(l) \in 0 .. N /\ l \in [1 .. Len(l) -> S]
  BY LenProperties
<1> QED BY <1>1

\* A list without repetitions is no longer than there are names.
LEMMA NoLongerThanNames ==
  ASSUME ConstantsOK, NEW l \in Seq(Name), \A i, j \in DOMAIN l : l[i] = l[j] => i = j
  PROVE  Len(l) <= Cardinality(Name)
<1> DEFINE D == 1 .. Len(l)
<1>1. Len(l) \in Nat /\ l \in [D -> Name] /\ DOMAIN l = D
  BY LenProperties
<1>2. l \in Injection(D, Name)
  BY <1>1 DEF Injection, IsInjective
<1>3. Cardinality(D) <= Cardinality(Name)
  BY <1>2, FS_Injection DEF ConstantsOK
<1>4. Cardinality(D) = Len(l)
  <2>1. 1 \in Int /\ Len(l) \in Int
    BY <1>1
  <2>2. Cardinality(D) = IF 1 > Len(l) THEN 0 ELSE Len(l) - 1 + 1
    BY <2>1, FS_Interval, Zenon
  <2> QED BY <1>1, <2>2
<1> QED BY <1>3, <1>4

\* Lists are the sequences of names without a repetition, one way
LEMMA DistinctIsList ==
  ASSUME ConstantsOK, NEW l \in Seq(Name), \A i, j \in DOMAIN l : l[i] = l[j] => i = j
  PROVE  l \in Lists
<1>1. Len(l) <= Cardinality(Name) /\ Cardinality(Name) \in Nat
  BY NoLongerThanNames, NamesNumber
<1>2. l \in UNION {[1 .. k -> Name] : k \in 0 .. Cardinality(Name)}
  BY <1>1, SeqsAreBounded
<1> QED BY <1>2 DEF Lists

\* and the other.
LEMMA ListIsDistinct ==
  ASSUME ConstantsOK, NEW l \in Lists
  PROVE  /\ l \in Seq(Name) /\ Len(l) \in Nat /\ Len(l) <= Cardinality(Name)
         /\ DOMAIN l = 1 .. Len(l)
         /\ \A i \in DOMAIN l : l[i] \in Name
         /\ \A i, j \in DOMAIN l : l[i] = l[j] => i = j
         /\ Listed(l) \subseteq Name
<1>1. l \in UNION {[1 .. k -> Name] : k \in 0 .. Cardinality(Name)}
  BY DEF Lists
<1>2. /\ l \in Seq(Name) /\ Len(l) \in 0 .. Cardinality(Name) /\ DOMAIN l = 1 .. Len(l)
      /\ l \in [1 .. Len(l) -> Name]
  BY <1>1, NamesNumber, BoundedLists
<1> QED BY <1>2, NamesNumber DEF Lists, Listed

\* The branches of a status are a sequence, no longer than there are names,
LEMMA BranchListIsSeq ==
  ASSUME ConstantsOK, NEW bs \in BranchList
  PROVE  /\ bs \in Seq(BranchStatus) /\ Len(bs) \in Nat /\ Len(bs) <= Cardinality(Name)
         /\ DOMAIN bs = 1 .. Len(bs) /\ bs \in [1 .. Len(bs) -> BranchStatus]
         /\ \A k \in DOMAIN bs : bs[k] \in BranchStatus
         /\ Names(bs) \subseteq Name
<1>1. /\ bs \in Seq(BranchStatus) /\ Len(bs) \in 0 .. Cardinality(Name)
      /\ DOMAIN bs = 1 .. Len(bs) /\ bs \in [1 .. Len(bs) -> BranchStatus]
  BY NamesNumber, BoundedLists DEF BranchList
<1>2. \A k \in DOMAIN bs : bs[k] \in BranchStatus
  BY <1>1
<1>3. Names(bs) \subseteq Name
  BY <1>2 DEF Names, BranchStatus
<1> QED BY <1>1, <1>2, <1>3, NamesNumber

\* and every sequence that has no branch twice may be one.
LEMMA SeqIsBranchList ==
  ASSUME ConstantsOK, NEW bs \in Seq(BranchStatus), Distinct(bs)
  PROVE  bs \in BranchList
<1> DEFINE l == [k \in 1 .. Len(bs) |-> bs[k].name]
<1>1. Len(bs) \in Nat /\ DOMAIN bs = 1 .. Len(bs) /\ bs \in [1 .. Len(bs) -> BranchStatus]
  BY LenProperties
<1>2. l \in [1 .. Len(bs) -> Name]
  BY <1>1 DEF BranchStatus
<1>3. l \in Seq(Name)
  BY <1>1, <1>2, SeqDef
<1>4. DOMAIN l = 1 .. Len(bs) /\ Len(l) = Len(bs)
  BY <1>1, <1>3, LenProperties
<1>5. \A i, j \in DOMAIN l : l[i] = l[j] => i = j
  BY <1>1, <1>4 DEF Distinct
<1>6. Len(bs) <= Cardinality(Name)
  <2> HIDE DEF l
  <2> QED BY <1>3, <1>4, <1>5, NoLongerThanNames
<1> QED BY <1>6, NamesNumber, SeqsAreBounded DEF BranchList

-----------------------------------------------------------------------------
(* What addBranchesToStatus makes of the lists.                            *)

\* l are those of the first n of w that are not in S, in the order of w.
Selects(w, S, n, l) ==
  /\ Listed(l) = {w[i] : i \in 1 .. n} \ S
  /\ \E place \in [DOMAIN l -> 1 .. n] :
       /\ \A k \in DOMAIN l : l[k] = w[place[k]]
       /\ \A j, k \in DOMAIN l : j < k => place[j] < place[k]

\* One more of w to be selected, or not.
LEMMA SelectsNext ==
  ASSUME NEW w \in Seq(Name), NEW S, NEW n \in Nat, n + 1 <= Len(w),
         NEW l \in Seq(Name), Selects(w, S, n, l)
  PROVE  \E m \in Seq(Name) : Selects(w, S, n + 1, m)
<1>1. {w[i] : i \in 1 .. n + 1} = {w[i] : i \in 1 .. n} \cup {w[n + 1]}
  <2>1. 1 .. n + 1 = (1 .. n) \cup {n + 1}
    OBVIOUS
  <2> QED BY <2>1
<1>2. PICK place \in [DOMAIN l -> 1 .. n] :
        /\ \A k \in DOMAIN l : l[k] = w[place[k]]
        /\ \A j, k \in DOMAIN l : j < k => place[j] < place[k]
  BY DEF Selects
<1>3. CASE w[n + 1] \in S
  <2>1. Listed(l) = {w[i] : i \in 1 .. n + 1} \ S
    BY <1>1, <1>3 DEF Selects
  <2>2. place \in [DOMAIN l -> 1 .. n + 1]
    OBVIOUS
  <2> QED BY <1>2, <2>1, <2>2 DEF Selects
<1>4. CASE w[n + 1] \notin S
  <2> DEFINE m == Append(l, w[n + 1])
             further == [k \in DOMAIN m |-> IF k = Len(l) + 1 THEN n + 1 ELSE place[k]]
  <2>1. w[n + 1] \in Name /\ Len(l) \in Nat /\ DOMAIN l = 1 .. Len(l)
    BY LenProperties
  <2>2. /\ m \in Seq(Name) /\ DOMAIN m = 1 .. Len(l) + 1
        /\ m[Len(l) + 1] = w[n + 1] /\ \A k \in DOMAIN l : m[k] = l[k]
    BY <2>1, AppendProperties
  <2> HIDE DEF m
  <2>3. DOMAIN m = DOMAIN l \cup {Len(l) + 1} /\ Len(l) + 1 \notin DOMAIN l
    BY <2>1, <2>2
  <2>4. Listed(m) = Listed(l) \cup {w[n + 1]}
    <3>1. Listed(m) = {m[k] : k \in DOMAIN l} \cup {m[Len(l) + 1]}
      BY <2>3 DEF Listed
    <3>2. {m[k] : k \in DOMAIN l} = Listed(l)
      BY <2>2 DEF Listed
    <3> QED BY <2>2, <3>1, <3>2
  <2>5. Listed(m) = {w[i] : i \in 1 .. n + 1} \ S
    BY <1>1, <1>4, <2>4 DEF Selects
  <2>6. further \in [DOMAIN m -> 1 .. n + 1]
    BY <2>1, <2>2, <2>3
  <2>7. \A k \in DOMAIN m : m[k] = w[further[k]]
    BY <1>2, <2>2, <2>3
  <2>8. \A j, k \in DOMAIN m : j < k => further[j] < further[k]
    <3> SUFFICES ASSUME NEW j \in DOMAIN m, NEW k \in DOMAIN m, j < k
                 PROVE  further[j] < further[k]
      OBVIOUS
    <3>1. j \in DOMAIN l
      BY <2>1, <2>2
    <3>2. further[j] = place[j] /\ place[j] \in 1 .. n
      BY <2>3, <3>1
    <3> QED BY <1>2, <2>3, <3>1, <3>2
  <2> HIDE DEF further
  <2> QED BY <2>2, <2>5, <2>6, <2>7, <2>8 DEF Selects
<1> QED BY <1>3, <1>4

\* Whatever is left out, the rest can be selected.
LEMMA SelectionExists ==
  ASSUME NEW w \in Seq(Name), NEW S
  PROVE  \E l \in Seq(Name) : Selects(w, S, Len(w), l)
<1> DEFINE Bad == {n \in 0 .. Len(w) : ~ \E l \in Seq(Name) : Selects(w, S, n, l)}
<1>1. Bad \subseteq Nat /\ Len(w) \in Nat
  OBVIOUS
<1>2. 0 \notin Bad
  <2>1. <<>> \in Seq(Name) /\ DOMAIN <<>> = {} /\ Listed(<<>>) = {}
    BY DEF Listed
  <2>2. {w[i] : i \in 1 .. 0} = {}
    OBVIOUS
  <2>3. <<>> \in [DOMAIN <<>> -> 1 .. 0]
    BY <2>1
  <2>4. Selects(w, S, 0, <<>>)
    BY <2>1, <2>2, <2>3 DEF Selects
  <2> QED BY <2>1, <2>4
<1>3. SUFFICES ASSUME Bad # {} PROVE FALSE
  BY <1>1
<1>4. PICK t \in Bad : \A s \in Bad : ~ (<<s, t>> \in OpToRel(<, Nat))
  <2> HIDE DEF Bad
  <2> QED BY <1>1, <1>3, NatLessThanWellFounded, WFMin
<1>5. t \in Nat /\ t # 0 /\ t - 1 \in Nat /\ t - 1 + 1 = t /\ t <= Len(w)
  BY <1>1, <1>2
<1>6. t - 1 \notin Bad
  <2>1. <<t - 1, t>> \in OpToRel(<, Nat)
    BY <1>5 DEF OpToRel
  <2> HIDE DEF Bad
  <2> QED BY <1>4, <2>1
<1>7. PICK l \in Seq(Name) : Selects(w, S, t - 1, l)
  BY <1>1, <1>5, <1>6
<1>8. \E m \in Seq(Name) : Selects(w, S, t - 1 + 1, m)
  <2> HIDE DEF Bad
  <2> QED BY <1>5, <1>7, SelectsNext
<1> QED BY <1>5, <1>8

\* What Added chooses is there to be chosen.
LEMMA AddedIsList ==
  ASSUME ConstantsOK, NEW m, NEW w \in SpecType
  PROVE  Added(m, w) \in Lists /\ Listed(Added(m, w)) = Listed(w.branches) \ Names(m.branches)
<1> DEFINE ws == w.branches
<1>1. /\ ws \in Seq(Name) /\ DOMAIN ws = 1 .. Len(ws) /\ Len(ws) \in Nat
      /\ \A i, j \in DOMAIN ws : ws[i] = ws[j] => i = j
  BY ListIsDistinct DEF SpecType
<1> HIDE DEF ws
<1>2. PICK l \in Seq(Name) : Selects(ws, Names(m.branches), Len(ws), l)
  BY <1>1, SelectionExists
<1>3. Listed(l) = Listed(ws) \ Names(m.branches)
  BY <1>1, <1>2 DEF Selects, Listed
<1>4. PICK place \in [DOMAIN l -> DOMAIN ws] :
        /\ \A k \in DOMAIN l : l[k] = ws[place[k]]
        /\ \A j, k \in DOMAIN l : j < k => place[j] < place[k]
  BY <1>1, <1>2 DEF Selects
<1>5. \A i, j \in DOMAIN l : l[i] = l[j] => i = j
  <2> SUFFICES ASSUME NEW i \in DOMAIN l, NEW j \in DOMAIN l, l[i] = l[j] PROVE i = j
    OBVIOUS
  <2>1. place[i] = place[j] /\ place[i] \in Nat /\ place[j] \in Nat
    BY <1>1, <1>4
  <2>2. DOMAIN l = 1 .. Len(l) /\ Len(l) \in Nat
    BY LenProperties
  <2>3. ~ i < j /\ ~ j < i
    BY <1>4, <2>1
  <2> QED BY <2>2, <2>3
<1>6. l \in Lists
  BY <1>5, DistinctIsList
<1>7. \E p \in [DOMAIN l -> DOMAIN ws] :
        /\ \A k \in DOMAIN l : l[k] = ws[p[k]]
        /\ \A j, k \in DOMAIN l : j < k => p[j] < p[k]
  BY <1>4
<1> QED BY <1>3, <1>6, <1>7 DEF Added, ws

\* The status is extended by branches that are new, nothing else.
LEMMA ExtendedKeeps ==
  ASSUME ConstantsOK, NEW m \in Status, Distinct(m.branches), NEW w \in SpecType
  PROVE  LET bs == Extended(m, w) IN
         /\ bs \in BranchList /\ Distinct(bs)
         /\ Names(bs) = Names(m.branches) \cup Listed(w.branches)
         /\ DOMAIN m.branches \subseteq DOMAIN bs
         /\ \A k \in DOMAIN m.branches : bs[k] = m.branches[k]
         /\ \A k \in DOMAIN bs \ DOMAIN m.branches :
              bs[k] = NewBranch(bs[k].name) /\ bs[k].name \notin Names(m.branches)
<1> DEFINE new == Added(m, w)
           more == [k \in DOMAIN new |-> NewBranch(new[k])]
           old == m.branches
           bs == old \o more
<1>1. /\ new \in Lists /\ Listed(new) = Listed(w.branches) \ Names(old)
      /\ DOMAIN new = 1 .. Len(new) /\ Len(new) \in Nat
      /\ \A k \in DOMAIN new : new[k] \in Name
      /\ \A i, j \in DOMAIN new : new[i] = new[j] => i = j
  BY AddedIsList, ListIsDistinct
<1> HIDE DEF new
<1>2. /\ old \in Seq(BranchStatus) /\ Len(old) \in Nat /\ DOMAIN old = 1 .. Len(old)
      /\ \A k \in DOMAIN old : old[k] \in BranchStatus
  BY BranchListIsSeq DEF Status, BranchList
<1>3. \A b \in Name : NewBranch(b) \in BranchStatus /\ NewBranch(b).name = b
  BY DEF NewBranch, BranchStatus, ConstantsOK
<1>4. more \in Seq(BranchStatus) /\ Len(more) = Len(new) /\ DOMAIN more = DOMAIN new
  <2>1. more \in [1 .. Len(new) -> BranchStatus]
    BY <1>1, <1>3
  <2> HIDE DEF more
  <2>2. more \in Seq(BranchStatus)
    BY <1>1, <2>1, SeqDef
  <2> QED BY <1>1, <2>1, <2>2
<1>5. \A k \in DOMAIN new : more[k] = NewBranch(new[k]) /\ more[k].name = new[k]
  BY <1>1, <1>3
<1> HIDE DEF more
<1>6. /\ bs \in Seq(BranchStatus) /\ Len(bs) = Len(old) + Len(new)
      /\ DOMAIN bs = 1 .. Len(old) + Len(new)
      /\ \A k \in 1 .. Len(old) + Len(new) :
           bs[k] = IF k <= Len(old) THEN old[k] ELSE more[k - Len(old)]
  <2> HIDE DEF old
  <2>0. old \in Seq(BranchStatus) /\ more \in Seq(BranchStatus)
    BY <1>2, <1>4
  <2>1. /\ bs \in Seq(BranchStatus) /\ Len(bs) = Len(old) + Len(more)
        /\ \A k \in 1 .. Len(old) + Len(more) :
             bs[k] = IF k <= Len(old) THEN old[k] ELSE more[k - Len(old)]
    BY <2>0, ConcatProperties, ZenonT(60)
  <2> HIDE DEF bs
  <2>2. DOMAIN bs = 1 .. Len(bs)
    BY <2>1, LenProperties
  <2> QED BY <1>4, <2>1, <2>2
<1> HIDE DEF bs
<1>7. DOMAIN old \subseteq DOMAIN bs /\ \A k \in DOMAIN old : bs[k] = old[k]
  BY <1>1, <1>2, <1>6
<1>8. ASSUME NEW k \in DOMAIN bs \ DOMAIN old
      PROVE  /\ k - Len(old) \in DOMAIN new /\ bs[k] = more[k - Len(old)]
             /\ bs[k].name = new[k - Len(old)]
             /\ bs[k] = NewBranch(bs[k].name) /\ bs[k].name \notin Names(old)
  <2>1. k - Len(old) \in DOMAIN new /\ bs[k] = more[k - Len(old)]
    BY <1>1, <1>2, <1>6
  <2>2. new[k - Len(old)] \in Listed(new)
    BY <2>1 DEF Listed
  <2> QED BY <1>1, <1>5, <2>1, <2>2
<1>9. Names(bs) = Names(old) \cup Listed(w.branches)
  <2>1. ASSUME NEW b \in Names(bs) PROVE b \in Names(old) \cup Listed(w.branches)
    <3>1. PICK k \in DOMAIN bs : b = bs[k].name
      BY <2>1 DEF Names
    <3>2. CASE k \in DOMAIN old
      BY <1>7, <3>1, <3>2 DEF Names
    <3>3. CASE k \notin DOMAIN old
      <4>1. b \in Listed(new)
        BY <1>8, <3>1, <3>3 DEF Listed
      <4> QED BY <1>1, <4>1
    <3> QED BY <3>2, <3>3
  <2>2. ASSUME NEW b \in Names(old) PROVE b \in Names(bs)
    BY <1>7, <2>2 DEF Names
  <2>3. ASSUME NEW b \in Listed(w.branches), b \notin Names(old) PROVE b \in Names(bs)
    <3>1. PICK j \in DOMAIN new : b = new[j]
      BY <1>1, <2>3 DEF Listed
    <3>2. \E k \in DOMAIN bs \ DOMAIN old : k - Len(old) = j
      <4>0. /\ Len(old) \in Nat /\ Len(new) \in Nat /\ j \in 1 .. Len(new)
            /\ DOMAIN bs = 1 .. Len(old) + Len(new) /\ DOMAIN old = 1 .. Len(old)
        BY <1>1, <1>2, <1>6
      <4>1. Len(old) + j \in DOMAIN bs \ DOMAIN old
        BY <4>0, SMTT(30)
      <4>2. Len(old) + j - Len(old) = j
        BY <1>1, <1>2
      <4> QED BY <4>1, <4>2
    <3>3. PICK k \in DOMAIN bs \ DOMAIN old : k - Len(old) = j
      BY <3>2
    <3>4. bs[k].name = b
      BY <1>8, <3>1, <3>3
    <3> QED BY <3>3, <3>4 DEF Names
  <2> QED BY <2>1, <2>2, <2>3
<1>10. Distinct(bs)
  <2> SUFFICES ASSUME NEW i \in DOMAIN bs, NEW j \in DOMAIN bs, bs[i].name = bs[j].name
               PROVE  i = j
    BY DEF Distinct
  <2>1. CASE i \in DOMAIN old /\ j \in DOMAIN old
    BY <1>7, <2>1 DEF Distinct
  <2>2. CASE i \in DOMAIN old /\ j \notin DOMAIN old
    BY <1>7, <1>8, <2>2 DEF Names
  <2>3. CASE i \notin DOMAIN old /\ j \in DOMAIN old
    BY <1>7, <1>8, <2>3 DEF Names
  <2>4. CASE i \notin DOMAIN old /\ j \notin DOMAIN old
    <3>1. i - Len(old) = j - Len(old)
      BY <1>1, <1>8, <2>4
    <3> QED BY <1>2, <1>6, <3>1
  <2> QED BY <2>1, <2>2, <2>3, <2>4
<1>11. bs \in BranchList
  BY <1>6, <1>10, SeqIsBranchList
<1> QED BY <1>7, <1>8, <1>9, <1>10, <1>11 DEF Extended, bs, more, new

\* A look at the heads changes whether branches are valid, nothing else.
LEMMA ValidatedKeeps ==
  ASSUME ConstantsOK, NEW bs \in BranchList, heads \in [Branch -> Commit], NEW f
  PROVE  LET vs == Validated(bs, f) IN
         /\ vs \in BranchList /\ DOMAIN vs = DOMAIN bs /\ Names(vs) = Names(bs)
         /\ Distinct(bs) => Distinct(vs)
         /\ \A k \in DOMAIN bs :
              /\ vs[k].name = bs[k].name /\ vs[k].nmr = bs[k].nmr
              /\ vs[k].processed = bs[k].processed /\ vs[k].conflict = bs[k].conflict
<1> DEFINE vs == Validated(bs, f)
<1>1. bs \in [1 .. Len(bs) -> BranchStatus] /\ DOMAIN bs = 1 .. Len(bs)
      /\ Len(bs) \in 0 .. Cardinality(Name)
  BY BranchListIsSeq, NamesNumber
<1>2. \A k \in DOMAIN bs : heads[bs[k].name].exists \in BOOLEAN
  BY <1>1 DEF BranchStatus, Branch, Commit
<1>3. DOMAIN vs = DOMAIN bs /\ \A k \in DOMAIN bs :
        /\ vs[k].name = bs[k].name /\ vs[k].nmr = bs[k].nmr
        /\ vs[k].processed = bs[k].processed /\ vs[k].conflict = bs[k].conflict
        /\ vs[k] \in BranchStatus
  BY <1>1, <1>2 DEF Validated, BranchStatus
<1>4. vs \in [1 .. Len(bs) -> BranchStatus]
  BY <1>1, <1>3 DEF Validated
<1> HIDE DEF vs
<1>5. vs \in BranchList
  BY <1>1, <1>4 DEF BranchList
<1>6. Names(vs) = Names(bs)
  BY <1>3 DEF Names
<1>7. Distinct(bs) => Distinct(vs)
  BY <1>3 DEF Distinct
<1> QED BY <1>3, <1>5, <1>6, <1>7 DEF vs

\* The resolve branch has a name once there are branches.
LEMMA ResolveNameIsList ==
  ASSUME ConstantsOK, NEW m \in Status, Distinct(m.branches)
  PROVE  /\ ResolveName(m) \in Lists
         /\ m.branches # <<>> => ResolveName(m) # <<>>
         /\ HasConflict(m) => m.branches # <<>>
         /\ Listed(ResolveName(m)) = Names(m.branches)
<1> DEFINE l == ResolveName(m)
           bs == m.branches
<1>1. /\ bs \in Seq(BranchStatus) /\ Len(bs) \in Nat /\ DOMAIN bs = 1 .. Len(bs)
      /\ \A k \in DOMAIN bs : bs[k] \in BranchStatus
  BY BranchListIsSeq DEF Status, BranchList
<1>2. l \in [1 .. Len(bs) -> Name] /\ DOMAIN l = DOMAIN bs /\ \A k \in DOMAIN l : l[k] = bs[k].name
  BY <1>1 DEF ResolveName, BranchStatus
<1> HIDE DEF l
<1>3. l \in Seq(Name)
  BY <1>1, <1>2, SeqDef
<1>4. \A i, j \in DOMAIN l : l[i] = l[j] => i = j
  BY <1>2 DEF Distinct
<1>5. l \in Lists
  BY <1>3, <1>4, DistinctIsList
<1>6. bs # <<>> => l # <<>>
  BY <1>1, <1>2
<1>7. HasConflict(m) => bs # <<>>
  BY DEF HasConflict
<1>8. Listed(l) = Names(bs)
  BY <1>2 DEF Listed, Names
<1> QED BY <1>5, <1>6, <1>7, <1>8 DEF l

-----------------------------------------------------------------------------
(* The inductive invariant.                                                *)

\* What others see of an object.
Shown(o) ==
  [phase |-> o.phase, autoAccept |-> o.autoAccept, ready |-> o.ready,
   hasConflict |-> o.hasConflict, deleted |-> o.deleted, processed |-> o.processed]

\* The object is what its past, p, has made of it.
Truthful(o, p) ==
  /\ o.mr = "accepted" => "merged" \in p
  /\ o.mr = "removed" => "removed" \in p
  /\ o.mr = "settled" => p # {}
  /\ o.deleted => o.mr = "removed"
  /\ o.phase = "none" => o = NoNMR /\ p = {}

\* Objects are created in the order of their numbers.
ObjectsOK ==
  /\ \A n \in NMR : n > lastNMR <=> nmr[n].phase = "none"
  /\ \A n \in NMR : Truthful(nmr[n], past[n])

\* What a copy m of the Merge object says of the objects and of the tags.
Sound(m, objs, last, ts) ==
  /\ Distinct(m.branches)
  /\ Refs(m) \subseteq 0 .. last
  /\ \A k \in DOMAIN m.branches :
       LET n == m.branches[k].nmr IN
       n # 0 => objs[n].source = m.branches[k].name /\ objs[n].target = build
  /\ m.resolveMR # 0 =>
       /\ objs[m.resolveMR].source = m.resolveName /\ objs[m.resolveMR].target = build
       /\ m.resolveName = ResolveName(m)
  /\ m.finalMR # 0 => objs[m.finalMR].source = build /\ objs[m.finalMR].target = main
  /\ m.finalMR # 0 => m.finalTag # 0 /\ ts[m.finalTag].exists

\* The steps of reconcileConflict.
Resolving == {"recreate", "createBuild", "resolveBranch", "resolveMR"}

\* What the step p may count on, of the copy m and of the tags.
StepOK(p, m, w, ts) ==
  /\ p = "idle" => m = NewStatus
  /\ p \in {"dropResolveBranch", "dropResolveMR", "dropFinalMR"} => Changed(m, w)
  /\ p \in {"dropFinalMR", "dropBuild", "dropMRs"} => m.resolveMR = 0
  /\ p \in {"dropBuild", "dropMRs"} => m.finalMR = 0
  /\ p = "branches" => ~Shrunk(m, w) /\ (Changed(m, w) => m.resolveMR = 0)
  /\ p \in {"build", "nmrs", "compare", "tag", "finalMR", "setAuto"} \cup Resolving =>
       ~Changed(m, w)
  /\ p \in Resolving => HasConflict(m)
  /\ p \in {"recreate", "createBuild"} => ~m.recreated
  /\ p = "finalMR" => m.finalTag # 0 /\ ts[m.finalTag].exists
  /\ p = "setAuto" => m.finalMR # 0

\* Type correctness is part of it: that a list of branches stays one needs
\* that no branch is twice in it, and that a tag is there when it is stored.
Inv ==
  /\ TypeOK /\ ObjectsOK
  /\ Sound(stored, nmr, lastNMR, tags) /\ Sound(merge, nmr, lastNMR, tags)
  /\ StepOK(pc, merge, want, tags)
  /\ pc # "idle" => at >= 1
  /\ pc = "tag" => heads[build].exists

-----------------------------------------------------------------------------
(* The objects: whatever is done to them, they keep their branches, do     *)
(* what NMRPromise allows and stay what their past has made of them.       *)

\* An object o with the past p becomes x, with the past q.
Goes(o, p, x, q) ==
  /\ x \in Object /\ q \in SUBSET Outcome /\ Truthful(x, q)
  /\ x.source = o.source /\ x.target = o.target
  /\ x.phase = "none" <=> o.phase = "none"
  /\ Promise!Moves(Shown(o), p, Shown(x), q)

\* Nothing happens to the object.
LEMMA ObjectGoesOn ==
  ASSUME NEW o \in Object, NEW p \in SUBSET Outcome, Truthful(o, p)
  PROVE  Goes(o, p, o, p)
BY DEF Goes, Truthful, Object, Outcome, NoNMR, Shown, Promise!Moves, Promise!Lives,
       Promise!Lasting, Promise!Founded

\* It is deleted.
LEMMA ObjectEnds ==
  ASSUME NEW o \in Object, NEW p \in SUBSET Outcome, Truthful(o, p),
         o.phase \in {"live", "deleting"}
  PROVE  /\ Goes(o, p, [o EXCEPT !.phase = "deleting"], p)
         /\ Goes(o, p, [o EXCEPT !.phase = "gone"], p)
BY DEF Goes, Truthful, Object, Outcome, NoNMR, Shown, Promise!Moves, Promise!Lives,
       Promise!Lasting, Promise!Founded

\* Its merge request is merged, closed or removed.
LEMMA ObjectSettles ==
  ASSUME NEW o \in Object, NEW p \in SUBSET Outcome, Truthful(o, p),
         o.phase \in {"live", "deleting"}, o.mr = "open"
  PROVE  /\ Goes(o, p, [o EXCEPT !.mr = "accepted"], p \cup {"merged"})
         /\ \A c \in Outcome : Goes(o, p, [o EXCEPT !.mr = "settled"], p \cup {c})
         /\ Goes(o, p, [o EXCEPT !.mr = "removed"], p \cup {"removed"})
BY DEF Goes, Truthful, Object, Outcome, NoNMR, Shown, Promise!Moves, Promise!Lives,
       Promise!Lasting, Promise!Founded

\* Its controller reports.
LEMMA ObjectReports ==
  ASSUME NEW o \in Object, NEW p \in SUBSET Outcome, Truthful(o, p), o.phase # "none"
  PROVE  /\ \A auto \in BOOLEAN : Goes(o, p, [o EXCEPT !.autoAccept = auto], p)
         /\ Goes(o, p, [o EXCEPT !.processed = FALSE], p)
         /\ o.mr \in {"settled", "removed"} => Goes(o, p, [o EXCEPT !.processed = TRUE], p)
         /\ o.mr = "accepted" => Goes(o, p, [o EXCEPT !.ready = TRUE, !.mr = "settled"], p)
         /\ Goes(o, p, [o EXCEPT !.hasConflict = TRUE], p)
         /\ o.mr = "removed" =>
              Goes(o, p, [o EXCEPT !.hasConflict = TRUE, !.deleted = TRUE], p)
         /\ ~o.deleted => \A c \in {o.hasConflict, TRUE} :
              Goes(o, p, [o EXCEPT !.mr = "open", !.hasConflict = c, !.processed = FALSE], p)
<1> USE DEF Object, Outcome
<1>1. ASSUME NEW x \in Object, x.phase = o.phase, x.source = o.source, x.target = o.target,
             Truthful(x, p), o.ready => x.ready, o.hasConflict => x.hasConflict,
             o.deleted => x.deleted /\ x.ready = o.ready,
             x.ready /\ ~o.ready => "merged" \in p,
             x.deleted /\ ~o.deleted => "removed" \in p /\ x.hasConflict,
             x.processed /\ ~o.processed => p # {}
      PROVE  Goes(o, p, x, p)
  BY <1>1 DEF Goes, Shown, Promise!Moves, Promise!Lives, Promise!Lasting, Promise!Founded
<1> USE DEF Truthful
<1>2. \A auto \in BOOLEAN : Goes(o, p, [o EXCEPT !.autoAccept = auto], p)
  BY <1>1
<1>3. Goes(o, p, [o EXCEPT !.processed = FALSE], p)
  BY <1>1
<1>4. o.mr \in {"settled", "removed"} => Goes(o, p, [o EXCEPT !.processed = TRUE], p)
  BY <1>1
<1>5. o.mr = "accepted" => Goes(o, p, [o EXCEPT !.ready = TRUE, !.mr = "settled"], p)
  BY <1>1
<1>6. Goes(o, p, [o EXCEPT !.hasConflict = TRUE], p)
  BY <1>1
<1>7. o.mr = "removed" => Goes(o, p, [o EXCEPT !.hasConflict = TRUE, !.deleted = TRUE], p)
  BY <1>1
<1>8. ~o.deleted => \A c \in {o.hasConflict, TRUE} :
        Goes(o, p, [o EXCEPT !.mr = "open", !.hasConflict = c, !.processed = FALSE], p)
  BY <1>1
<1> QED BY <1>2, <1>3, <1>4, <1>5, <1>6, <1>7, <1>8

\* What every step does to the objects.
ObjectsNext ==
  /\ nmr' \in [NMR -> Object] /\ past' \in [NMR -> SUBSET Outcome]
  /\ lastNMR' \in 0 .. MaxNMR /\ lastNMR <= lastNMR'
  /\ ObjectsOK'
  /\ \A n \in 1 .. lastNMR : nmr'[n].source = nmr[n].source /\ nmr'[n].target = nmr[n].target
  /\ \A n \in NMR : Promise!Moves(Shown(nmr[n]), past[n], Shown(nmr'[n]), past'[n])

\* If each object goes where its past allows, the objects do.
LEMMA ObjectsGo ==
  ASSUME ConstantsOK, TypeOK, ObjectsOK, lastNMR' = lastNMR,
         NEW objs, NEW ps, nmr' = [n \in NMR |-> objs[n]], past' = [n \in NMR |-> ps[n]],
         \A n \in NMR : Goes(nmr[n], past[n], objs[n], ps[n])
  PROVE  ObjectsNext
<1>1. \A n \in NMR : nmr'[n] = objs[n] /\ past'[n] = ps[n]
  OBVIOUS
<1>2. nmr' \in [NMR -> Object] /\ past' \in [NMR -> SUBSET Outcome]
  BY DEF Goes
<1>3. lastNMR' \in 0 .. MaxNMR /\ lastNMR <= lastNMR' /\ 1 .. lastNMR \subseteq NMR
  BY DEF TypeOK, NMR, ConstantsOK
<1>4. ObjectsOK'
  BY <1>1 DEF ObjectsOK, Goes
<1>5. \A n \in NMR : /\ nmr'[n].source = nmr[n].source /\ nmr'[n].target = nmr[n].target
                     /\ Promise!Moves(Shown(nmr[n]), past[n], Shown(nmr'[n]), past'[n])
  BY <1>1 DEF Goes
<1> QED BY <1>2, <1>3, <1>4, <1>5 DEF ObjectsNext

\* They may stay,
LEMMA ObjectsStay ==
  ASSUME ConstantsOK, TypeOK, ObjectsOK, UNCHANGED objects
  PROVE  ObjectsNext
<1>1. \A n \in NMR : Goes(nmr[n], past[n], nmr[n], past[n])
  BY ObjectGoesOn DEF TypeOK, ObjectsOK
<1>2. /\ lastNMR' = lastNMR /\ nmr' = [n \in NMR |-> nmr[n]] /\ past' = [n \in NMR |-> past[n]]
  BY DEF objects, TypeOK
<1> QED BY <1>1, <1>2, ObjectsGo

\* One object changes.
LEMMA ObjectGoes ==
  ASSUME ConstantsOK, TypeOK, ObjectsOK, lastNMR' = lastNMR,
         NEW i \in NMR, NEW x, NEW q, Goes(nmr[i], past[i], x, q),
         nmr' = [nmr EXCEPT ![i] = x], past' = [past EXCEPT ![i] = q]
  PROVE  ObjectsNext
<1>1. \A n \in NMR : Goes(nmr[n], past[n], nmr[n], past[n])
  BY ObjectGoesOn DEF TypeOK, ObjectsOK
<1>2. \A n \in NMR : Goes(nmr[n], past[n], nmr'[n], past'[n])
  BY <1>1 DEF TypeOK
<1> DEFINE objs == [nmr EXCEPT ![i] = x]
           ps == [past EXCEPT ![i] = q]
<1>3. nmr' = [n \in NMR |-> objs[n]] /\ past' = [n \in NMR |-> ps[n]]
  BY DEF TypeOK
<1>4. \A n \in NMR : Goes(nmr[n], past[n], objs[n], ps[n])
  BY <1>2
<1> HIDE DEF objs, ps
<1> QED BY <1>3, <1>4, ObjectsGo

\* some merge requests may end,
LEMMA ObjectEnd ==
  ASSUME ConstantsOK, TypeOK, ObjectsOK, lastNMR' = lastNMR,
         NEW S \in SUBSET {n \in NMR : Unsettled(n)}, NEW mr, NEW c, End(S, mr, c),
         <<mr, c>> \in {<<"accepted", "merged">>, <<"settled", "merged">>,
                        <<"settled", "closed">>, <<"removed", "removed">>}
  PROVE  ObjectsNext
<1> DEFINE objs == [n \in NMR |-> IF n \in S THEN [nmr[n] EXCEPT !.mr = mr] ELSE nmr[n]]
           ps == [n \in NMR |-> IF n \in S THEN past[n] \cup {c} ELSE past[n]]
<1>1. ASSUME NEW n \in NMR PROVE Goes(nmr[n], past[n], objs[n], ps[n])
  <2>1. nmr[n] \in Object /\ past[n] \in SUBSET Outcome /\ Truthful(nmr[n], past[n])
    BY DEF TypeOK, ObjectsOK
  <2>2. CASE n \in S
    <3>1. nmr[n].phase \in {"live", "deleting"} /\ nmr[n].mr = "open"
      BY <2>2 DEF Unsettled
    <3>2. /\ Goes(nmr[n], past[n], [nmr[n] EXCEPT !.mr = "accepted"], past[n] \cup {"merged"})
          /\ \A d \in Outcome : Goes(nmr[n], past[n], [nmr[n] EXCEPT !.mr = "settled"], past[n] \cup {d})
          /\ Goes(nmr[n], past[n], [nmr[n] EXCEPT !.mr = "removed"], past[n] \cup {"removed"})
      BY <2>1, <3>1, ObjectSettles
    <3>3. Goes(nmr[n], past[n], [nmr[n] EXCEPT !.mr = mr], past[n] \cup {c})
      BY <3>2 DEF Outcome
    <3> QED BY <2>2, <3>3
  <2>3. CASE n \notin S
    BY <2>1, <2>3, ObjectGoesOn
  <2> QED BY <2>2, <2>3
<1>2. nmr' = [n \in NMR |-> objs[n]] /\ past' = [n \in NMR |-> ps[n]]
  BY DEF End
<1> HIDE DEF objs, ps
<1> QED BY <1>1, <1>2, ObjectsGo

\* a branch may go, and close what came from it,
LEMMA RemovedBranchObjects ==
  ASSUME ConstantsOK, TypeOK, ObjectsOK, NEW b, RemoveBranch(b), lastNMR' = lastNMR
  PROVE  ObjectsNext
<1>1. PICK S \in SUBSET {n \in NMR : heads[b].exists /\ Unsettled(n) /\ nmr[n].source = b} :
        End(S, "settled", "closed")
  BY DEF RemoveBranch
<1>2. S \in SUBSET {n \in NMR : Unsettled(n)}
  OBVIOUS
<1> QED BY <1>1, <1>2, ObjectEnd

\* or an object may be deleted, which is then not alive.
LEMMA DeletedObjects ==
  ASSUME ConstantsOK, TypeOK, ObjectsOK, NEW n \in 0 .. MaxNMR, DeleteNativeMR(n)
  PROVE  ObjectsNext /\ (n # 0 => nmr'[n].phase # "live")
<1>1. CASE ~Found(n) /\ UNCHANGED nmr
  BY <1>1, ObjectsStay DEF DeleteNativeMR, objects, Found
<1>2. CASE Found(n)
  <2>1. n \in NMR /\ nmr[n].phase \in {"live", "deleting"}
    BY <1>2 DEF Found, NMR, ConstantsOK
  <2>2. PICK p \in {"deleting", "gone"} : nmr' = [nmr EXCEPT ![n].phase = p]
    BY <1>2 DEF DeleteNativeMR
  <2>3. Goes(nmr[n], past[n], [nmr[n] EXCEPT !.phase = p], past[n])
    BY <2>1, ObjectEnds DEF TypeOK, ObjectsOK
  <2>4. nmr' = [nmr EXCEPT ![n] = [nmr[n] EXCEPT !.phase = p]] /\ past' = [past EXCEPT ![n] = past[n]]
    BY <2>1, <2>2 DEF DeleteNativeMR, TypeOK
  <2>5. nmr'[n].phase = p
    BY <2>1, <2>2 DEF TypeOK, Object
  <2> QED BY <2>1, <2>3, <2>4, <2>5, ObjectGoes DEF DeleteNativeMR
<1> QED BY <1>1, <1>2 DEF DeleteNativeMR

\* A new object has no past.
LEMMA NewObject ==
  ASSUME ConstantsOK, NEW s \in Branch, NEW t \in {build, main}, NEW auto \in BOOLEAN
  PROVE  LET o == NewNMR(s, t, auto) IN
         /\ o \in Object /\ o.source = s /\ o.target = t /\ o.phase = "live"
         /\ ~o.processed /\ ~o.ready /\ ~o.hasConflict
         /\ Truthful(o, {}) /\ Promise!Moves(Shown(NoNMR), {}, Shown(o), {})
<1>1. main \in Branch
  BY DEF Branch
<1>2. /\ NoNMR \in Object /\ NoNMR.phase = "none" /\ ~NoNMR.processed /\ ~NoNMR.ready
      /\ ~NoNMR.hasConflict /\ ~NoNMR.deleted
  BY <1>1 DEF NoNMR, Object
<1> DEFINE o == NewNMR(s, t, auto)
<1>3. /\ o \in Object /\ o.source = s /\ o.target = t /\ o.phase = "live" /\ o.mr = "open"
      /\ ~o.processed /\ ~o.ready /\ ~o.hasConflict /\ ~o.deleted
  BY <1>1, <1>2 DEF NewNMR, Object
<1> HIDE DEF o
<1>4. Truthful(o, {})
  BY <1>3 DEF Truthful
<1>5. Promise!Moves(Shown(NoNMR), {}, Shown(o), {})
  BY <1>2, <1>3 DEF Shown, Object, Promise!Moves, Promise!Lives, Promise!Lasting, Promise!Founded
<1> QED BY <1>3, <1>4, <1>5 DEF o

\* The call answers with the object r: n, or a new one.
Obtains(n, s, t, auto, r) ==
  /\ r \in NMR /\ r <= lastNMR' /\ faults' = faults
  /\ \/ r = n /\ Found(n) /\ UNCHANGED <<nmr, lastNMR>>
     \/ /\ r = lastNMR + 1 /\ lastNMR' = r /\ ~Found(n)
        /\ nmr' = [nmr EXCEPT ![r] = NewNMR(s, t, auto)]
        /\ nmr'[r].source = s /\ nmr'[r].target = t /\ nmr'[r].phase = "live"
        /\ ~nmr'[r].processed /\ ~nmr'[r].ready /\ ~nmr'[r].hasConflict

\* It fails, though there may be a new object.
Loses(s, t, auto) ==
  /\ faults < MaxFaults /\ faults' = faults + 1
  /\ \/ UNCHANGED <<nmr, lastNMR>>
     \/ /\ lastNMR + 1 \in NMR /\ lastNMR' = lastNMR + 1
        /\ nmr' = [nmr EXCEPT ![lastNMR + 1] = NewNMR(s, t, auto)]

\* getOrCreateNativeMR: the object is found, or is a new one.
LEMMA GotOrCreatedObject ==
  ASSUME ConstantsOK, TypeOK, ObjectsOK, NEW n \in 0 .. lastNMR, NEW s \in Branch,
         NEW t \in {build, main}, NEW auto \in BOOLEAN, NEW r \in 0 .. MaxNMR,
         GetOrCreateNativeMR(n, s, t, auto, r)
  PROVE  /\ ObjectsNext /\ faults' \in 0 .. MaxFaults /\ faults' >= faults
         /\ r # 0 => Obtains(n, s, t, auto, r)
         /\ r = 0 => Loses(s, t, auto)
<1> USE DEF Obtains, Loses
<1>1. /\ n \in Nat /\ lastNMR \in Nat /\ lastNMR <= MaxNMR /\ MaxNMR \in Nat
      /\ faults \in 0 .. MaxFaults /\ MaxFaults \in Nat
  BY DEF TypeOK, ConstantsOK
<1>2. Found(n) => n \in NMR /\ n # 0 /\ n <= lastNMR
  BY <1>1 DEF Found, NMR
<1>3. CASE UNCHANGED <<nmr, lastNMR>>
  <2>1. ObjectsNext
    BY <1>3, ObjectsStay DEF GetOrCreateNativeMR, objects
  <2>2. lastNMR' # lastNMR + 1
    BY <1>1, <1>3
  <2>3. \/ Found(n) /\ r = n /\ faults' = faults
        \/ r = 0 /\ Fault
    BY <2>2 DEF GetOrCreateNativeMR
  <2> QED BY <1>1, <1>2, <1>3, <2>1, <2>3 DEF Fault
<1>4. CASE /\ ~Found(n) /\ lastNMR < MaxNMR /\ lastNMR' = lastNMR + 1
           /\ nmr' = [nmr EXCEPT ![lastNMR + 1] = NewNMR(s, t, auto)]
  <2> DEFINE new == NewNMR(s, t, auto)
  <2>1. lastNMR + 1 \in NMR /\ lastNMR + 1 \in 0 .. MaxNMR
    BY <1>1, <1>4 DEF NMR
  <2>2. /\ new \in Object /\ new.source = s /\ new.target = t /\ new.phase = "live"
        /\ ~new.processed /\ ~new.ready /\ ~new.hasConflict
        /\ Truthful(new, {}) /\ Promise!Moves(Shown(NoNMR), {}, Shown(new), {})
    BY NewObject
  <2>3. nmr[lastNMR + 1] = NoNMR /\ past[lastNMR + 1] = {}
    <3>1. nmr[lastNMR + 1].phase = "none"
      BY <1>1, <2>1 DEF ObjectsOK
    <3> QED BY <2>1, <3>1 DEF ObjectsOK, Truthful
  <2> HIDE DEF new
  <2>4. nmr'[lastNMR + 1] = new /\ \A m \in NMR : m # lastNMR + 1 => nmr'[m] = nmr[m]
    BY <1>4, <2>1 DEF TypeOK, new
  <2>5. past' = past
    BY DEF GetOrCreateNativeMR
  <2>6. nmr' \in [NMR -> Object]
    BY <1>4, <2>1, <2>2 DEF TypeOK, new
  <2>7. ObjectsOK'
    <3>1. ASSUME NEW m \in NMR PROVE m > lastNMR' <=> nmr'[m].phase = "none"
      <4>1. CASE m = lastNMR + 1
        BY <1>1, <1>4, <2>2, <2>4, <4>1
      <4>2. CASE m # lastNMR + 1
        <5>1. m \in Nat /\ (m > lastNMR <=> nmr[m].phase = "none")
          BY <1>1 DEF ObjectsOK, NMR
        <5> QED BY <1>1, <1>4, <2>4, <4>2, <5>1
      <4> QED BY <4>1, <4>2
    <3>2. \A m \in NMR : Truthful(nmr'[m], past'[m])
      BY <2>2, <2>3, <2>4, <2>5 DEF ObjectsOK
    <3> QED BY <3>1, <3>2 DEF ObjectsOK
  <2>8. \A m \in NMR : Promise!Moves(Shown(nmr[m]), past[m], Shown(nmr'[m]), past'[m])
    <3>1. \A m \in NMR : Goes(nmr[m], past[m], nmr[m], past[m])
      BY ObjectGoesOn DEF TypeOK, ObjectsOK
    <3>2. \A m \in NMR : Promise!Moves(Shown(nmr[m]), past[m], Shown(nmr[m]), past[m])
      BY <3>1 DEF Goes
    <3> QED BY <2>2, <2>3, <2>4, <2>5, <3>2
  <2>9. \A m \in 1 .. lastNMR : nmr'[m] = nmr[m]
    BY <1>1, <2>4 DEF NMR
  <2>10. ObjectsNext
    BY <1>1, <1>4, <2>1, <2>5, <2>6, <2>7, <2>8, <2>9 DEF ObjectsNext, TypeOK
  <2>11. \/ r = lastNMR + 1 /\ faults' = faults
         \/ r = 0 /\ Fault
    <3>1. lastNMR' # lastNMR
      BY <1>1, <1>4
    <3> QED BY <1>4, <3>1 DEF GetOrCreateNativeMR
  <2>12. CASE r = lastNMR + 1 /\ faults' = faults
    <3>1. nmr' = [nmr EXCEPT ![r] = NewNMR(s, t, auto)] /\ nmr'[r] = new /\ r # 0
      BY <1>1, <1>4, <2>4, <2>12
    <3> QED BY <1>1, <1>4, <2>1, <2>2, <2>10, <2>12, <3>1
  <2>13. CASE r = 0 /\ Fault
    <3>1. faults < MaxFaults /\ faults' = faults + 1 /\ faults' \in 0 .. MaxFaults
          /\ faults' >= faults
      BY <1>1, <2>13 DEF Fault
    <3> QED BY <1>4, <2>1, <2>10, <2>13, <3>1
  <2> QED BY <2>11, <2>12, <2>13
<1> QED BY <1>3, <1>4 DEF GetOrCreateNativeMR

-----------------------------------------------------------------------------
(* Everybody but the worker.                                               *)

\* The NativeMergeRequest controller, the garbage collector and the users.
Others ==
  \/ \E n \in NMR : Settling(n) \/ Reports(n) \/ Failing(n) \/ CollectGarbage(n)
  \/ Users

\* They do to the objects what NMRPromise allows.
LEMMA OthersObjects ==
  ASSUME ConstantsOK, TypeOK, ObjectsOK, Others
  PROVE  ObjectsNext
<1> USE DEF bounds, gitlab, worker
<1>1. ASSUME NEW n \in NMR, Accept(n) PROVE ObjectsNext
  <2>1. {n} \in SUBSET {m \in NMR : Unsettled(m)} /\ lastNMR' = lastNMR
    BY <1>1 DEF Accept, Mergeable
  <2>2. End({n}, "accepted", "merged") \/ End({n}, "settled", "merged")
    BY <1>1 DEF Accept
  <2> QED BY <2>1, <2>2, ObjectEnd
<1>2. ASSUME NEW n \in NMR, FindConflict(n) PROVE ObjectsNext
  <2>1. {n} \in SUBSET {m \in NMR : Unsettled(m)} /\ lastNMR' = lastNMR
    BY <1>2 DEF FindConflict, Mergeable
  <2>2. End({n}, "removed", "removed")
    BY <1>2 DEF FindConflict
  <2> QED BY <2>1, <2>2, ObjectEnd
<1>3. ASSUME NEW n \in NMR, UserMerges(n) \/ UserCloses(n) PROVE ObjectsNext
  <2>1. {n} \in SUBSET {m \in NMR : Unsettled(m)} /\ lastNMR' = lastNMR
    BY <1>3 DEF UserMerges, UserCloses, Mergeable
  <2>2. End({n}, "settled", "merged") \/ End({n}, "settled", "closed")
    BY <1>3 DEF UserMerges, UserCloses
  <2> QED BY <2>1, <2>2, ObjectEnd
<1>4. ASSUME NEW n \in NMR, NEW x, Goes(nmr[n], past[n], x, past[n]),
             nmr' = [nmr EXCEPT ![n] = x], past' = past, lastNMR' = lastNMR
      PROVE  ObjectsNext
  <2>1. past' = [past EXCEPT ![n] = past[n]]
    BY <1>4 DEF TypeOK
  <2> QED BY <1>4, <2>1, ObjectGoes
<1>5. ASSUME NEW n \in NMR, \/ ReportReady(n) \/ ReportProcessed(n) \/ ReportConflict(n) \/ Vanish(n)
                            \/ FailToRemove(n) \/ Reopen(n) \/ Retract(n) \/ CollectGarbage(n)
      PROVE  ObjectsNext
  <2> DEFINE o == nmr[n]
  <2>1. o \in Object /\ past[n] \in SUBSET Outcome /\ Truthful(o, past[n])
    BY DEF TypeOK, ObjectsOK
  <2>2. o.phase \in {"live", "deleting"}
    BY <1>5 DEF ReportReady, ReportProcessed, ReportConflict, Vanish, FailToRemove, Reopen, Retract,
                CollectGarbage, Reporting, Found, Mergeable, Unsettled
  <2>3. past' = past /\ lastNMR' = lastNMR
    BY <1>5 DEF ReportReady, ReportProcessed, ReportConflict, Vanish, FailToRemove, Reopen, Retract,
                CollectGarbage
  <2>4. /\ Goes(o, past[n], [o EXCEPT !.phase = "deleting"], past[n])
        /\ Goes(o, past[n], [o EXCEPT !.phase = "gone"], past[n])
    BY <2>1, <2>2, ObjectEnds
  <2>5. /\ Goes(o, past[n], [o EXCEPT !.processed = FALSE], past[n])
        /\ o.mr \in {"settled", "removed"} => Goes(o, past[n], [o EXCEPT !.processed = TRUE], past[n])
        /\ o.mr = "accepted" =>
             Goes(o, past[n], [o EXCEPT !.ready = TRUE, !.mr = "settled"], past[n])
        /\ Goes(o, past[n], [o EXCEPT !.hasConflict = TRUE], past[n])
        /\ o.mr = "removed" =>
             Goes(o, past[n], [o EXCEPT !.hasConflict = TRUE, !.deleted = TRUE], past[n])
        /\ ~o.deleted => \A c \in {o.hasConflict, TRUE} :
             Goes(o, past[n], [o EXCEPT !.mr = "open", !.hasConflict = c, !.processed = FALSE],
                  past[n])
    BY <2>1, <2>2, ObjectReports
  <2>6. CASE ReportReady(n)
    <3>1. nmr' = [nmr EXCEPT ![n] = [o EXCEPT !.ready = TRUE, !.mr = "settled"]] /\ o.mr = "accepted"
      BY <2>6 DEF ReportReady, TypeOK
    <3> QED BY <1>4, <2>3, <2>5, <3>1
  <2>7. CASE ReportProcessed(n)
    <3>1. nmr' = [nmr EXCEPT ![n] = [o EXCEPT !.processed = TRUE]] /\ o.mr \in {"settled", "removed"}
      BY <2>7 DEF ReportProcessed, Reporting, TypeOK
    <3> QED BY <1>4, <2>3, <2>5, <3>1
  <2>8. CASE ReportConflict(n)
    <3>1. /\ nmr' = [nmr EXCEPT ![n] = [o EXCEPT !.hasConflict = TRUE, !.deleted = TRUE]]
          /\ o.mr = "removed"
      BY <2>8 DEF ReportConflict, TypeOK
    <3> QED BY <1>4, <2>3, <2>5, <3>1
  <2>9. CASE Vanish(n)
    <3>1. nmr' = [nmr EXCEPT ![n] = [o EXCEPT !.phase = "gone"]]
      BY <2>9 DEF Vanish, TypeOK
    <3> QED BY <1>4, <2>3, <2>4, <3>1
  <2>10. CASE CollectGarbage(n)
    <3>1. nmr' = [nmr EXCEPT ![n] = [o EXCEPT !.phase = "deleting"]]
      BY <2>10 DEF CollectGarbage, TypeOK
    <3> QED BY <1>4, <2>3, <2>4, <3>1
  <2>11. CASE FailToRemove(n)
    <3>1. nmr' = [nmr EXCEPT ![n] = [o EXCEPT !.hasConflict = TRUE]]
      BY <2>11 DEF FailToRemove, TypeOK
    <3> QED BY <1>4, <2>3, <2>5, <3>1
  <2>12. CASE Reopen(n)
    <3>1. PICK c \in {o.hasConflict, TRUE} :
            nmr' = [nmr EXCEPT ![n].mr = "open", ![n].hasConflict = c, ![n].processed = FALSE]
      BY <2>12 DEF Reopen
    <3>2. nmr' = [nmr EXCEPT ![n] = [o EXCEPT !.mr = "open", !.hasConflict = c, !.processed = FALSE]]
      BY <3>1 DEF TypeOK
    <3>3. ~o.deleted
      BY <2>12 DEF Reopen
    <3> QED BY <1>4, <2>3, <2>5, <3>2, <3>3
  <2>13. CASE Retract(n)
    <3>1. nmr' = [nmr EXCEPT ![n] = [o EXCEPT !.processed = FALSE]]
      BY <2>13 DEF Retract, TypeOK
    <3> QED BY <1>4, <2>3, <2>5, <3>1
  <2> QED BY <1>5, <2>6, <2>7, <2>8, <2>9, <2>10, <2>11, <2>12, <2>13
<1>6. ASSUME NEW b \in Name, UserRemovesBranch(b) PROVE ObjectsNext
  BY <1>6, RemovedBranchObjects DEF UserRemovesBranch
<1>7. ASSUME UNCHANGED objects PROVE ObjectsNext
  BY <1>7, ObjectsStay
<1>8. ASSUME Users PROVE ObjectsNext
  <2>1. CASE \E m \in NMR : UserMerges(m) \/ UserCloses(m)
    BY <1>3, <2>1
  <2>2. CASE \E b \in Name : UserRemovesBranch(b)
    BY <1>6, <2>2
  <2>3. CASE \/ \E s \in Specs : ChangeSpec(s)
             \/ DeleteMerge \/ \E b \in Name : UserPushes(b)
             \/ \E l \in Lists \ {<<>>} : PushResolution(l)
    BY <1>7, <2>3 DEF ChangeSpec, DeleteMerge, UserPushes, PushResolution
  <2> QED BY <1>8, <2>1, <2>2, <2>3 DEF Users
<1>9. ASSUME NEW n \in NMR, Settling(n) \/ Reports(n) \/ Failing(n) \/ CollectGarbage(n)
      PROVE  ObjectsNext
  BY <1>1, <1>2, <1>5, <1>9 DEF Settling, Reports, Failing
<1> QED BY <1>8, <1>9 DEF Others

\* Heads that are typed stay so when a branch is made or removed.
LEMMA HeadsType ==
  ASSUME ConstantsOK, TypeOK
  PROVE  /\ Absent \in Commit /\ heads[build] \in Commit /\ heads[main] \in Commit
         /\ \A b : [heads EXCEPT ![b] = Absent] \in [Branch -> Commit]
         /\ \A b : [heads EXCEPT ![b] = heads[main]] \in [Branch -> Commit]
         /\ \A b \in Name : [heads EXCEPT ![b] = HeadAt(0, {b})] \in [Branch -> Commit]
         /\ \A l \in Lists \ {<<>>} : [heads EXCEPT ![l].on = Listed(l)] \in [Branch -> Commit]
         /\ \A n \in NMR : (nmr[n].target = main => heads[main].rev < MaxRev) =>
              MergedInto(n) \in [Branch -> Commit]
<1>1. heads \in [Branch -> Commit] /\ main \in Branch /\ build \in Branch
  BY DEF TypeOK, Branch
<1>2. Absent \in Commit /\ \A s \in SUBSET Name : HeadAt(0, s) \in Commit
  BY DEF Absent, HeadAt, Commit, ConstantsOK
<1>3. heads[main] \in Commit /\ heads[build] \in Commit
  BY <1>1
<1>4. /\ \A b : [heads EXCEPT ![b] = Absent] \in [Branch -> Commit]
      /\ \A b : [heads EXCEPT ![b] = heads[main]] \in [Branch -> Commit]
      /\ \A b \in Name : [heads EXCEPT ![b] = HeadAt(0, {b})] \in [Branch -> Commit]
  BY <1>1, <1>2, <1>3
<1>5. ASSUME NEW l \in Lists \ {<<>>}
      PROVE  [heads EXCEPT ![l].on = Listed(l)] \in [Branch -> Commit]
  <2>1. l \in Branch /\ Listed(l) \in SUBSET Name
    BY ListIsDistinct DEF Branch
  <2>2. [heads[l] EXCEPT !.on = Listed(l)] \in Commit
    BY <1>1, <2>1 DEF Commit
  <2> QED BY <1>1, <2>1, <2>2
<1>6. ASSUME NEW n \in NMR, nmr[n].target = main => heads[main].rev < MaxRev
      PROVE  MergedInto(n) \in [Branch -> Commit]
  <2> DEFINE t == nmr[n].target
             s == heads[nmr[n].source]
  <2>1. t \in {build, main} /\ nmr[n].source \in Branch
    BY DEF TypeOK, Object
  <2>2. s \in Commit /\ heads[t] \in Commit
    BY <1>1, <2>1
  <2>3. CASE t = main
    <3>1. heads[main].rev + 1 \in 0 .. MaxRev
      BY <1>3, <1>6, <2>3 DEF Commit, ConstantsOK
    <3>2. HeadAt(heads[main].rev + 1, {}) \in Commit
      BY <3>1 DEF HeadAt, Commit
    <3> QED BY <1>1, <2>3, <3>2 DEF MergedInto
  <2>4. CASE t # main
    <3>1. HeadAt(heads[t].rev, heads[t].on \cup s.on) \in Commit
      BY <2>2 DEF HeadAt, Commit
    <3> QED BY <1>1, <2>4, <3>1 DEF MergedInto
  <2> QED BY <2>3, <2>4
<1> QED BY <1>2, <1>3, <1>4, <1>5, <1>6

\* Nobody but the worker takes anything off the build branch.
HeadsGoOn ==
  /\ heads[main].exists => heads'[main].exists
  /\ heads[build].exists =>
       heads'[build].exists /\ heads[build].on \subseteq heads'[build].on

\* Heads that stay go on.
LEMMA HeadsStay == UNCHANGED heads => HeadsGoOn
BY DEF HeadsGoOn

\* What is merged is added, what is pushed or removed is another branch.
LEMMA OthersHeads ==
  ASSUME ConstantsOK, TypeOK
  PROVE  /\ \A n \in NMR : heads' = MergedInto(n) => HeadsGoOn
         /\ \A b \in Name : heads' = [heads EXCEPT ![b] = Absent] => HeadsGoOn
         /\ \A b \in Name : heads' = [heads EXCEPT ![b] = HeadAt(0, {b})] => HeadsGoOn
         /\ \A l \in Lists \ {<<>>} : heads' = [heads EXCEPT ![l].on = Listed(l)] => HeadsGoOn
<1>1. /\ heads \in [Branch -> Commit] /\ main \in Branch /\ build \in Branch /\ build # main
      /\ \A b \in Name \cup Lists : b # build /\ b # main
  BY DEF TypeOK, Branch, ConstantsOK
<1>2. ASSUME NEW n \in NMR, heads' = MergedInto(n) PROVE HeadsGoOn
  <2> DEFINE t == nmr[n].target
             s == heads[nmr[n].source]
  <2>1. t \in {build, main}
    BY DEF TypeOK, Object
  <2>2. CASE t = main
    BY <1>1, <1>2, <2>2 DEF MergedInto, HeadsGoOn, HeadAt
  <2>3. CASE t = build
    <3>1. heads' = [heads EXCEPT ![build] = HeadAt(heads[build].rev, heads[build].on \cup s.on)]
      BY <1>1, <1>2, <2>3 DEF MergedInto
    <3>2. /\ heads'[build].exists /\ heads'[build].on = heads[build].on \cup s.on
          /\ heads'[main] = heads[main]
      BY <1>1, <3>1 DEF HeadAt
    <3> QED BY <3>2 DEF HeadsGoOn
  <2> QED BY <2>1, <2>2, <2>3
<1>3. ASSUME NEW b \in Name \cup Lists, NEW c, heads' = [heads EXCEPT ![b] = c] PROVE HeadsGoOn
  BY <1>1, <1>3 DEF HeadsGoOn
<1> QED BY <1>2, <1>3

\* What others leave alone.
OthersLeave ==
  /\ UNCHANGED worker /\ UNCHANGED tags
  /\ spec' \in SpecType /\ heads' \in [Branch -> Commit]
  /\ faults' \in 0 .. MaxFaults /\ edits' \in 0 .. MaxEdits
  /\ faults' >= faults /\ edits' >= edits
  /\ stored' = stored \/ \E p \in {"deleting", "gone"} : stored' = [stored EXCEPT !.phase = p]
  /\ spec' # spec => edits' > 0
  /\ HeadsGoOn

\* They leave the worker alone, and of the stored object all but the phase.
LEMMA OthersFrame ==
  ASSUME ConstantsOK, TypeOK, Others
  PROVE  OthersLeave
<1>1. /\ spec \in SpecType /\ heads \in [Branch -> Commit] /\ faults \in 0 .. MaxFaults
      /\ edits \in 0 .. MaxEdits /\ MaxFaults \in Nat /\ MaxEdits \in Nat
  BY DEF TypeOK, SpecType, ConstantsOK
<1>2. Fault => faults' \in 0 .. MaxFaults /\ faults' >= faults
  BY <1>1 DEF Fault
<1>3. Edit => edits' \in 0 .. MaxEdits /\ edits' >= edits /\ edits' > 0
  BY <1>1 DEF Edit
<1>6. UNCHANGED heads => HeadsGoOn
  BY HeadsStay
<1> USE DEF bounds, gitlab, worker
<1>4. ASSUME NEW n \in NMR, Settling(n) \/ Reports(n) \/ Failing(n) \/ CollectGarbage(n)
      PROVE  OthersLeave
  <2>1. CASE Accept(n)
    BY <1>1, <1>2, <2>1, HeadsType, OthersHeads DEF Accept, OthersLeave
  <2>2. CASE \/ FindConflict(n) \/ CollectGarbage(n) \/ ReportReady(n) \/ Vanish(n)
             \/ ReportProcessed(n)
    <3>1. UNCHANGED <<spec, stored, heads, tags, worker, faults, edits>>
      <4>1. CASE FindConflict(n) \/ CollectGarbage(n) \/ ReportReady(n) \/ Vanish(n)
        BY <4>1 DEF FindConflict, ReportReady, Vanish, CollectGarbage
      <4>2. CASE ReportProcessed(n)
        BY <4>2 DEF ReportProcessed
      <4> QED BY <2>2, <4>1, <4>2
    <3> QED BY <1>1, <1>6, <3>1 DEF OthersLeave
  <2>3. CASE Failing(n) \/ ReportConflict(n)
    <3>1. UNCHANGED <<spec, stored, heads, tags, worker, edits>>
      BY <2>3 DEF Failing, FailToRemove, Reopen, Retract, ReportConflict
    <3>2. Fault \/ UNCHANGED faults
      BY <2>3 DEF Failing, FailToRemove, Reopen, Retract, ReportConflict
    <3> QED BY <1>1, <1>2, <1>6, <3>1, <3>2 DEF OthersLeave
  <2> QED BY <1>4, <2>1, <2>2, <2>3 DEF Settling, Reports
<1>5. ASSUME Users PROVE OthersLeave
  <2>1. ASSUME NEW s \in Specs, ChangeSpec(s) PROVE OthersLeave
    BY <1>1, <1>3, <1>6, <2>1 DEF ChangeSpec, OthersLeave, ConstantsOK, SpecType
  <2>2. CASE DeleteMerge
    <3>1. \E p \in {"deleting", "gone"} : stored' = [stored EXCEPT !.phase = p]
      BY <2>2 DEF DeleteMerge
    <3> QED BY <1>1, <1>3, <1>6, <2>2, <3>1 DEF DeleteMerge, OthersLeave
  <2>3. ASSUME NEW n \in NMR, UserMerges(n) \/ UserCloses(n) PROVE OthersLeave
    <3>1. CASE UserMerges(n)
      BY <1>1, <1>3, <3>1, HeadsType, OthersHeads DEF UserMerges, OthersLeave
    <3>2. CASE UserCloses(n)
      BY <1>1, <1>3, <1>6, <3>2 DEF UserCloses, OthersLeave
    <3> QED BY <2>3, <3>1, <3>2
  <2>4. ASSUME NEW b \in Name, UserRemovesBranch(b) PROVE OthersLeave
    <3>1. heads' = [heads EXCEPT ![b] = Absent]
      BY <2>4 DEF UserRemovesBranch, RemoveBranch
    <3>2. heads' \in [Branch -> Commit] /\ HeadsGoOn
      BY <3>1, HeadsType, OthersHeads
    <3> QED BY <1>1, <1>3, <2>4, <3>2 DEF UserRemovesBranch, OthersLeave
  <2>5. ASSUME NEW b \in Name, UserPushes(b) PROVE OthersLeave
    <3>1. heads' = [heads EXCEPT ![b] = HeadAt(0, {b})]
      BY <2>5 DEF UserPushes
    <3>2. heads' \in [Branch -> Commit] /\ HeadsGoOn
      BY <3>1, HeadsType, OthersHeads
    <3> QED BY <1>1, <2>5, <3>2 DEF UserPushes, OthersLeave
  <2>6. ASSUME NEW l \in Lists \ {<<>>}, PushResolution(l) PROVE OthersLeave
    <3>1. heads' = [heads EXCEPT ![l].on = Listed(l)]
      BY <2>6 DEF PushResolution
    <3>2. heads' \in [Branch -> Commit] /\ HeadsGoOn
      BY <3>1, HeadsType, OthersHeads
    <3> QED BY <1>1, <2>6, <3>2 DEF PushResolution, OthersLeave
  <2> QED BY <1>5, <2>1, <2>2, <2>3, <2>4, <2>5, <2>6 DEF Users
<1> QED BY <1>4, <1>5 DEF Others

-----------------------------------------------------------------------------
(* The copy.                                                               *)

\* The empty copy is a status.
LEMMA NewStatusType ==
  ConstantsOK => NewStatus \in Status /\ NewStatus.branches = <<>> /\ NoSpec \in SpecType
<1> SUFFICES ASSUME ConstantsOK
             PROVE  NewStatus \in Status /\ NewStatus.branches = <<>> /\ NoSpec \in SpecType
  OBVIOUS
<1>1. <<>> \in Lists
  <2>1. <<>> \in Seq(Name) /\ \A i, j \in DOMAIN <<>> : <<>>[i] = <<>>[j] => i = j
    OBVIOUS
  <2> QED BY <2>1, DistinctIsList
<1>2. <<>> \in BranchList
  <2>1. <<>> \in Seq(BranchStatus) /\ Distinct(<<>>)
    BY DEF Distinct
  <2> QED BY <2>1, SeqIsBranchList
<1> QED BY <1>1, <1>2 DEF BranchList, NewStatus, Status, NoConditions, Conditions, Condition, NoSpec,
                          SpecType, ConstantsOK

\* Whatever a reconcile writes into the copy, it stays one.
LEMMA StatusType ==
  ASSUME ConstantsOK, NEW m \in Status
  PROVE  /\ NoConflictState(m) \in Status /\ ReleaseForgotten(m) \in Status
         /\ ReleaseBranchFailed(m) \in Status /\ Merged(m) \in Status
         /\ \A f \in BOOLEAN : [m EXCEPT !.finalizer = f] \in Status
         /\ \A c \in Condition : /\ [m EXCEPT !.conditions.repositories = c] \in Status
                                 /\ [m EXCEPT !.conditions.branchesExist = c] \in Status
                                 /\ [m EXCEPT !.conditions.branchMerged = c] \in Status
                                 /\ [m EXCEPT !.conditions.resolved = c] \in Status
         /\ \A c \in Conditions : [m EXCEPT !.conditions = c] \in Status
         /\ \A bs \in BranchList : [m EXCEPT !.branches = bs] \in Status
         /\ [m EXCEPT !.recreated = TRUE] \in Status
         /\ \A l \in Lists, r \in 0 .. MaxNMR :
              [m EXCEPT !.resolveName = l, !.resolveMR = r] \in Status
         /\ \A r \in 0 .. MaxNMR : [m EXCEPT !.finalMR = r] \in Status
         /\ \A t \in 0 .. MaxTag : [m EXCEPT !.finalTag = t] \in Status
         /\ \A p \in {"deleting", "gone"} : [m EXCEPT !.phase = p] \in Status
         /\ \A s \in Status : Patched(s, m) \in Status
         /\ Summary(m) \in Condition
<1> USE DEF Status
<1>1. <<>> \in Lists /\ 0 \in 0 .. MaxNMR /\ 0 \in 0 .. MaxTag
  BY NewStatusType DEF NewStatus, ConstantsOK
<1>2. NoConflictState(m) \in Status /\ ReleaseForgotten(m) \in Status
  BY <1>1 DEF NoConflictState, ReleaseForgotten
<1>3. \A c \in Condition : /\ [m.conditions EXCEPT !.repositories = c] \in Conditions
                           /\ [m.conditions EXCEPT !.releaseBranch = c] \in Conditions
                           /\ [m.conditions EXCEPT !.branchesExist = c] \in Conditions
                           /\ [m.conditions EXCEPT !.branchMerged = c] \in Conditions
                           /\ [m.conditions EXCEPT !.resolved = c] \in Conditions
  BY DEF Conditions
<1>4. \A c \in Conditions : [m EXCEPT !.conditions = c] \in Status
  OBVIOUS
<1>5. \A c \in Condition : /\ [m EXCEPT !.conditions.repositories = c] \in Status
                           /\ [m EXCEPT !.conditions.releaseBranch = c] \in Status
                           /\ [m EXCEPT !.conditions.branchesExist = c] \in Status
                           /\ [m EXCEPT !.conditions.branchMerged = c] \in Status
                           /\ [m EXCEPT !.conditions.resolved = c] \in Status
  BY <1>3
<1>6. ReleaseBranchFailed(m) \in Status /\ Merged(m) \in Status
  BY <1>5 DEF ReleaseBranchFailed, Merged, Condition
<1>7. \A bs \in BranchList : [m EXCEPT !.branches = bs] \in Status
  BY DEF BranchList
<1>8. /\ \A f \in BOOLEAN : [m EXCEPT !.finalizer = f] \in Status
      /\ [m EXCEPT !.recreated = TRUE] \in Status
      /\ \A l \in Lists, r \in 0 .. MaxNMR :
           [m EXCEPT !.resolveName = l, !.resolveMR = r] \in Status
      /\ \A r \in 0 .. MaxNMR : [m EXCEPT !.finalMR = r] \in Status
      /\ \A t \in 0 .. MaxTag : [m EXCEPT !.finalTag = t] \in Status
      /\ \A p \in {"deleting", "gone"} : [m EXCEPT !.phase = p] \in Status
  OBVIOUS
<1>9. \A s \in Status : Patched(s, m) \in Status
  BY DEF Patched
<1>10. Summary(m) \in Condition
  BY DEF Summary, Condition, Conditions
<1> HIDE DEF Status
<1> QED BY <1>2, <1>4, <1>5, <1>6, <1>7, <1>8, <1>9, <1>10

\* What an entry of the status may become.
LEMMA EntryType ==
  ASSUME ConstantsOK, NEW bs \in BranchList, NEW k \in DOMAIN bs, NEW e \in BranchStatus,
         e.name = bs[k].name
  PROVE  LET x == [bs EXCEPT ![k] = e] IN
         /\ x \in BranchList /\ DOMAIN x = DOMAIN bs /\ Names(x) = Names(bs)
         /\ \A l \in DOMAIN bs : l # k => x[l] = bs[l]
         /\ x[k] = e
<1> DEFINE x == [bs EXCEPT ![k] = e]
<1>1. /\ bs \in [1 .. Len(bs) -> BranchStatus] /\ DOMAIN bs = 1 .. Len(bs)
      /\ Len(bs) \in 0 .. Cardinality(Name)
  BY BranchListIsSeq, NamesNumber
<1>2. x \in [1 .. Len(bs) -> BranchStatus] /\ DOMAIN x = DOMAIN bs
  BY <1>1
<1>3. x[k] = e /\ \A l \in DOMAIN bs : l # k => x[l] = bs[l]
  BY <1>1
<1> HIDE DEF x
<1>4. \A l \in DOMAIN bs : x[l].name = bs[l].name
  BY <1>3
<1>5. x \in BranchList
  BY <1>1, <1>2 DEF BranchList
<1>6. Names(x) = Names(bs)
  BY <1>2, <1>4 DEF Names
<1> QED BY <1>2, <1>3, <1>5, <1>6 DEF x

\* The object of a branch is forgotten.
LEMMA EntryForgotten ==
  ASSUME ConstantsOK, NEW bs \in BranchList, NEW k \in DOMAIN bs
  PROVE  LET x == [bs EXCEPT ![k].nmr = 0] IN
         /\ x \in BranchList /\ DOMAIN x = DOMAIN bs /\ Names(x) = Names(bs)
         /\ \A l \in DOMAIN bs : l # k => x[l] = bs[l]
         /\ x[k].name = bs[k].name /\ x[k].nmr = 0
<1> DEFINE e == [bs[k] EXCEPT !.nmr = 0]
<1>1. bs[k] \in BranchStatus
  BY BranchListIsSeq
<1>2. e \in BranchStatus /\ e.name = bs[k].name /\ e.nmr = 0
  BY <1>1 DEF BranchStatus, ConstantsOK
<1> HIDE DEF e
<1>3. [bs EXCEPT ![k].nmr = 0] = [bs EXCEPT ![k] = e]
  BY DEF e
<1> QED BY <1>2, <1>3, EntryType

\* It is noted.
LEMMA EntryNoted ==
  ASSUME ConstantsOK, NEW bs \in BranchList, NEW k \in DOMAIN bs, NEW r \in NMR,
         nmr' \in [NMR -> Object]
  PROVE  LET x == Noted(bs, k, r) IN
         /\ x \in BranchList /\ DOMAIN x = DOMAIN bs /\ Names(x) = Names(bs)
         /\ \A l \in DOMAIN bs : l # k => x[l] = bs[l]
         /\ x[k].name = bs[k].name /\ x[k].nmr = r /\ x[k].valid = bs[k].valid
         /\ x[k].conflict = nmr'[r].hasConflict /\ x[k].processed = nmr'[r].processed
<1> DEFINE e == [bs[k] EXCEPT !.nmr = r, !.conflict = nmr'[r].hasConflict,
                              !.processed = nmr'[r].processed]
<1>1. bs[k] \in BranchStatus
  BY BranchListIsSeq
<1>2. nmr'[r].hasConflict \in BOOLEAN /\ nmr'[r].processed \in BOOLEAN /\ r \in 0 .. MaxNMR
  BY DEF Object, NMR, ConstantsOK
<1>3. /\ e \in BranchStatus /\ e.name = bs[k].name /\ e.nmr = r /\ e.valid = bs[k].valid
      /\ e.conflict = nmr'[r].hasConflict /\ e.processed = nmr'[r].processed
  BY <1>1, <1>2 DEF BranchStatus
<1> HIDE DEF e
<1> DEFINE x == [bs EXCEPT ![k] = e]
<1>4. Noted(bs, k, r) = x
  BY DEF Noted, e
<1>5. /\ x \in BranchList /\ DOMAIN x = DOMAIN bs /\ Names(x) = Names(bs) /\ x[k] = e
      /\ \A l \in DOMAIN bs : l # k => x[l] = bs[l]
  BY <1>3, EntryType
<1> HIDE DEF x
<1> QED BY <1>3, <1>4, <1>5

-----------------------------------------------------------------------------
(* What the copy says stays true.                                          *)

\* A tag is never moved.
TagsStay ==
  /\ tags' \in [1 .. MaxTag -> Commit]
  /\ \A t \in 1 .. MaxTag : tags[t].exists => tags'[t] = tags[t]

\* A sound copy stays sound, whatever becomes of the objects it refers to.
LEMMA SoundStays ==
  ASSUME ConstantsOK, TypeOK, ObjectsNext, TagsStay, NEW m \in Status,
         Sound(m, nmr, lastNMR, tags)
  PROVE  Sound(m, nmr', lastNMR', tags')
<1>1. /\ lastNMR \in Nat /\ lastNMR' \in Nat /\ lastNMR <= lastNMR'
      /\ \A n \in 1 .. lastNMR : nmr'[n].source = nmr[n].source /\ nmr'[n].target = nmr[n].target
  BY DEF ObjectsNext, TypeOK, ConstantsOK
<1>2. /\ \A k \in DOMAIN m.branches : m.branches[k].nmr \in Refs(m)
      /\ m.resolveMR \in Refs(m) /\ m.finalMR \in Refs(m)
  BY DEF Refs
<1>3. \A n \in Refs(m) : n # 0 => n \in 1 .. lastNMR
  BY <1>1 DEF Sound
<1>4. Refs(m) \subseteq 0 .. lastNMR'
  BY <1>1 DEF Sound
<1>5. \A k \in DOMAIN m.branches :
        LET n == m.branches[k].nmr IN
        n # 0 => nmr'[n].source = m.branches[k].name /\ nmr'[n].target = build
  BY <1>1, <1>2, <1>3 DEF Sound
<1>6. m.resolveMR # 0 =>
        /\ nmr'[m.resolveMR].source = m.resolveName /\ nmr'[m.resolveMR].target = build
        /\ m.resolveName = ResolveName(m)
  BY <1>1, <1>2, <1>3 DEF Sound
<1>7. m.finalMR # 0 => nmr'[m.finalMR].source = build /\ nmr'[m.finalMR].target = main
  BY <1>1, <1>2, <1>3 DEF Sound
<1>8. m.finalMR # 0 => m.finalTag # 0 /\ tags'[m.finalTag].exists
  <2>1. m.finalTag # 0 => m.finalTag \in 1 .. MaxTag
    BY DEF Status, ConstantsOK
  <2> QED BY <2>1 DEF Sound, TagsStay
<1> QED BY <1>4, <1>5, <1>6, <1>7, <1>8 DEF Sound

\* Of two copies that differ in the rest only, both are sound or none.
Alike(m, x) ==
  /\ x.branches = m.branches /\ x.resolveName = m.resolveName /\ x.resolveMR = m.resolveMR
  /\ x.finalMR = m.finalMR /\ x.finalTag = m.finalTag

LEMMA SoundAlike ==
  ASSUME NEW m, NEW x, NEW objs, NEW last, NEW ts, Sound(m, objs, last, ts), Alike(m, x)
  PROVE  Sound(x, objs, last, ts)
BY DEF Sound, Alike, Refs, ResolveName

\* What the code changes of a copy beside the release.
LEMMA AlikeCopies ==
  ASSUME ConstantsOK, NEW m \in Status
  PROVE  /\ Alike(m, ReleaseBranchFailed(m)) /\ Alike(m, Merged(m)) /\ Alike(m, m)
         /\ \A f : Alike(m, [m EXCEPT !.finalizer = f])
         /\ \A c : /\ Alike(m, [m EXCEPT !.conditions.repositories = c])
                   /\ Alike(m, [m EXCEPT !.conditions.branchesExist = c])
                   /\ Alike(m, [m EXCEPT !.conditions.branchMerged = c])
                   /\ Alike(m, [m EXCEPT !.conditions.resolved = c])
                   /\ Alike(m, [m EXCEPT !.conditions = c])
         /\ \A p : Alike(m, [m EXCEPT !.phase = p])
         /\ Alike(m, [m EXCEPT !.recreated = TRUE])
         /\ \A s \in Status : Alike(m, Patched(s, m))
BY DEF Alike, Status, ReleaseBranchFailed, Merged, Patched

\* The empty copy refers to nothing.
LEMMA SoundNew ==
  ASSUME NEW objs, NEW last \in Nat, NEW ts
  PROVE  Sound(NewStatus, objs, last, ts)
BY DEF Sound, NewStatus, Refs, Distinct

\* What is forgotten is no longer sworn to.
LEMMA SoundForgetting ==
  ASSUME ConstantsOK, NEW m \in Status, NEW objs, NEW last \in Nat, NEW ts,
         Sound(m, objs, last, ts)
  PROVE  /\ Sound(NoConflictState(m), objs, last, ts)
         /\ Sound(ReleaseForgotten(m), objs, last, ts)
<1>1. /\ NoConflictState(m).branches = m.branches /\ NoConflictState(m).finalMR = m.finalMR
      /\ NoConflictState(m).finalTag = m.finalTag /\ NoConflictState(m).resolveMR = 0
  BY DEF NoConflictState, Status
<1>2. /\ ReleaseForgotten(m).branches = m.branches /\ ReleaseForgotten(m).finalMR = 0
      /\ ReleaseForgotten(m).resolveName = m.resolveName
      /\ ReleaseForgotten(m).resolveMR = m.resolveMR
  BY DEF ReleaseForgotten, Status
<1>3. Sound(NoConflictState(m), objs, last, ts)
  <2>1. Refs(NoConflictState(m)) \subseteq 0 .. last
    BY <1>1 DEF Sound, Refs
  <2> HIDE DEF NoConflictState
  <2> QED BY <1>1, <2>1 DEF Sound
<1>4. Sound(ReleaseForgotten(m), objs, last, ts)
  <2>1. Refs(ReleaseForgotten(m)) \subseteq 0 .. last
    BY <1>2 DEF Sound, Refs
  <2>2. ResolveName(ReleaseForgotten(m)) = ResolveName(m)
    BY <1>2 DEF ResolveName
  <2> QED BY <1>2, <2>1, <2>2 DEF Sound
<1> QED BY <1>3, <1>4

\* The list of branches is replaced.
LEMMA SoundBranches ==
  ASSUME ConstantsOK, NEW m \in Status, NEW objs, NEW last \in Nat, NEW ts,
         Sound(m, objs, last, ts), NEW bs \in BranchList, Distinct(bs),
         \A k \in DOMAIN bs : LET n == bs[k].nmr IN
           n \in 0 .. last /\ (n # 0 => objs[n].source = bs[k].name /\ objs[n].target = build),
         m.resolveMR # 0 =>
           DOMAIN bs = DOMAIN m.branches /\ \A k \in DOMAIN bs : bs[k].name = m.branches[k].name
  PROVE  Sound([m EXCEPT !.branches = bs], objs, last, ts)
<1> DEFINE x == [m EXCEPT !.branches = bs]
<1>1. /\ x.branches = bs /\ x.resolveName = m.resolveName /\ x.resolveMR = m.resolveMR
      /\ x.finalMR = m.finalMR /\ x.finalTag = m.finalTag
  BY DEF Status
<1> HIDE DEF x
<1>2. Refs(x) \subseteq 0 .. last
  <2>1. m.resolveMR \in 0 .. last /\ m.finalMR \in 0 .. last
    BY DEF Sound, Refs
  <2> QED BY <1>1, <2>1 DEF Refs
<1>3. m.resolveMR # 0 => ResolveName(x) = ResolveName(m)
  BY <1>1 DEF ResolveName
<1> QED BY <1>1, <1>2, <1>3 DEF Sound, x

\* The others' steps and the end of a reconcile presume nothing.
LEMMA StepsWithoutCare ==
  ASSUME NEW m, NEW w, NEW ts
  PROVE  /\ StepOK("conditions", m, w, ts) /\ StepOK("object", m, w, ts)
         /\ StepOK("idle", NewStatus, w, ts)
BY DEF StepOK, Resolving

\* All steps.
Steps ==
  {"idle", "dropResolveBranch", "dropResolveMR", "dropFinalMR", "dropBuild",
   "dropMRs", "branches", "build", "nmrs", "recreate", "createBuild",
   "resolveBranch", "resolveMR", "compare", "tag", "finalMR", "setAuto",
   "conditions", "object"}

\* What a step of the worker keeps.
Keeps ==
  /\ ObjectsNext /\ TagsStay /\ UNCHANGED <<spec, edits>>
  /\ heads' \in [Branch -> Commit] /\ faults' \in 0 .. MaxFaults /\ faults' >= faults
  /\ stored' \in Status /\ Sound(stored', nmr', lastNMR', tags')
  /\ merge' \in Status /\ Sound(merge', nmr', lastNMR', tags')
  /\ StepOK(pc', merge', want', tags')
  /\ pc' \in Steps /\ want' \in SpecType /\ at' \in 0 .. Cardinality(Name) + 1
  /\ pc' # "idle" => at' >= 1
  /\ pc' = "tag" => heads'[build].exists

\* A step that keeps what the worker has to keep, keeps the invariant.
LEMMA KeepsInv == Inv /\ Keeps => Inv'
BY DEF Inv, Keeps, ObjectsNext, TagsStay, TypeOK, Steps, SpecType

\* The reconcile returns, with a copy that is sound.
LEMMA Returns ==
  ASSUME ConstantsOK, Inv, ObjectsNext, TagsStay, UNCHANGED <<spec, edits, stored, want>>,
         heads' \in [Branch -> Commit], faults' \in 0 .. MaxFaults, faults' >= faults,
         at' \in 1 .. Cardinality(Name) + 1,
         NEW e \in Status, Return(e), Sound(e, nmr', lastNMR', tags')
  PROVE  Keeps
<1>1. pc' = "conditions" /\ merge' = e
  BY DEF Return, Goto
<1>2. stored' \in Status /\ Sound(stored', nmr', lastNMR', tags') /\ want' \in SpecType
  BY SoundStays DEF Inv, TypeOK, SpecType
<1> QED BY <1>1, <1>2, StepsWithoutCare DEF Keeps, Steps

\* It goes on.
LEMMA GoesOn ==
  ASSUME ConstantsOK, Inv, ObjectsNext, TagsStay, UNCHANGED <<spec, edits, stored, want>>,
         heads' \in [Branch -> Commit], faults' \in 0 .. MaxFaults, faults' >= faults,
         at' \in 1 .. Cardinality(Name) + 1,
         NEW p \in Steps, NEW m \in Status, Goto(p, m), Sound(m, nmr', lastNMR', tags'),
         StepOK(p, m, want, tags'), p = "tag" => heads'[build].exists
  PROVE  Keeps
<1>1. pc' = p /\ merge' = m
  BY DEF Goto
<1>2. stored' \in Status /\ Sound(stored', nmr', lastNMR', tags') /\ want' \in SpecType
  BY SoundStays DEF Inv, TypeOK, SpecType
<1>3. StepOK(pc', merge', want', tags')
  BY <1>1
<1> QED BY <1>1, <1>2, <1>3 DEF Keeps

\* What a call leaves behind that touches nothing shared.
LEMMA NothingShared ==
  ASSUME ConstantsOK, Inv
  PROVE  /\ UNCHANGED objects => ObjectsNext
         /\ UNCHANGED tags => TagsStay
         /\ UNCHANGED heads => heads' \in [Branch -> Commit]
         /\ Fault \/ UNCHANGED faults => faults' \in 0 .. MaxFaults /\ faults' >= faults
         /\ pc # "idle" => at \in 1 .. Cardinality(Name) + 1
         /\ want \in SpecType
<1>1. UNCHANGED objects => ObjectsNext
  BY ObjectsStay DEF Inv
<1>2. Fault \/ UNCHANGED faults => faults' \in 0 .. MaxFaults /\ faults' >= faults
  BY DEF Fault, Inv, TypeOK, ConstantsOK
<1>3. pc # "idle" => at \in 1 .. Cardinality(Name) + 1
  BY NamesNumber DEF Inv, TypeOK
<1> QED BY <1>1, <1>2, <1>3 DEF Inv, TypeOK, TagsStay, SpecType

-----------------------------------------------------------------------------
(* The reconcile, step by step.                                            *)

LEMMA ReconcileKeeps == ConstantsOK /\ Inv /\ Reconcile => Keeps
<1> SUFFICES ASSUME ConstantsOK, Inv, Reconcile PROVE Keeps
  OBVIOUS
<1>1. ObjectsNext /\ TagsStay /\ heads' \in [Branch -> Commit] /\ faults' \in 0 .. MaxFaults
      /\ faults' >= faults
  <2>1. UNCHANGED objects /\ UNCHANGED tags /\ UNCHANGED heads /\ (Fault \/ UNCHANGED faults)
    BY DEF Reconcile, gitlab
  <2> QED BY <2>1, NothingShared
<1>2. stored' \in Status /\ Sound(stored', nmr', lastNMR', tags') /\ UNCHANGED <<spec, edits>>
  BY <1>1, SoundStays DEF Reconcile, Inv, TypeOK
<1>3. want' = spec /\ want' \in SpecType /\ at' \in 1 .. Cardinality(Name) + 1
  BY NamesNumber DEF Reconcile, Inv, TypeOK, SpecType
<1>4. \A m : m \in Status /\ Alike(stored, m) => m \in Status /\ Sound(m, nmr', lastNMR', tags')
  BY <1>2, SoundAlike DEF Reconcile
<1>5. stored \in Status
  BY DEF Inv, TypeOK
<1>6. ASSUME NEW m \in Status, Alike(stored, m), Return(m) PROVE Keeps
  BY <1>1, <1>2, <1>3, <1>4, <1>6, StepsWithoutCare DEF Return, Goto, Keeps, Steps
<1>7. CASE \E f \in BOOLEAN : Return([stored EXCEPT !.finalizer = f])
  BY <1>5, <1>6, <1>7, StatusType, AlikeCopies
<1>8. CASE Return([stored EXCEPT !.conditions.repositories = "False"])
  BY <1>5, <1>6, <1>8, StatusType, AlikeCopies DEF Condition
<1>9. CASE Goto(IF Changed(stored, spec) THEN "dropResolveBranch" ELSE "branches",
                [stored EXCEPT !.conditions.repositories = "True"])
  <2> DEFINE m == [stored EXCEPT !.conditions.repositories = "True"]
  <2>1. m \in Status /\ Alike(stored, m)
    BY <1>5, StatusType, AlikeCopies DEF Condition
  <2> HIDE DEF m
  <2>2. /\ pc' = (IF Changed(stored, spec) THEN "dropResolveBranch" ELSE "branches")
        /\ merge' = m
    BY <1>9 DEF Goto, m
  <2>3. (Changed(m, want') <=> Changed(stored, spec)) /\ (~Changed(m, want') => ~Shrunk(m, want'))
    BY <1>3, <2>1 DEF Changed, Shrunk, Alike
  <2>4. StepOK(pc', merge', want', tags') /\ pc' # "tag"
    BY <2>2, <2>3 DEF StepOK, Resolving
  <2> QED BY <1>1, <1>2, <1>3, <1>4, <2>1, <2>2, <2>4 DEF Keeps, Steps
<1> QED BY <1>7, <1>8, <1>9 DEF Reconcile

LEMMA DropResolveBranchKeeps == ConstantsOK /\ Inv /\ DropResolveBranch => Keeps
<1> SUFFICES ASSUME ConstantsOK, Inv, DropResolveBranch PROVE Keeps
  OBVIOUS
<1>1. /\ TagsStay /\ UNCHANGED <<spec, edits, stored, want>>
      /\ at' \in 1 .. Cardinality(Name) + 1 /\ merge \in Status
      /\ Sound(merge, nmr, lastNMR, tags) /\ TypeOK /\ ObjectsOK
  BY NothingShared DEF DropResolveBranch, Inv, TypeOK
<1>2. faults' \in 0 .. MaxFaults /\ faults' >= faults
  BY NothingShared DEF DropResolveBranch, Answered
<1>3. ObjectsNext /\ heads' \in [Branch -> Commit]
  <2>1. CASE RemoveBranch(merge.resolveName)
    BY <1>1, <2>1, RemovedBranchObjects, HeadsType DEF DropResolveBranch, RemoveBranch
  <2>2. CASE UNCHANGED <<heads, nmr, past>>
    BY <2>2, NothingShared DEF DropResolveBranch, objects
  <2> QED BY <2>1, <2>2 DEF DropResolveBranch
<1>4. Sound(merge, nmr', lastNMR', tags')
  BY <1>1, <1>3, SoundStays
<1>5. StepOK("dropResolveMR", merge, want, tags')
  BY DEF DropResolveBranch, Inv, StepOK, Resolving
<1>6. Goto("dropResolveMR", merge) \/ Return(merge)
  BY DEF DropResolveBranch, Answered
<1>7. "dropResolveMR" \in Steps
  BY DEF Steps
<1> QED BY <1>1, <1>2, <1>3, <1>4, <1>5, <1>6, <1>7, Returns, GoesOn

\* The facts that hold of the objects when a call deleted one, or not.
LEMMA DeletingKeeps ==
  ASSUME ConstantsOK, Inv, NEW n \in 0 .. MaxNMR, DeleteNativeMR(n) \/ UNCHANGED objects
  PROVE  ObjectsNext
BY DeletedObjects, NothingShared DEF Inv

LEMMA DropResolveMRKeeps == ConstantsOK /\ Inv /\ DropResolveMR => Keeps
<1> SUFFICES ASSUME ConstantsOK, Inv, DropResolveMR PROVE Keeps
  OBVIOUS
<1>1. /\ TagsStay /\ UNCHANGED <<spec, edits, stored, want>> /\ heads' \in [Branch -> Commit]
      /\ at' \in 1 .. Cardinality(Name) + 1 /\ merge \in Status
      /\ Sound(merge, nmr, lastNMR, tags) /\ TypeOK
  BY NothingShared DEF DropResolveMR, Inv, TypeOK, gitlab
<1>2. faults' \in 0 .. MaxFaults /\ faults' >= faults
  BY NothingShared DEF DropResolveMR, Answered
<1>3. ObjectsNext
  <2>1. merge.resolveMR \in 0 .. MaxNMR
    BY <1>1 DEF Status
  <2> QED BY <2>1, DeletingKeeps DEF DropResolveMR
<1>4. /\ Sound(merge, nmr', lastNMR', tags') /\ NoConflictState(merge) \in Status
      /\ Sound(NoConflictState(merge), nmr', lastNMR', tags')
  <2>1. Sound(merge, nmr', lastNMR', tags')
    BY <1>1, <1>3, SoundStays
  <2>2. lastNMR' \in Nat
    BY <1>3 DEF ObjectsNext, ConstantsOK
  <2> QED BY <1>1, <2>1, <2>2, SoundForgetting, StatusType
<1>5. StepOK("dropFinalMR", NoConflictState(merge), want, tags')
  <2>1. /\ NoConflictState(merge).resolveMR = 0
        /\ NoConflictState(merge).branches = merge.branches
    BY <1>1 DEF NoConflictState, Status
  <2>2. Changed(merge, want)
    BY DEF Inv, StepOK, DropResolveMR
  <2> QED BY <2>1, <2>2 DEF StepOK, Resolving, Changed
<1>6. Goto("dropFinalMR", NoConflictState(merge)) \/ Return(merge)
  BY DEF DropResolveMR, Answered
<1>7. "dropFinalMR" \in Steps
  BY DEF Steps
<1> QED BY <1>1, <1>2, <1>3, <1>4, <1>5, <1>6, <1>7, Returns, GoesOn

LEMMA DropFinalMRKeeps == ConstantsOK /\ Inv /\ DropFinalMR => Keeps
<1> SUFFICES ASSUME ConstantsOK, Inv, DropFinalMR PROVE Keeps
  OBVIOUS
<1> DEFINE next == IF Shrunk(merge, want) THEN "dropBuild" ELSE "branches"
<1>1. /\ TagsStay /\ UNCHANGED <<spec, edits, stored, want>> /\ heads' \in [Branch -> Commit]
      /\ at' \in 1 .. Cardinality(Name) + 1 /\ merge \in Status
      /\ Sound(merge, nmr, lastNMR, tags) /\ TypeOK
  BY NothingShared DEF DropFinalMR, Inv, TypeOK, gitlab
<1>2. faults' \in 0 .. MaxFaults /\ faults' >= faults
  BY NothingShared DEF DropFinalMR, Answered
<1>3. ObjectsNext
  <2>1. merge.finalMR \in 0 .. MaxNMR
    BY <1>1 DEF Status
  <2> QED BY <2>1, DeletingKeeps DEF DropFinalMR
<1>4. /\ Sound(merge, nmr', lastNMR', tags') /\ ReleaseForgotten(merge) \in Status
      /\ Sound(ReleaseForgotten(merge), nmr', lastNMR', tags')
  <2>1. Sound(merge, nmr', lastNMR', tags')
    BY <1>1, <1>3, SoundStays
  <2>2. lastNMR' \in Nat
    BY <1>3 DEF ObjectsNext, ConstantsOK
  <2> QED BY <1>1, <2>1, <2>2, SoundForgetting, StatusType
<1>5. Changed(merge, want) /\ merge.resolveMR = 0
  BY DEF Inv, StepOK, DropFinalMR
<1>6. merge.finalMR = 0 => StepOK(next, merge, want, tags')
  BY <1>5 DEF StepOK, Resolving
<1>7. StepOK(next, ReleaseForgotten(merge), want, tags')
  <2>1. /\ ReleaseForgotten(merge).resolveMR = 0 /\ ReleaseForgotten(merge).finalMR = 0
        /\ ReleaseForgotten(merge).branches = merge.branches
    BY <1>1, <1>5 DEF ReleaseForgotten, Status
  <2> QED BY <2>1 DEF StepOK, Resolving, Changed, Shrunk
<1>8. next \in Steps /\ next # "tag"
  BY DEF Steps
<1>9. \/ merge.finalMR = 0 /\ Goto(next, merge)
      \/ Goto(next, ReleaseForgotten(merge)) \/ Return(merge)
  BY DEF DropFinalMR, Answered
<1> HIDE DEF next
<1> QED BY <1>1, <1>2, <1>3, <1>4, <1>6, <1>7, <1>8, <1>9, Returns, GoesOn

\* A copy that reports a failure is as sound as it was.
LEMMA FailedRelease ==
  ASSUME ConstantsOK, Inv, ObjectsNext, TagsStay
  PROVE  /\ merge \in Status /\ Sound(merge, nmr', lastNMR', tags')
         /\ ReleaseBranchFailed(merge) \in Status
         /\ Sound(ReleaseBranchFailed(merge), nmr', lastNMR', tags')
<1>1. merge \in Status /\ Sound(merge, nmr', lastNMR', tags')
  BY SoundStays DEF Inv, TypeOK
<1> QED BY <1>1, SoundAlike, AlikeCopies, StatusType

LEMMA DropBuildKeeps == ConstantsOK /\ Inv /\ DropBuild => Keeps
<1> SUFFICES ASSUME ConstantsOK, Inv, DropBuild PROVE Keeps
  OBVIOUS
<1>1. /\ TagsStay /\ UNCHANGED <<spec, edits, stored, want>>
      /\ at' \in 1 .. Cardinality(Name) + 1 /\ TypeOK /\ ObjectsOK
  BY NothingShared DEF DropBuild, Inv
<1>2. faults' \in 0 .. MaxFaults /\ faults' >= faults
  BY NothingShared DEF DropBuild, Answered
<1>3. ObjectsNext /\ heads' \in [Branch -> Commit]
  <2>1. CASE RemoveBranch(build)
    BY <1>1, <2>1, RemovedBranchObjects, HeadsType DEF DropBuild, RemoveBranch
  <2>2. CASE UNCHANGED <<heads, nmr, past>>
    BY <2>2, NothingShared DEF DropBuild, objects
  <2> QED BY <2>1, <2>2 DEF DropBuild
<1>4. StepOK("dropMRs", merge, want, tags') /\ "dropMRs" \in Steps
  BY DEF DropBuild, Inv, StepOK, Resolving, Steps
<1>5. Goto("dropMRs", merge) \/ Return(ReleaseBranchFailed(merge))
  BY DEF DropBuild, Answered
<1> QED BY <1>1, <1>2, <1>3, <1>4, <1>5, Returns, GoesOn, FailedRelease

\* The entry that the loop is at.
LEMMA AtEntry ==
  ASSUME ConstantsOK, Inv, pc # "idle"
  PROVE  /\ merge \in Status /\ merge.branches \in BranchList
         /\ DOMAIN merge.branches = 1 .. Len(merge.branches)
         /\ at \in Nat /\ at >= 1 /\ Len(merge.branches) \in Nat
         /\ at <= Len(merge.branches) =>
              /\ at \in DOMAIN merge.branches /\ merge.branches[at] \in BranchStatus
              /\ merge.branches[at].nmr \in 0 .. lastNMR /\ merge.branches[at].nmr \in 0 .. MaxNMR
              /\ merge.branches[at].name \in Name
              /\ at + 1 \in 1 .. Cardinality(Name) + 1
<1>1. merge \in Status /\ merge.branches \in BranchList
  BY DEF Inv, TypeOK, Status, BranchList
<1>2. /\ DOMAIN merge.branches = 1 .. Len(merge.branches) /\ Len(merge.branches) \in Nat
      /\ Len(merge.branches) <= Cardinality(Name) /\ Cardinality(Name) \in Nat
      /\ \A k \in DOMAIN merge.branches : merge.branches[k] \in BranchStatus
  BY <1>1, BranchListIsSeq, NamesNumber
<1>3. at \in Nat /\ at >= 1
  BY NamesNumber DEF Inv, TypeOK
<1>4. \A k \in DOMAIN merge.branches : merge.branches[k].nmr \in 0 .. lastNMR
  BY DEF Inv, Sound, Refs
<1> QED BY <1>1, <1>2, <1>3, <1>4 DEF BranchStatus

LEMMA DropBranchMRsKeeps == ConstantsOK /\ Inv /\ DropBranchMRs => Keeps
<1> SUFFICES ASSUME ConstantsOK, Inv, DropBranchMRs PROVE Keeps
  OBVIOUS
<1>1. /\ TagsStay /\ UNCHANGED <<spec, edits, stored, want>> /\ heads' \in [Branch -> Commit]
      /\ merge \in Status /\ Sound(merge, nmr, lastNMR, tags) /\ TypeOK /\ pc # "idle"
  BY NothingShared DEF DropBranchMRs, Inv, TypeOK, gitlab
<1>2. faults' \in 0 .. MaxFaults /\ faults' >= faults
  BY NothingShared DEF DropBranchMRs, Answered
<1>3. ObjectsNext
  <2>1. CASE UNCHANGED objects
    BY <2>1, NothingShared
  <2>2. CASE at <= Len(merge.branches) /\ DeleteNativeMR(merge.branches[at].nmr)
    BY <1>1, <2>2, DeletingKeeps, AtEntry
  <2> QED BY <2>1, <2>2 DEF DropBranchMRs
<1>4. Sound(merge, nmr', lastNMR', tags')
  BY <1>1, <1>3, SoundStays
<1>5. merge.resolveMR = 0 /\ merge.finalMR = 0
  BY DEF Inv, StepOK, DropBranchMRs
<1>6. lastNMR' \in Nat
  BY <1>3 DEF ObjectsNext, ConstantsOK
<1>7. CASE /\ at' = 1 /\ Goto("branches", [merge EXCEPT !.branches = <<>>])
           /\ UNCHANGED <<objects, faults>>
  <2> DEFINE m == [merge EXCEPT !.branches = <<>>]
  <2>1. <<>> \in BranchList /\ Distinct(<<>>)
    BY NewStatusType DEF NewStatus, Status, BranchList, Distinct
  <2>2. m \in Status
    BY <1>1, <2>1, StatusType
  <2>3. Sound(m, nmr', lastNMR', tags')
    <3>1. \A k \in DOMAIN <<>> : FALSE
      OBVIOUS
    <3> QED BY <1>1, <1>4, <1>5, <1>6, <2>1, <3>1, SoundBranches
  <2>4. m.branches = <<>> /\ m.resolveMR = 0
    BY <1>1, <1>5 DEF Status
  <2>5. StepOK("branches", m, want, tags') /\ "branches" \in Steps
    BY <2>4 DEF StepOK, Resolving, Shrunk, Names, Steps
  <2>6. at' \in 1 .. Cardinality(Name) + 1
    BY <1>7, NamesNumber
  <2> HIDE DEF m
  <2>7. Goto("branches", m)
    BY <1>7 DEF m
  <2> QED BY <1>1, <1>2, <1>3, <2>2, <2>3, <2>5, <2>6, <2>7, GoesOn
<1>8. CASE at <= Len(merge.branches) /\ at' = at + 1
  <2> DEFINE bs == [merge.branches EXCEPT ![at].nmr = 0]
             m == [merge EXCEPT !.branches = bs]
  <2>1. at' \in 1 .. Cardinality(Name) + 1 /\ at \in DOMAIN merge.branches
        /\ merge.branches \in BranchList
    BY <1>1, <1>8, AtEntry
  <2>2. /\ bs \in BranchList /\ DOMAIN bs = DOMAIN merge.branches
        /\ \A l \in DOMAIN bs : l # at => bs[l] = merge.branches[l]
        /\ bs[at].name = merge.branches[at].name /\ bs[at].nmr = 0
    BY <2>1, EntryForgotten
  <2> HIDE DEF bs
  <2>3. m \in Status /\ m.branches = bs /\ m.resolveMR = 0 /\ m.finalMR = 0
    <3>1. m \in Status
      BY <1>1, <2>2, StatusType
    <3> QED BY <1>1, <1>5, <3>1 DEF Status
  <2>4. Sound(m, nmr', lastNMR', tags')
    <3>1. Distinct(bs)
      BY <1>4, <2>2 DEF Sound, Distinct
    <3>2. \A k \in DOMAIN bs : LET n == bs[k].nmr IN
            n \in 0 .. lastNMR' /\ (n # 0 => nmr'[n].source = bs[k].name /\ nmr'[n].target = build)
      BY <1>4, <1>6, <2>2 DEF Sound, Refs
    <3> QED BY <1>1, <1>4, <1>5, <1>6, <2>2, <3>1, <3>2, SoundBranches
  <2>5. /\ StepOK("dropMRs", m, want, tags') /\ StepOK("dropMRs", merge, want, tags')
        /\ "dropMRs" \in Steps
    BY <1>5, <2>3 DEF StepOK, Resolving, Steps
  <2>6. Goto("dropMRs", merge) \/ Goto("dropMRs", m) \/ Return(ReleaseBranchFailed(merge))
    BY <1>8, <2>1 DEF DropBranchMRs, Answered, bs
  <2> HIDE DEF m
  <2> QED BY <1>1, <1>2, <1>3, <1>4, <2>1, <2>3, <2>4, <2>5, <2>6, GoesOn, Returns, FailedRelease
<1> QED BY <1>7, <1>8 DEF DropBranchMRs

\* What addBranchesToStatus makes of the copy.
LEMMA AddedBranches ==
  ASSUME ConstantsOK, Inv, pc = "branches", NEW f
  PROVE  LET vs == Validated(Extended(merge, want), f)
             m  == [merge EXCEPT !.branches = vs] IN
         /\ m \in Status /\ m.branches = vs /\ Sound(m, nmr, lastNMR, tags)
         /\ Names(vs) = Listed(want.branches)
<1> DEFINE old == merge.branches
           bs == Extended(merge, want)
           vs == Validated(bs, f)
           m == [merge EXCEPT !.branches = vs]
<1>1. /\ merge \in Status /\ Sound(merge, nmr, lastNMR, tags) /\ Distinct(old)
      /\ want \in SpecType /\ heads \in [Branch -> Commit] /\ lastNMR \in Nat
  BY DEF Inv, TypeOK, SpecType, Sound, ConstantsOK
<1>2. ~Shrunk(merge, want) /\ (Changed(merge, want) => merge.resolveMR = 0)
  BY DEF Inv, StepOK
<1>3. /\ bs \in BranchList /\ Distinct(bs) /\ Names(bs) = Names(old) \cup Listed(want.branches)
      /\ DOMAIN old \subseteq DOMAIN bs /\ \A k \in DOMAIN old : bs[k] = old[k]
      /\ \A k \in DOMAIN bs \ DOMAIN old :
           bs[k] = NewBranch(bs[k].name) /\ bs[k].name \notin Names(old)
  BY <1>1, ExtendedKeeps
<1> HIDE DEF bs
<1>4. /\ vs \in BranchList /\ DOMAIN vs = DOMAIN bs /\ Names(vs) = Names(bs) /\ Distinct(vs)
      /\ \A k \in DOMAIN bs : vs[k].name = bs[k].name /\ vs[k].nmr = bs[k].nmr
  BY <1>1, <1>3, ValidatedKeeps
<1> HIDE DEF vs
<1>5. Names(vs) = Listed(want.branches)
  BY <1>2, <1>3, <1>4 DEF Shrunk
<1>6. m \in Status /\ m.branches = vs
  <2>1. m \in Status
    BY <1>1, <1>4, StatusType
  <2> QED BY <1>1, <2>1 DEF Status
<1>7. \A k \in DOMAIN vs : LET n == vs[k].nmr IN
        n \in 0 .. lastNMR /\ (n # 0 => nmr[n].source = vs[k].name /\ nmr[n].target = build)
  <2> SUFFICES ASSUME NEW k \in DOMAIN vs
               PROVE  LET n == vs[k].nmr IN
                      n \in 0 .. lastNMR /\ (n # 0 => nmr[n].source = vs[k].name /\ nmr[n].target = build)
    OBVIOUS
  <2>1. CASE k \in DOMAIN old
    BY <1>1, <1>3, <1>4, <2>1 DEF Sound, Refs
  <2>2. CASE k \notin DOMAIN old
    BY <1>1, <1>3, <1>4, <2>2 DEF NewBranch
  <2> QED BY <2>1, <2>2
<1>8. merge.resolveMR # 0 => DOMAIN vs = DOMAIN old /\ \A k \in DOMAIN vs : vs[k].name = old[k].name
  <2> SUFFICES ASSUME merge.resolveMR # 0
               PROVE  DOMAIN vs = DOMAIN old /\ \A k \in DOMAIN vs : vs[k].name = old[k].name
    OBVIOUS
  <2>1. Names(old) = Listed(want.branches)
    BY <1>2 DEF Changed
  <2>2. ASSUME NEW k \in DOMAIN bs \ DOMAIN old PROVE FALSE
    <3>1. bs[k].name \in Names(bs)
      BY DEF Names
    <3> QED BY <1>3, <2>1, <3>1
  <2> QED BY <1>3, <1>4, <2>2
<1>9. Sound(m, nmr, lastNMR, tags)
  BY <1>1, <1>4, <1>7, <1>8, SoundBranches
<1> QED BY <1>5, <1>6, <1>9 DEF vs, bs

LEMMA AddBranchesToStatusKeeps == ConstantsOK /\ Inv /\ AddBranchesToStatus => Keeps
<1> SUFFICES ASSUME ConstantsOK, Inv, AddBranchesToStatus PROVE Keeps
  OBVIOUS
<1>1. /\ TagsStay /\ UNCHANGED <<spec, edits, stored, want>> /\ heads' \in [Branch -> Commit]
      /\ at' \in 1 .. Cardinality(Name) + 1 /\ pc = "branches" /\ ObjectsNext /\ TypeOK
  BY NothingShared DEF AddBranchesToStatus, Inv, TypeOK, gitlab
<1>2. faults' \in 0 .. MaxFaults /\ faults' >= faults
  BY NothingShared DEF AddBranchesToStatus
<1>3. PICK f : Goto("build", [merge EXCEPT !.branches = Validated(Extended(merge, want), f)])
  BY DEF AddBranchesToStatus
<1> DEFINE m == [merge EXCEPT !.branches = Validated(Extended(merge, want), f)]
<1>4. m \in Status /\ Sound(m, nmr, lastNMR, tags) /\ Names(m.branches) = Listed(want.branches)
  BY <1>1, AddedBranches
<1> HIDE DEF m
<1>5. Sound(m, nmr', lastNMR', tags')
  BY <1>1, <1>4, SoundStays
<1>6. StepOK("build", m, want, tags') /\ "build" \in Steps
  BY <1>4 DEF StepOK, Resolving, Changed, Steps
<1>7. Goto("build", m)
  BY <1>3 DEF m
<1> QED BY <1>1, <1>2, <1>4, <1>5, <1>6, <1>7, GoesOn

LEMMA GetOrCreateBuildBranchKeeps == ConstantsOK /\ Inv /\ GetOrCreateBuildBranch => Keeps
<1> SUFFICES ASSUME ConstantsOK, Inv, GetOrCreateBuildBranch PROVE Keeps
  OBVIOUS
<1>1. /\ TagsStay /\ UNCHANGED <<spec, edits, stored, want>> /\ ObjectsNext /\ TypeOK
      /\ at' \in 1 .. Cardinality(Name) + 1
  BY NothingShared DEF GetOrCreateBuildBranch, Inv
<1>2. faults' \in 0 .. MaxFaults /\ faults' >= faults
  BY NothingShared DEF GetOrCreateBuildBranch, Answered
<1>3. heads' \in [Branch -> Commit]
  BY <1>1, HeadsType DEF GetOrCreateBuildBranch, GetOrCreateBranch, TypeOK
<1>4. StepOK("nmrs", merge, want, tags') /\ "nmrs" \in Steps
  BY DEF GetOrCreateBuildBranch, Inv, StepOK, Resolving, Steps
<1>5. Goto("nmrs", merge) \/ Return(ReleaseBranchFailed(merge))
  BY DEF GetOrCreateBuildBranch, Answered
<1> QED BY <1>1, <1>2, <1>3, <1>4, <1>5, Returns, GoesOn, FailedRelease

\* What EnsureBranchMR does with the objects.
LEMMA EnsuredBranchMR ==
  ASSUME ConstantsOK, Inv, EnsureBranchMR
  PROVE  /\ ObjectsNext /\ at \in DOMAIN merge.branches /\ faults' \in 0 .. MaxFaults
         /\ faults' >= faults /\ at' = at + 1 /\ at' \in 1 .. Cardinality(Name) + 1
         /\ \/ Return(merge) /\ Loses(merge.branches[at].name, build, TRUE)
            \/ \E r \in NMR :
                 /\ Goto("nmrs", [merge EXCEPT !.branches = Noted(merge.branches, at, r)])
                 /\ Obtains(merge.branches[at].nmr, merge.branches[at].name, build, TRUE, r)
<1> DEFINE n == merge.branches[at].nmr
           s == merge.branches[at].name
<1>1. /\ TypeOK /\ ObjectsOK /\ at \in DOMAIN merge.branches /\ n \in 0 .. lastNMR
      /\ s \in Name /\ at' = at + 1 /\ at' \in 1 .. Cardinality(Name) + 1
  BY AtEntry DEF EnsureBranchMR, Inv
<1>2. s \in Branch /\ build \in {build, main} /\ TRUE \in BOOLEAN
  BY <1>1 DEF Branch
<1>3. PICK r \in 0 .. MaxNMR :
        /\ GetOrCreateNativeMR(n, s, build, TRUE, r)
        /\ IF r = 0 THEN Return(merge)
           ELSE Goto("nmrs", [merge EXCEPT !.branches = Noted(merge.branches, at, r)])
  BY DEF EnsureBranchMR
<1> HIDE DEF n, s
<1>4. /\ ObjectsNext /\ faults' \in 0 .. MaxFaults /\ faults' >= faults
      /\ r # 0 => Obtains(n, s, build, TRUE, r)
      /\ r = 0 => Loses(s, build, TRUE)
  BY <1>1, <1>2, <1>3, GotOrCreatedObject
<1>5. CASE r = 0
  BY <1>1, <1>3, <1>4, <1>5 DEF n, s
<1>6. CASE r # 0
  BY <1>1, <1>3, <1>4, <1>6 DEF n, s, Obtains
<1> QED BY <1>5, <1>6

LEMMA EnsureBranchMRKeeps == ConstantsOK /\ Inv /\ EnsureBranchMR => Keeps
<1> SUFFICES ASSUME ConstantsOK, Inv, EnsureBranchMR PROVE Keeps
  OBVIOUS
<1>1. /\ TagsStay /\ UNCHANGED <<spec, edits, stored, want>> /\ heads' \in [Branch -> Commit]
      /\ merge \in Status /\ Sound(merge, nmr, lastNMR, tags) /\ TypeOK /\ pc = "nmrs"
  BY NothingShared DEF EnsureBranchMR, Inv, TypeOK, gitlab
<1>2. /\ ObjectsNext /\ faults' \in 0 .. MaxFaults /\ faults' >= faults
      /\ at' \in 1 .. Cardinality(Name) + 1 /\ at \in DOMAIN merge.branches
  BY EnsuredBranchMR
<1>3. Sound(merge, nmr', lastNMR', tags')
  BY <1>1, <1>2, SoundStays
<1>4. CASE Return(merge)
  BY <1>1, <1>2, <1>3, <1>4, Returns
<1>5. ASSUME NEW r \in NMR, r <= lastNMR',
             Goto("nmrs", [merge EXCEPT !.branches = Noted(merge.branches, at, r)]),
             \/ r = merge.branches[at].nmr
             \/ nmr'[r].source = merge.branches[at].name /\ nmr'[r].target = build
      PROVE  Keeps
  <2> DEFINE bs == Noted(merge.branches, at, r)
             m == [merge EXCEPT !.branches = bs]
  <2>1. nmr' \in [NMR -> Object] /\ merge.branches \in BranchList /\ lastNMR' \in Nat
    BY <1>1, <1>2, AtEntry DEF ObjectsNext, ConstantsOK
  <2>2. /\ bs \in BranchList /\ DOMAIN bs = DOMAIN merge.branches /\ Names(bs) = Names(merge.branches)
        /\ \A l \in DOMAIN bs : l # at => bs[l] = merge.branches[l]
        /\ bs[at].name = merge.branches[at].name /\ bs[at].nmr = r
    BY <1>2, <2>1, EntryNoted
  <2> HIDE DEF bs
  <2>3. m \in Status /\ m.branches = bs
    <3>1. m \in Status
      BY <1>1, <2>2, StatusType
    <3> QED BY <1>1, <3>1 DEF Status
  <2>4. r # 0 /\ r \in 0 .. lastNMR' /\ nmr'[r].source = merge.branches[at].name
        /\ nmr'[r].target = build
    <3>1. r # 0 /\ r \in 0 .. lastNMR'
      BY <1>5, <2>1 DEF NMR, ConstantsOK
    <3> QED BY <1>2, <1>3, <1>5, <3>1 DEF Sound
  <2>5. Sound(m, nmr', lastNMR', tags')
    <3>1. \A k \in DOMAIN bs : bs[k].name = merge.branches[k].name
      BY <2>2
    <3>2. Distinct(bs)
      BY <1>3, <2>2, <3>1 DEF Sound, Distinct
    <3>3. \A k \in DOMAIN bs : LET n == bs[k].nmr IN
            n \in 0 .. lastNMR' /\ (n # 0 => nmr'[n].source = bs[k].name /\ nmr'[n].target = build)
      BY <1>3, <2>2, <2>4 DEF Sound, Refs
    <3> QED BY <1>1, <1>3, <2>1, <2>2, <3>1, <3>2, <3>3, SoundBranches
  <2>6. StepOK("nmrs", m, want, tags') /\ "nmrs" \in Steps
    BY <1>1, <2>2, <2>3 DEF Inv, StepOK, Resolving, Changed, Steps
  <2>7. Goto("nmrs", m)
    BY <1>5 DEF bs
  <2> HIDE DEF m
  <2> QED BY <1>1, <1>2, <2>3, <2>5, <2>6, <2>7, GoesOn
<1>6. \/ Return(merge)
      \/ \E r \in NMR :
           /\ Goto("nmrs", [merge EXCEPT !.branches = Noted(merge.branches, at, r)])
           /\ r <= lastNMR'
           /\ \/ r = merge.branches[at].nmr
              \/ nmr'[r].source = merge.branches[at].name /\ nmr'[r].target = build
  BY EnsuredBranchMR DEF Obtains
<1> QED BY <1>4, <1>5, <1>6

LEMMA JudgeKeeps == ConstantsOK /\ Inv /\ Judge => Keeps
<1> SUFFICES ASSUME ConstantsOK, Inv, Judge PROVE Keeps
  OBVIOUS
<1>1. /\ TagsStay /\ UNCHANGED <<spec, edits, stored, want>> /\ heads' \in [Branch -> Commit]
      /\ ObjectsNext /\ at' \in 1 .. Cardinality(Name) + 1 /\ merge \in Status /\ TypeOK
      /\ Sound(merge, nmr, lastNMR, tags)
      /\ faults' \in 0 .. MaxFaults /\ faults' >= faults
  BY NothingShared DEF Judge, Inv, TypeOK, gitlab, bounds
<1>2. Sound(merge, nmr', lastNMR', tags') /\ ~Changed(merge, want)
  BY <1>1, SoundStays DEF Inv, StepOK, Judge
<1> DEFINE exist == [merge EXCEPT !.conditions.branchesExist = "True"]
           lack == [merge EXCEPT !.conditions.branchesExist = "False"]
           await == [exist EXCEPT !.conditions.branchMerged = "False"]
<1>3. /\ exist \in Status /\ lack \in Status /\ Alike(merge, exist) /\ Alike(merge, lack)
      /\ exist.recreated = merge.recreated
  <2>1. /\ exist \in Status /\ lack \in Status /\ Alike(merge, exist) /\ Alike(merge, lack)
    BY <1>1, StatusType, AlikeCopies DEF Condition
  <2> QED BY <1>1, <2>1 DEF Status
<1> HIDE DEF exist, lack
<1>4. await \in Status /\ Alike(exist, await)
  BY <1>3, StatusType, AlikeCopies DEF Condition
<1> HIDE DEF await
<1>5. /\ Sound(exist, nmr', lastNMR', tags') /\ Sound(lack, nmr', lastNMR', tags')
      /\ Sound(await, nmr', lastNMR', tags')
  BY <1>2, <1>3, <1>4, SoundAlike
<1>6. ~Changed(exist, want) /\ (HasConflict(exist) <=> HasConflict(merge))
  BY <1>2, <1>3 DEF Changed, HasConflict, Alike
<1>7. CASE Return(lack) \/ Return(await)
  BY <1>1, <1>3, <1>4, <1>5, <1>7, Returns
<1>8. CASE Goto("compare", exist)
  <2>1. StepOK("compare", exist, want, tags') /\ "compare" \in Steps
    BY <1>6 DEF StepOK, Resolving, Steps
  <2> QED BY <1>1, <1>3, <1>5, <1>8, <2>1, GoesOn
<1>9. CASE HasConflict(merge) /\ Goto(IF ToBeRecreated(merge) THEN "recreate" ELSE "resolveBranch", exist)
  <2>1. /\ ToBeRecreated(merge) => StepOK("recreate", exist, want, tags')
        /\ StepOK("resolveBranch", exist, want, tags')
        /\ "recreate" \in Steps /\ "resolveBranch" \in Steps
    BY <1>3, <1>6, <1>9 DEF StepOK, Resolving, Steps, ToBeRecreated
  <2>2. CASE ToBeRecreated(merge)
    BY <1>1, <1>3, <1>5, <1>9, <2>1, <2>2, GoesOn
  <2>3. CASE ~ToBeRecreated(merge)
    BY <1>1, <1>3, <1>5, <1>9, <2>1, <2>3, GoesOn
  <2> QED BY <2>2, <2>3
<1> QED BY <1>7, <1>8, <1>9 DEF Judge, exist, lack, await

LEMMA RecreateBuildKeeps == ConstantsOK /\ Inv /\ RecreateBuild => Keeps
<1> SUFFICES ASSUME ConstantsOK, Inv, RecreateBuild PROVE Keeps
  OBVIOUS
<1>1. /\ TagsStay /\ UNCHANGED <<spec, edits, stored, want>>
      /\ at' \in 1 .. Cardinality(Name) + 1 /\ TypeOK /\ ObjectsOK
  BY NothingShared DEF RecreateBuild, Inv
<1>2. faults' \in 0 .. MaxFaults /\ faults' >= faults
  BY NothingShared DEF RecreateBuild, Answered
<1>3. ObjectsNext /\ heads' \in [Branch -> Commit]
  <2>1. CASE RemoveBranch(build)
    BY <1>1, <2>1, RemovedBranchObjects, HeadsType DEF RecreateBuild, RemoveBranch
  <2>2. CASE UNCHANGED <<heads, nmr, past>>
    BY <2>2, NothingShared DEF RecreateBuild, objects
  <2> QED BY <2>1, <2>2 DEF RecreateBuild
<1>4. StepOK("createBuild", merge, want, tags') /\ "createBuild" \in Steps
  BY DEF RecreateBuild, Inv, StepOK, Resolving, Steps
<1>5. Goto("createBuild", merge) \/ Return(ReleaseBranchFailed(merge))
  BY DEF RecreateBuild, Answered
<1> QED BY <1>1, <1>2, <1>3, <1>4, <1>5, Returns, GoesOn, FailedRelease

LEMMA CreateBuildKeeps == ConstantsOK /\ Inv /\ CreateBuild => Keeps
<1> SUFFICES ASSUME ConstantsOK, Inv, CreateBuild PROVE Keeps
  OBVIOUS
<1> DEFINE m == [merge EXCEPT !.recreated = TRUE]
<1>1. /\ TagsStay /\ UNCHANGED <<spec, edits, stored, want>> /\ ObjectsNext /\ TypeOK
      /\ at' \in 1 .. Cardinality(Name) + 1 /\ merge \in Status
  BY NothingShared DEF CreateBuild, Inv, TypeOK
<1>2. faults' \in 0 .. MaxFaults /\ faults' >= faults
  BY NothingShared DEF CreateBuild, Answered
<1>3. heads' \in [Branch -> Commit]
  BY <1>1, HeadsType DEF CreateBuild, TypeOK
<1>4. m \in Status /\ Alike(merge, m)
  BY <1>1, StatusType, AlikeCopies
<1> HIDE DEF m
<1>5. Sound(m, nmr', lastNMR', tags')
  BY <1>1, <1>4, SoundAlike, FailedRelease
<1>6. StepOK("resolveBranch", m, want, tags') /\ "resolveBranch" \in Steps
  BY <1>4 DEF CreateBuild, Inv, StepOK, Resolving, Steps, Changed, HasConflict, Alike
<1>7. Goto("resolveBranch", m) \/ Return(ReleaseBranchFailed(merge))
  BY DEF CreateBuild, Answered, m
<1> QED BY <1>1, <1>2, <1>3, <1>4, <1>5, <1>6, <1>7, Returns, GoesOn, FailedRelease

LEMMA GetOrCreateResolveBranchKeeps == ConstantsOK /\ Inv /\ GetOrCreateResolveBranch => Keeps
<1> SUFFICES ASSUME ConstantsOK, Inv, GetOrCreateResolveBranch PROVE Keeps
  OBVIOUS
<1>1. /\ TagsStay /\ UNCHANGED <<spec, edits, stored, want>> /\ ObjectsNext /\ TypeOK
      /\ at' \in 1 .. Cardinality(Name) + 1
  BY NothingShared DEF GetOrCreateResolveBranch, Inv
<1>2. faults' \in 0 .. MaxFaults /\ faults' >= faults
  BY NothingShared DEF GetOrCreateResolveBranch, Answered
<1>3. heads' \in [Branch -> Commit]
  BY <1>1, HeadsType DEF GetOrCreateResolveBranch, GetOrCreateBranch, TypeOK
<1>4. StepOK("resolveMR", merge, want, tags') /\ "resolveMR" \in Steps
  BY DEF GetOrCreateResolveBranch, Inv, StepOK, Resolving, Steps
<1>5. Goto("resolveMR", merge) \/ Return(ReleaseBranchFailed(merge))
  BY DEF GetOrCreateResolveBranch, Answered
<1> QED BY <1>1, <1>2, <1>3, <1>4, <1>5, Returns, GoesOn, FailedRelease

\* What the copy has become once there is the object of its resolve branch, a
\* tag, or the object of the final merge request.
WithResolveMR(m, r) == [m EXCEPT !.resolveName = ResolveName(m), !.resolveMR = r]
WithTag(m, t) == [m EXCEPT !.finalTag = t]
WithFinalMR(m, r) == [m EXCEPT !.finalMR = r]

\* A copy that is given its resolve object, which has its branches, is sound.
LEMMA SoundResolving ==
  ASSUME ConstantsOK, NEW m \in Status, NEW objs, NEW last \in Nat, NEW ts,
         Sound(m, objs, last, ts), NEW r \in NMR, r <= last,
         objs[r].source = ResolveName(m), objs[r].target = build
  PROVE  LET x == WithResolveMR(m, r) IN
         /\ x \in Status /\ Sound(x, objs, last, ts)
         /\ x.branches = m.branches /\ x.finalMR = m.finalMR /\ x.finalTag = m.finalTag
         /\ x.recreated = m.recreated /\ x.resolveMR = r /\ x.resolveName = ResolveName(m)
<1> DEFINE x == WithResolveMR(m, r)
<1>1. ResolveName(m) \in Lists /\ r \in 0 .. MaxNMR /\ r \in 0 .. last
  BY ResolveNameIsList DEF Sound, NMR, ConstantsOK
<1>2. x \in Status
  BY <1>1, StatusType DEF WithResolveMR
<1>3. /\ x.branches = m.branches /\ x.resolveName = ResolveName(m) /\ x.resolveMR = r
      /\ x.finalMR = m.finalMR /\ x.finalTag = m.finalTag /\ x.recreated = m.recreated
  BY <1>2 DEF Status, WithResolveMR
<1> HIDE DEF x
<1>4. ResolveName(x) = ResolveName(m)
  BY <1>3 DEF ResolveName
<1>5. Refs(x) \subseteq 0 .. last
  BY <1>1, <1>3 DEF Sound, Refs
<1>6. Sound(x, objs, last, ts)
  BY <1>3, <1>4, <1>5 DEF Sound
<1> QED BY <1>2, <1>3, <1>6 DEF x

\* What EnsureResolveMR does.
LEMMA EnsuredResolveMR ==
  ASSUME ConstantsOK, Inv, EnsureResolveMR
  PROVE  /\ ObjectsNext /\ faults' \in 0 .. MaxFaults /\ faults' >= faults
         /\ \/ /\ Return([merge EXCEPT !.conditions.resolved = "False"])
               /\ Loses(ResolveName(merge), build, TRUE)
            \/ \E r \in NMR :
                 LET m == WithResolveMR(merge, r) IN
                 /\ Obtains(merge.resolveMR, ResolveName(merge), build, TRUE, r)
                 /\ nmr'[r].source = ResolveName(merge) /\ nmr'[r].target = build
                 /\ \/ Return([m EXCEPT !.conditions.resolved = "False"])
                    \/ /\ nmr'[r].ready
                       /\ Goto("compare", [m EXCEPT !.conditions.resolved = "True"])
<1> DEFINE n == merge.resolveMR
           s == ResolveName(merge)
<1>1. TypeOK /\ ObjectsOK /\ merge \in Status /\ Sound(merge, nmr, lastNMR, tags)
  BY DEF Inv, TypeOK
<1>2. n \in 0 .. lastNMR /\ HasConflict(merge)
  BY <1>1 DEF Sound, Refs, EnsureResolveMR, Inv, StepOK, Resolving
<1>3. s \in Branch /\ build \in {build, main} /\ TRUE \in BOOLEAN
  BY <1>1, <1>2, ResolveNameIsList DEF Sound, Branch
<1>4. PICK r \in 0 .. MaxNMR :
       /\ GetOrCreateNativeMR(n, s, build, TRUE, r)
       /\ LET m == IF r = 0 THEN merge
                   ELSE [merge EXCEPT !.resolveName = ResolveName(merge), !.resolveMR = r] IN
          IF r # 0 /\ ~nmr'[r].hasConflict /\ nmr'[r].ready
          THEN Goto("compare", [m EXCEPT !.conditions.resolved = "True"])
          ELSE Return([m EXCEPT !.conditions.resolved = "False"])
  BY DEF EnsureResolveMR
<1> HIDE DEF n, s
<1>5. /\ ObjectsNext /\ faults' \in 0 .. MaxFaults /\ faults' >= faults
      /\ r # 0 => Obtains(n, s, build, TRUE, r)
      /\ r = 0 => Loses(s, build, TRUE)
  BY <1>1, <1>2, <1>3, <1>4, GotOrCreatedObject
<1>6. CASE r = 0
  BY <1>4, <1>5, <1>6 DEF n, s
<1>7. CASE r # 0
  <2>1. Obtains(n, s, build, TRUE, r) /\ r \in NMR
    BY <1>5, <1>7 DEF Obtains
  <2>2. nmr'[r].source = s /\ nmr'[r].target = build
    <3>1. CASE r = n /\ UNCHANGED nmr
      BY <1>1, <1>7, <3>1 DEF Sound, n, s
    <3> QED BY <2>1, <3>1 DEF Obtains
  <2> QED BY <1>4, <1>5, <1>7, <2>1, <2>2 DEF n, s, WithResolveMR
<1> QED BY <1>6, <1>7

LEMMA EnsureResolveMRKeeps == ConstantsOK /\ Inv /\ EnsureResolveMR => Keeps
<1> SUFFICES ASSUME ConstantsOK, Inv, EnsureResolveMR PROVE Keeps
  OBVIOUS
<1>1. /\ TagsStay /\ UNCHANGED <<spec, edits, stored, want>> /\ heads' \in [Branch -> Commit]
      /\ at' \in 1 .. Cardinality(Name) + 1 /\ merge \in Status /\ TypeOK
      /\ Sound(merge, nmr, lastNMR, tags)
  BY NothingShared DEF EnsureResolveMR, Inv, TypeOK, gitlab
<1>2. ObjectsNext /\ faults' \in 0 .. MaxFaults /\ faults' >= faults
  BY EnsuredResolveMR
<1>3. Sound(merge, nmr', lastNMR', tags') /\ ~Changed(merge, want)
  BY <1>1, <1>2, SoundStays DEF Inv, StepOK, EnsureResolveMR, Resolving
<1>4. lastNMR' \in Nat
  BY <1>2 DEF ObjectsNext, ConstantsOK
<1>5. ASSUME NEW m \in Status, Sound(m, nmr', lastNMR', tags'), m.branches = merge.branches
      PROVE  /\ Return([m EXCEPT !.conditions.resolved = "False"]) => Keeps
             /\ Goto("compare", [m EXCEPT !.conditions.resolved = "True"]) => Keeps
  <2> DEFINE x == [m EXCEPT !.conditions.resolved = "False"]
             y == [m EXCEPT !.conditions.resolved = "True"]
  <2>1. x \in Status /\ y \in Status /\ Alike(m, x) /\ Alike(m, y)
    BY StatusType, AlikeCopies DEF Condition
  <2> HIDE DEF x, y
  <2>2. Sound(x, nmr', lastNMR', tags') /\ Sound(y, nmr', lastNMR', tags')
    BY <1>5, <2>1, SoundAlike
  <2>3. StepOK("compare", y, want, tags') /\ "compare" \in Steps
    BY <1>3, <1>5, <2>1 DEF StepOK, Resolving, Steps, Changed, Alike
  <2>4. Return(x) => Keeps
    BY <1>1, <1>2, <2>1, <2>2, Returns
  <2>5. Goto("compare", y) => Keeps
    BY <1>1, <1>2, <2>1, <2>2, <2>3, GoesOn
  <2> QED BY <2>4, <2>5 DEF x, y
<1>6. CASE Return([merge EXCEPT !.conditions.resolved = "False"])
  BY <1>1, <1>3, <1>5, <1>6
<1>7. ASSUME NEW r \in NMR, r <= lastNMR',
             nmr'[r].source = ResolveName(merge), nmr'[r].target = build,
             \/ Return([WithResolveMR(merge, r) EXCEPT !.conditions.resolved = "False"])
             \/ Goto("compare", [WithResolveMR(merge, r) EXCEPT !.conditions.resolved = "True"])
      PROVE  Keeps
  <2> DEFINE m == WithResolveMR(merge, r)
  <2>1. m \in Status /\ Sound(m, nmr', lastNMR', tags') /\ m.branches = merge.branches
    BY <1>1, <1>3, <1>4, <1>7, SoundResolving
  <2> HIDE DEF m
  <2>2. \/ Return([m EXCEPT !.conditions.resolved = "False"])
        \/ Goto("compare", [m EXCEPT !.conditions.resolved = "True"])
    BY <1>7 DEF m
  <2> QED BY <1>5, <2>1, <2>2
<1> QED BY <1>6, <1>7, EnsuredResolveMR DEF Obtains

LEMMA CompareWithMainKeeps == ConstantsOK /\ Inv /\ CompareWithMain => Keeps
<1> SUFFICES ASSUME ConstantsOK, Inv, CompareWithMain PROVE Keeps
  OBVIOUS
<1>1. /\ TagsStay /\ UNCHANGED <<spec, edits, stored, want>> /\ heads' \in [Branch -> Commit]
      /\ ObjectsNext /\ at' \in 1 .. Cardinality(Name) + 1
      /\ faults' \in 0 .. MaxFaults /\ faults' >= faults
  BY NothingShared DEF CompareWithMain, Inv, TypeOK, gitlab
<1>2. StepOK("tag", merge, want, tags') /\ "tag" \in Steps
  BY DEF CompareWithMain, Inv, StepOK, Resolving, Steps
<1>3. (Goto("tag", merge) /\ heads'[build].exists) \/ Return(merge)
  BY DEF CompareWithMain, gitlab
<1> QED BY <1>1, <1>2, <1>3, Returns, GoesOn, FailedRelease

\* A tag that is there may be recorded.
LEMMA SoundTagged ==
  ASSUME ConstantsOK, NEW m \in Status, NEW objs, NEW last \in Nat, NEW ts,
         Sound(m, objs, last, ts), NEW t \in 1 .. MaxTag, ts[t].exists
  PROVE  LET x == WithTag(m, t) IN
         /\ x \in Status /\ Sound(x, objs, last, ts)
         /\ x.branches = m.branches /\ x.finalTag = t /\ x.finalMR = m.finalMR
         /\ x.resolveMR = m.resolveMR /\ x.recreated = m.recreated
<1> DEFINE x == WithTag(m, t)
<1>1. x \in Status
  <2>1. t \in 0 .. MaxTag /\ t # 0
    BY DEF ConstantsOK
  <2> QED BY <2>1, StatusType DEF WithTag
<1>2. /\ x.branches = m.branches /\ x.finalTag = t /\ x.finalMR = m.finalMR
      /\ x.resolveName = m.resolveName /\ x.resolveMR = m.resolveMR
      /\ x.recreated = m.recreated
  BY <1>1 DEF Status, WithTag
<1> HIDE DEF x
<1>3. ResolveName(x) = ResolveName(m) /\ Refs(x) = Refs(m)
  BY <1>2 DEF ResolveName, Refs
<1>4. Sound(x, objs, last, ts)
  <2>1. t # 0
    BY DEF ConstantsOK
  <2> QED BY <1>2, <1>3, <2>1 DEF Sound
<1> QED BY <1>1, <1>2, <1>4 DEF x

\* A release that is tagged may have a final merge request.
LEMMA SoundRelease ==
  ASSUME ConstantsOK, NEW m \in Status, NEW objs, NEW last \in Nat, NEW ts,
         Sound(m, objs, last, ts), NEW r \in NMR, r <= last, objs[r].source = build,
         objs[r].target = main, m.finalTag # 0, ts[m.finalTag].exists
  PROVE  LET x == WithFinalMR(m, r) IN
         /\ x \in Status /\ Sound(x, objs, last, ts)
         /\ x.branches = m.branches /\ x.finalTag = m.finalTag /\ x.finalMR = r
         /\ x.resolveMR = m.resolveMR /\ x.recreated = m.recreated
<1> DEFINE x == WithFinalMR(m, r)
<1>1. r \in 0 .. MaxNMR /\ r \in 0 .. last
  BY DEF NMR, ConstantsOK
<1>2. x \in Status
  BY <1>1, StatusType DEF WithFinalMR
<1>3. /\ x.branches = m.branches /\ x.finalTag = m.finalTag /\ x.finalMR = r
      /\ x.resolveName = m.resolveName /\ x.resolveMR = m.resolveMR
      /\ x.recreated = m.recreated
  BY <1>2 DEF Status, WithFinalMR
<1> HIDE DEF x
<1>4. ResolveName(x) = ResolveName(m)
  BY <1>3 DEF ResolveName
<1>5. Refs(x) \subseteq 0 .. last
  BY <1>1, <1>3 DEF Sound, Refs
<1>6. Sound(x, objs, last, ts)
  BY <1>3, <1>4, <1>5 DEF Sound
<1> QED BY <1>2, <1>3, <1>6 DEF x

LEMMA CreateFinalTagKeeps == ConstantsOK /\ Inv /\ CreateFinalTag => Keeps
<1> SUFFICES ASSUME ConstantsOK, Inv, CreateFinalTag PROVE Keeps
  OBVIOUS
<1> DEFINE t == TagOf(merge)
           tagged == WithTag(merge, t)
<1>1. /\ UNCHANGED <<spec, edits, stored, want>> /\ heads' \in [Branch -> Commit]
      /\ ObjectsNext /\ at' \in 1 .. Cardinality(Name) + 1 /\ merge \in Status
      /\ tags \in [1 .. MaxTag -> Commit] /\ heads[build] \in Commit
  BY NothingShared, HeadsType DEF CreateFinalTag, Inv, TypeOK
<1>2. faults' \in 0 .. MaxFaults /\ faults' >= faults
  BY NothingShared DEF CreateFinalTag, Answered
<1>3. t \in Nat /\ t # 0
  <2>1. Cardinality({u \in DOMAIN tags : tags[u].exists}) \in Nat
    <3>1. IsFiniteSet(1 .. MaxTag)
      BY FS_Interval DEF ConstantsOK
    <3>2. IsFiniteSet({u \in DOMAIN tags : tags[u].exists})
      BY <1>1, <3>1, FS_Subset
    <3> QED BY <3>2, FS_CardinalityType
  <2>2. merge.finalTag \in Nat
    BY <1>1 DEF Status, ConstantsOK
  <2> QED BY <2>1, <2>2 DEF TagOf, NextVersion
<1>4. TagsStay
  <2>1. CASE UNCHANGED tags
    BY <2>1, NothingShared
  <2>2. CASE t <= MaxTag /\ ~tags[t].exists /\ tags' = [tags EXCEPT ![t] = heads[build]]
    BY <1>1, <2>2 DEF TagsStay
  <2> QED BY <2>1, <2>2 DEF CreateFinalTag
<1>5. Sound(merge, nmr', lastNMR', tags')
  BY <1>1, <1>4, FailedRelease
<1>6. CASE Return(merge)
  BY <1>1, <1>2, <1>4, <1>5, <1>6, Returns
<1>7. CASE t <= MaxTag /\ tags'[t].exists /\ Goto("finalMR", tagged)
  <2>1. t \in 1 .. MaxTag /\ lastNMR' \in Nat
    BY <1>1, <1>3, <1>7 DEF ObjectsNext, ConstantsOK
  <2>2. /\ tagged \in Status /\ Sound(tagged, nmr', lastNMR', tags')
        /\ tagged.branches = merge.branches /\ tagged.finalTag = t
    <3>1. tags'[t].exists
      BY <1>7
    <3> HIDE DEF t
    <3>2. ASSUME NEW u \in 1 .. MaxTag, tags'[u].exists
          PROVE  /\ WithTag(merge, u) \in Status
                 /\ Sound(WithTag(merge, u), nmr', lastNMR', tags')
                 /\ WithTag(merge, u).branches = merge.branches
                 /\ WithTag(merge, u).finalTag = u
      <4>1. merge \in Status /\ Sound(merge, nmr', lastNMR', tags') /\ lastNMR' \in Nat
        BY <1>1, <1>5, <2>1
      <4> QED BY <3>2, <4>1, SoundTagged, SMTT(30)
    <3> QED BY <2>1, <3>1, <3>2
  <2> HIDE DEF tagged, t
  <2>3. StepOK("finalMR", tagged, want, tags') /\ "finalMR" \in Steps
    BY <1>3, <1>7, <2>2 DEF CreateFinalTag, Inv, StepOK, Resolving, Steps, Changed
  <2> QED BY <1>1, <1>2, <1>4, <1>7, <2>2, <2>3, GoesOn
<1>8. heads[build].exists
  BY DEF CreateFinalTag, Inv
<1>9. t <= MaxTag /\ ~tags[t].exists /\ tags' = [tags EXCEPT ![t] = heads[build]] =>
        tags'[t].exists
  <2>1. t <= MaxTag => t \in 1 .. MaxTag
    BY <1>3 DEF ConstantsOK
  <2> QED BY <1>1, <1>8, <2>1
<1>10. \/ Return(merge)
       \/ /\ t <= MaxTag /\ Goto("finalMR", tagged)
          /\ \/ tags[t].exists /\ UNCHANGED tags
             \/ ~tags[t].exists /\ tags' = [tags EXCEPT ![t] = heads[build]]
  BY DEF CreateFinalTag, Answered, WithTag
<1> HIDE DEF t, tagged
<1> QED BY <1>6, <1>7, <1>9, <1>10

\* What EnsureFinalMR does.
LEMMA EnsuredFinalMR ==
  ASSUME ConstantsOK, Inv, EnsureFinalMR
  PROVE  /\ ObjectsNext /\ faults' \in 0 .. MaxFaults /\ faults' >= faults
         /\ \/ Return(merge) /\ Loses(build, main, want.acceptFinalMR)
            \/ \E r \in NMR :
                 /\ Obtains(merge.finalMR, build, main, want.acceptFinalMR, r)
                 /\ nmr'[r].source = build /\ nmr'[r].target = main
                 /\ Goto("setAuto", WithFinalMR(merge, r))
<1> DEFINE n == merge.finalMR
           auto == want.acceptFinalMR
<1>1. TypeOK /\ ObjectsOK /\ merge \in Status /\ Sound(merge, nmr, lastNMR, tags)
  BY DEF Inv, TypeOK
<1>2. n \in 0 .. lastNMR
  BY <1>1 DEF Sound, Refs
<1>3. build \in Branch /\ main \in {build, main} /\ auto \in BOOLEAN
  BY <1>1 DEF Branch, TypeOK
<1>4. PICK r \in 0 .. MaxNMR :
       /\ GetOrCreateNativeMR(n, build, main, auto, r)
       /\ IF r = 0 THEN Return(merge) ELSE Goto("setAuto", WithFinalMR(merge, r))
  BY DEF EnsureFinalMR, WithFinalMR
<1> HIDE DEF n, auto
<1>5. /\ ObjectsNext /\ faults' \in 0 .. MaxFaults /\ faults' >= faults
      /\ r # 0 => Obtains(n, build, main, auto, r)
      /\ r = 0 => Loses(build, main, auto)
  BY <1>1, <1>2, <1>3, <1>4, GotOrCreatedObject
<1>6. CASE r = 0
  BY <1>4, <1>5, <1>6 DEF n, auto
<1>7. CASE r # 0
  <2>1. Obtains(n, build, main, auto, r) /\ r \in NMR
    BY <1>5, <1>7 DEF Obtains
  <2>2. nmr'[r].source = build /\ nmr'[r].target = main
    <3>1. CASE r = n /\ UNCHANGED nmr
      BY <1>1, <1>7, <3>1 DEF Sound, n
    <3> QED BY <2>1, <3>1 DEF Obtains
  <2> QED BY <1>4, <1>5, <1>7, <2>1, <2>2 DEF n, auto
<1> QED BY <1>6, <1>7

LEMMA EnsureFinalMRKeeps == ConstantsOK /\ Inv /\ EnsureFinalMR => Keeps
<1> SUFFICES ASSUME ConstantsOK, Inv, EnsureFinalMR PROVE Keeps
  OBVIOUS
<1>1. /\ TagsStay /\ UNCHANGED <<spec, edits, stored, want, tags>> /\ heads' \in [Branch -> Commit]
      /\ at' \in 1 .. Cardinality(Name) + 1 /\ merge \in Status
  BY NothingShared DEF EnsureFinalMR, Inv, TypeOK, gitlab
<1>2. ObjectsNext /\ faults' \in 0 .. MaxFaults /\ faults' >= faults
  BY EnsuredFinalMR
<1>3. /\ Sound(merge, nmr', lastNMR', tags') /\ ~Changed(merge, want)
      /\ merge.finalTag # 0 /\ tags'[merge.finalTag].exists
  BY <1>1, <1>2, FailedRelease DEF Inv, StepOK, EnsureFinalMR
<1>4. lastNMR' \in Nat
  BY <1>2 DEF ObjectsNext, ConstantsOK
<1>5. CASE Return(merge)
  BY <1>1, <1>2, <1>3, <1>5, Returns
<1>6. ASSUME NEW r \in NMR, r <= lastNMR', nmr'[r].source = build, nmr'[r].target = main,
             Goto("setAuto", WithFinalMR(merge, r))
      PROVE  Keeps
  <2> DEFINE m == WithFinalMR(merge, r)
  <2>1. /\ m \in Status /\ Sound(m, nmr', lastNMR', tags')
        /\ m.branches = merge.branches /\ m.finalMR = r
    BY <1>1, <1>3, <1>4, <1>6, SoundRelease
  <2> HIDE DEF m
  <2>2. StepOK("setAuto", m, want, tags') /\ "setAuto" \in Steps
    BY <1>3, <2>1 DEF StepOK, Resolving, Steps, Changed, NMR
  <2>3. Goto("setAuto", m)
    BY <1>6 DEF m
  <2> QED BY <1>1, <1>2, <2>1, <2>2, <2>3, GoesOn
<1> QED BY <1>5, <1>6, EnsuredFinalMR DEF Obtains

LEMMA SetAutoAcceptKeeps == ConstantsOK /\ Inv /\ SetAutoAccept => Keeps
<1> SUFFICES ASSUME ConstantsOK, Inv, SetAutoAccept PROVE Keeps
  OBVIOUS
<1>1. /\ TagsStay /\ UNCHANGED <<spec, edits, stored, want>> /\ heads' \in [Branch -> Commit]
      /\ at' \in 1 .. Cardinality(Name) + 1 /\ merge \in Status /\ TypeOK /\ ObjectsOK
      /\ UNCHANGED <<past, lastNMR>>
  BY NothingShared DEF SetAutoAccept, Inv, TypeOK, gitlab
<1>2. faults' \in 0 .. MaxFaults /\ faults' >= faults
  BY NothingShared DEF SetAutoAccept
<1>3. ObjectsNext
  <2> DEFINE n == merge.finalMR
  <2>1. CASE UNCHANGED nmr
    BY <1>1, <2>1, NothingShared DEF objects
  <2>2. CASE nmr' = [nmr EXCEPT ![n].autoAccept = want.acceptFinalMR]
    <3>1. n # 0 /\ n \in 0 .. lastNMR
      BY DEF SetAutoAccept, Inv, StepOK, Sound, Refs
    <3>2. n \in NMR /\ ~(n > lastNMR)
      BY <1>1, <3>1 DEF NMR, TypeOK, ConstantsOK
    <3>3. want.acceptFinalMR \in BOOLEAN /\ nmr[n].phase # "none"
      BY <1>1, <3>2 DEF TypeOK, ObjectsOK
    <3>4. nmr[n] \in Object /\ past[n] \in SUBSET Outcome /\ Truthful(nmr[n], past[n])
      BY <1>1, <3>2 DEF TypeOK, ObjectsOK
    <3>5. Goes(nmr[n], past[n], [nmr[n] EXCEPT !.autoAccept = want.acceptFinalMR], past[n])
      BY <3>3, <3>4, ObjectReports
    <3>6. /\ nmr' = [nmr EXCEPT ![n] = [nmr[n] EXCEPT !.autoAccept = want.acceptFinalMR]]
          /\ past' = [past EXCEPT ![n] = past[n]]
      BY <1>1, <2>2, <3>2 DEF TypeOK
    <3> HIDE DEF n
    <3> QED BY <1>1, <3>2, <3>5, <3>6, ObjectGoes
  <2> QED BY <2>1, <2>2 DEF SetAutoAccept
<1>4. /\ Sound(merge, nmr', lastNMR', tags') /\ Merged(merge) \in Status
      /\ Sound(Merged(merge), nmr', lastNMR', tags')
  BY <1>1, <1>3, FailedRelease, StatusType, AlikeCopies, SoundAlike
<1>5. Return(merge) \/ Return(Merged(merge))
  BY DEF SetAutoAccept
<1> QED BY <1>1, <1>2, <1>3, <1>4, <1>5, Returns

LEMMA PatchConditionsKeeps == ConstantsOK /\ Inv /\ PatchConditions => Keeps
<1> SUFFICES ASSUME ConstantsOK, Inv, PatchConditions PROVE Keeps
  OBVIOUS
<1>1. /\ TagsStay /\ UNCHANGED <<spec, edits, want, merge>> /\ heads' \in [Branch -> Commit]
      /\ at' \in 1 .. Cardinality(Name) + 1 /\ ObjectsNext
      /\ merge \in Status /\ stored \in Status /\ TypeOK
      /\ Sound(stored, nmr, lastNMR, tags) /\ pc' = "object" /\ want' \in SpecType
  BY NothingShared DEF PatchConditions, Inv, TypeOK, gitlab, SpecType
<1>2. faults' \in 0 .. MaxFaults /\ faults' >= faults
  BY NothingShared DEF PatchConditions
<1>3. stored' \in Status /\ Alike(stored, stored')
  <2> DEFINE c == [merge.conditions EXCEPT !.ready = Summary(merge)]
  <2>1. Summary(merge) \in Condition /\ merge.conditions \in Conditions
    <3>1. merge.conditions \in Conditions
      BY <1>1 DEF Status
    <3> QED BY <1>1, <3>1, StatusType
  <2>2. c \in Conditions
    <3> HIDE DEF Summary
    <3> QED BY <2>1 DEF Conditions
  <2>3. stored' = stored \/ stored' = [stored EXCEPT !.conditions = c]
    BY DEF PatchConditions
  <2> HIDE DEF c
  <2>4. [stored EXCEPT !.conditions = c] \in Status
    BY <1>1, <2>2, StatusType
  <2>5. Alike(stored, stored) /\ Alike(stored, [stored EXCEPT !.conditions = c])
    BY <1>1, AlikeCopies
  <2> QED BY <1>1, <2>3, <2>4, <2>5
<1>4. Sound(stored', nmr', lastNMR', tags') /\ Sound(merge', nmr', lastNMR', tags')
  <2>1. Sound(stored, nmr', lastNMR', tags')
    BY <1>1, SoundStays
  <2> QED BY <1>1, <1>3, <2>1, SoundAlike, FailedRelease
<1>5. at' \in 0 .. Cardinality(Name) + 1 /\ at' >= 1
  BY <1>1, NamesNumber
<1> QED BY <1>1, <1>2, <1>3, <1>4, <1>5, StepsWithoutCare DEF Keeps, Steps

\* The reconcile is over, with what is stored.
LEMMA DoneKeeps ==
  ASSUME ConstantsOK, Inv, Done, UNCHANGED <<spec, edits, objects, gitlab>>,
         faults' \in 0 .. MaxFaults, faults' >= faults,
         stored' \in Status, Alike(stored, stored') \/ Alike(merge, stored')
  PROVE  Keeps
<1>1. ObjectsNext /\ TagsStay /\ heads' \in [Branch -> Commit]
  BY NothingShared DEF gitlab
<1>2. Sound(stored, nmr', lastNMR', tags') /\ Sound(merge, nmr', lastNMR', tags')
  BY <1>1, SoundStays, FailedRelease DEF Inv, TypeOK
<1>3. Sound(stored', nmr', lastNMR', tags')
  BY <1>2, SoundAlike
<1>4. /\ pc' = "idle" /\ merge' = NewStatus /\ merge' \in Status /\ want' \in SpecType
      /\ at' \in 0 .. Cardinality(Name) + 1
  BY NewStatusType, NamesNumber DEF Done
<1>5. Sound(merge', nmr', lastNMR', tags')
  BY <1>1, <1>4, SoundNew DEF ObjectsNext, ConstantsOK
<1> QED BY <1>1, <1>3, <1>4, <1>5, StepsWithoutCare DEF Keeps, Steps

LEMMA PatchObjectKeeps == ConstantsOK /\ Inv /\ PatchObject => Keeps
<1> SUFFICES ASSUME ConstantsOK, Inv, PatchObject PROVE Keeps
  OBVIOUS
<1>1. faults' \in 0 .. MaxFaults /\ faults' >= faults
  BY NothingShared DEF PatchObject
<1>2. stored \in Status /\ merge \in Status
  BY DEF Inv, TypeOK
<1>3. stored' \in Status /\ (Alike(stored, stored') \/ Alike(merge, stored'))
  <2>1. stored' = stored \/ stored' = Patched(stored, merge)
    BY DEF PatchObject
  <2>2. Patched(stored, merge) \in Status
    BY <1>2, StatusType
  <2>3. Alike(stored, stored) /\ Alike(merge, Patched(stored, merge))
    BY <1>2, AlikeCopies
  <2> QED BY <1>2, <2>1, <2>2, <2>3
<1> QED BY <1>1, <1>3, DoneKeeps DEF PatchObject

LEMMA CrashKeeps == ConstantsOK /\ Inv /\ Crash => Keeps
<1> SUFFICES ASSUME ConstantsOK, Inv, Crash PROVE Keeps
  OBVIOUS
<1>1. faults' \in 0 .. MaxFaults /\ faults' >= faults
  BY NothingShared DEF Crash
<1>2. stored' \in Status /\ Alike(stored, stored')
  BY AlikeCopies DEF Crash, Inv, TypeOK
<1> QED BY <1>1, <1>2, DoneKeeps DEF Crash

-----------------------------------------------------------------------------
(* The invariant.                                                          *)

LEMMA StepKeeps == ConstantsOK /\ Inv /\ Step => Keeps
BY DropResolveBranchKeeps, DropResolveMRKeeps, DropFinalMRKeeps, DropBuildKeeps,
   DropBranchMRsKeeps, AddBranchesToStatusKeeps, GetOrCreateBuildBranchKeeps,
   EnsureBranchMRKeeps, JudgeKeeps, RecreateBuildKeeps, CreateBuildKeeps,
   GetOrCreateResolveBranchKeeps, EnsureResolveMRKeeps, CompareWithMainKeeps,
   CreateFinalTagKeeps, EnsureFinalMRKeeps, SetAutoAcceptKeeps, PatchConditionsKeeps,
   PatchObjectKeeps
   DEF Step

\* What a step of anybody else does to the invariant: the copies stay as they
\* are, but for the phase of the stored one.
LEMMA OthersKeepInv == ConstantsOK /\ Inv /\ Others => Inv'
<1> SUFFICES ASSUME ConstantsOK, Inv, Others PROVE Inv'
  OBVIOUS
<1>1. ObjectsNext /\ OthersLeave
  BY OthersObjects, OthersFrame DEF Inv
<1>2. UNCHANGED <<pc, merge, want, at, tags>> /\ TagsStay
  BY <1>1, NothingShared DEF OthersLeave, worker
<1>3. stored \in Status /\ merge \in Status /\ TypeOK
  BY DEF Inv, TypeOK
<1>4. stored' \in Status /\ Alike(stored, stored')
  <2>1. stored' = stored \/ \E p \in {"deleting", "gone"} : stored' = [stored EXCEPT !.phase = p]
    BY <1>1 DEF OthersLeave
  <2>2. \A p \in {"deleting", "gone"} : /\ [stored EXCEPT !.phase = p] \in Status
                                       /\ Alike(stored, [stored EXCEPT !.phase = p])
    BY <1>3, StatusType, AlikeCopies
  <2>3. Alike(stored, stored)
    BY <1>3, AlikeCopies
  <2> QED BY <1>3, <2>1, <2>2, <2>3
<1>5. Sound(stored', nmr', lastNMR', tags') /\ Sound(merge', nmr', lastNMR', tags')
  <2>1. Sound(stored, nmr', lastNMR', tags') /\ Sound(merge, nmr', lastNMR', tags')
    BY <1>1, <1>2, <1>3, SoundStays DEF Inv
  <2> QED BY <1>2, <1>4, <2>1, SoundAlike
<1>6. TypeOK'
  BY <1>1, <1>2, <1>3, <1>4 DEF TypeOK, ObjectsNext, OthersLeave, TagsStay, SpecType
<1>7. StepOK(pc', merge', want', tags') /\ (pc' # "idle" => at' >= 1)
      /\ (pc' = "tag" => heads'[build].exists)
  BY <1>1, <1>2 DEF Inv, OthersLeave, HeadsGoOn
<1> QED BY <1>1, <1>5, <1>6, <1>7 DEF Inv, ObjectsNext

LEMMA InvInit == ConstantsOK /\ Init => Inv
<1> SUFFICES ASSUME ConstantsOK, Init PROVE Inv
  OBVIOUS
<1>1. NewStatus \in Status /\ NoSpec \in SpecType
  BY NewStatusType
<1>2. heads \in [Branch -> Commit] /\ tags \in [1 .. MaxTag -> Commit]
  <2>1. Absent \in Commit /\ HeadAt(0, {}) \in Commit /\ \A b \in Name : HeadAt(0, {b}) \in Commit
    BY DEF Absent, HeadAt, Commit, ConstantsOK
  <2> QED BY <2>1 DEF Init
<1>3. nmr \in [NMR -> Object] /\ past \in [NMR -> SUBSET Outcome] /\ lastNMR = 0
  BY DEF Init, NoNMR, Object, Branch
<1>4. spec \in SpecType /\ want \in SpecType
  BY <1>1 DEF Init, ConstantsOK, SpecType
<1>5. TypeOK
  <2>1. stored \in Status /\ merge \in Status /\ lastNMR \in 0 .. MaxNMR /\ pc = "idle"
    BY <1>1, <1>3 DEF Init, ConstantsOK
  <2>2. /\ at \in 0 .. Cardinality(Name) + 1 /\ faults \in 0 .. MaxFaults
        /\ edits \in 0 .. MaxEdits
    BY NamesNumber DEF Init, ConstantsOK
  <2> QED BY <1>2, <1>3, <1>4, <2>1, <2>2 DEF TypeOK, SpecType
<1>6. ObjectsOK
  <2>1. \A n \in NMR : n > lastNMR /\ nmr[n] = NoNMR /\ past[n] = {}
    BY <1>3 DEF Init, NMR
  <2>2. NoNMR.phase = "none" /\ NoNMR.mr = "none" /\ NoNMR.deleted = FALSE
    BY DEF NoNMR
  <2> QED BY <2>1, <2>2 DEF ObjectsOK, Truthful
<1>7. Sound(stored, nmr, lastNMR, tags) /\ Sound(merge, nmr, lastNMR, tags)
  BY <1>3, SoundNew DEF Init
<1>8. StepOK(pc, merge, want, tags) /\ pc = "idle"
  BY StepsWithoutCare DEF Init
<1> QED BY <1>5, <1>6, <1>7, <1>8 DEF Inv

LEMMA InvNext == ConstantsOK /\ Inv /\ [Next]_vars => Inv'
<1> SUFFICES ASSUME ConstantsOK, Inv, [Next]_vars PROVE Inv'
  OBVIOUS
<1>1. CASE Reconcile \/ Step \/ Crash
  BY <1>1, ReconcileKeeps, StepKeeps, CrashKeeps, KeepsInv
<1>2. CASE Others
  BY <1>2, OthersKeepInv
<1>3. CASE UNCHANGED vars
  BY <1>3 DEF vars, objects, gitlab, worker, bounds, Inv, TypeOK, ObjectsOK, Sound, StepOK, Refs,
              ResolveName, Distinct, Changed, Shrunk, HasConflict, Truthful
<1> QED BY <1>1, <1>2, <1>3 DEF Next, Others

\* What the proofs below rest on: the invariant, always.
THEOREM Invariance == Spec => []Inv
<1>1. Init => Inv
  BY ConstantsOK, InvInit
<1>2. Inv /\ [Next]_vars => Inv'
  BY ConstantsOK, InvNext
<1> QED BY <1>1, <1>2, PTL DEF Spec

\* Every variable keeps its type, whatever fails: what the worker writes into
\* the object are lists without repetitions, numbers of objects and of tags.
THEOREM TypeCorrect == Spec => []TypeOK
<1>1. Inv => TypeOK
  BY DEF Inv
<1> QED BY <1>1, Invariance, PTL

\* The objects that the status names merge the very branches that it names
\* them for: no retry and no crash crosses them (merge_controller.go:396, 489,
\* 536).
THEOREM OwnBranches == Spec => []NamesItsOwn
<1>1. Inv => NamesItsOwn
  BY DEF Inv, Sound, NamesItsOwn
<1> QED BY <1>1, Invariance, PTL

\* There is no final merge request without the tag of the release: they are
\* given up together (merge_controller.go:564, 586).
THEOREM TaggedFirst == Spec => []FinalMRIsTagged
<1>1. Inv => FinalMRIsTagged
  BY DEF Inv, Sound, FinalMRIsTagged
<1> QED BY <1>1, Invariance, PTL

-----------------------------------------------------------------------------
(* The promise of the NativeMergeRequest controller.                       *)

\* Every step does to the objects what NMRPromise allows.
LEMMA NextMovesObjects ==
  ConstantsOK /\ Inv /\ Next => ObjectsNext
<1> SUFFICES ASSUME ConstantsOK, Inv, Next PROVE ObjectsNext
  OBVIOUS
<1>1. CASE Reconcile \/ Step \/ Crash
  BY <1>1, ReconcileKeeps, StepKeeps, CrashKeeps DEF Keeps
<1>2. CASE Others
  BY <1>2, OthersObjects DEF Inv
<1> QED BY <1>1, <1>2 DEF Next, Others

\* The view that NMRPromise is instantiated with.
LEMMA PublishedIsShown == Published = [n \in NMR |-> Shown(nmr[n])]
BY DEF Published, Shown

\* Initially the promise's initial state is shown.
LEMMA PromiseInit == Init => Promise!Init
<1>1. Shown(NoNMR) = Promise!Fresh
  BY DEF Shown, NoNMR, Promise!Fresh
<1> QED BY <1>1, PublishedIsShown DEF Init, Promise!Init

\* Every step is one of the promise, or a stutter.
LEMMA PromiseNext ==
  ConstantsOK /\ Inv /\ [Next]_vars => [Promise!Next]_<<Published, past>>
<1> SUFFICES ASSUME ConstantsOK, Inv, [Next]_vars PROVE [Promise!Next]_<<Published, past>>
  OBVIOUS
<1>1. CASE UNCHANGED vars
  BY <1>1 DEF vars, objects, Published
<1>2. CASE Next
  <2>1. ObjectsNext
    BY <1>2, NextMovesObjects
  <2>2. Published' = [n \in NMR |-> Shown(nmr'[n])]
    BY DEF Published, Shown
  <2>3. \A o \in Object : Shown(o) \in Promise!View
    BY DEF Object, Shown, Promise!View
  <2>4. Published' \in [NMR -> Promise!View] /\ past' \in [NMR -> SUBSET Promise!Outcome]
    BY <2>1, <2>2, <2>3 DEF ObjectsNext, Outcome, Promise!Outcome
  <2>5. \A n \in NMR : Promise!Moves(Published[n], past[n], Published'[n], past'[n])
    BY <2>1, <2>2, PublishedIsShown DEF ObjectsNext
  <2> QED BY <2>4, <2>5 DEF Promise!Next
<1> QED BY <1>1, <1>2

\* Nothing that happens here goes beyond what NativeMergeRequest promises: the
\* properties of this module rest on that controller's promise only.
THEOREM StaysWithinPromise == Spec => WithinPromise
<1>1. Init => Promise!Init
  BY PromiseInit
<1>2. Inv /\ [Next]_vars => [Promise!Next]_<<Published, past>>
  BY ConstantsOK, PromiseNext
<1> QED BY <1>1, <1>2, Invariance, PTL DEF Spec, WithinPromise, Promise!Spec

==============================================================================
