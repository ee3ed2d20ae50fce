--------------------------- MODULE Answers_proofs ---------------------------
(***************************************************************************)
(* What the callers of read_value and update_node are given, for any nodes *)
(* and values.                                                             *)
(*                                                                         *)
(* First, AttributeGraph keeps the promise of Spreadsheet if the rules are *)
(* sound (SoundRules).  The reads of a callback determine each other, so   *)
(* what it has seen is reached from nothing, a read at a time (RunInv).    *)
(* When it commits it has seen only values, all of them recorded.  So a    *)
(* Clean node, whose dependencies are Clean and hold what it has consumed, *)
(* has seen what calculating it from scratch would see, if that is what    *)
(* the dependencies hold: and they are older.                              *)
(*                                                                         *)
(* Second, the outcome of an update is about the whole call.  The frames   *)
(* above that of the requested node are about older nodes, so until its    *)
(* own commit the call leaves its dependencies and its value as they were  *)
(* when the caller asked (CallMade).  That commit is the last step of the  *)
(* call, and what it reports is the difference it makes.                   *)
(***************************************************************************)
EXTENDS SpreadsheetRefinement, UpdateOutcomes, Freshness_proofs

-----------------------------------------------------------------------------
(***************************************************************************)
(* Calculating from scratch is well defined, because rules hold handles of *)
(* older nodes only.                                                       *)
(***************************************************************************)
\* seen[k] is what r has seen after k reads.
Sees(seen, r, results) ==
    /\ seen[0] = Promise!NothingSeen
    /\ \A k \in 1 .. Promise!MaxReads :
          seen[k] = Promise!SeeNext(r, results, seen[k - 1])

LEMMA HandlesFinite == IsFiniteSet(Handle) /\ Promise!MaxReads \in Nat
<1>1. IsFiniteSet(Handle)
  BY PromiseAssumption, FS_AddElement DEF Handle
<1>2. Promise!MaxReads = Cardinality(Handle)
  BY DEF Promise!MaxReads, Promise!Handle, Handle, Promise!Cardinality, Cardinality
<1> QED BY <1>1, <1>2, FS_CardinalityType

LEMMA SeesExists ==
    ASSUME NEW r, Handles(r) \subseteq Handle, NEW results
    PROVE  \E seen : Sees(seen, r, results) /\ Promise!SeenAtEnd(r, results) = seen[Promise!MaxReads]
<1> DEFINE N == Promise!MaxReads
           S == [Handle -> {results[h] : h \in Handle} \cup {None}]
           G == [k \in 1 .. N |-> [s \in S |-> Promise!SeeNext(r, results, s)]]
           a == Promise!NothingSeen
           Step(f) == [k \in 0 .. N |-> IF k = 0 THEN a ELSE Promise!SeeNext(r, results, f[k - 1])]
<1>1. N \in Nat
  BY HandlesFinite
<1>2. a \in S
  BY DEF Promise!NothingSeen, Promise!Handle, Handle
<1>3. ASSUME NEW s \in S PROVE Promise!SeeNext(r, results, s) \in S
  <2>1. CASE Promise!SeeNext(r, results, s) = s
    BY <2>1
  <2>2. CASE Promise!SeeNext(r, results, s) # s
    <3> DEFINE next == Handles(r) \cap Reads(r, s)
               h == CHOOSE h \in next : TRUE
    <3>1. next # {} /\ Promise!SeeNext(r, results, s) = [s EXCEPT ![h] = results[h]]
      BY <2>2 DEF Promise!SeeNext
    <3>2. h \in Handle
      BY <3>1
    <3> HIDE DEF h
    <3> QED BY <3>1, <3>2
  <2> QED BY <2>1, <2>2
<1>4. G \in Steps(N, S)
  BY <1>3 DEF Steps
<1>5. PICK f : Follows(f, N, S, a, G)
  <2> HIDE DEF G, S, a, N
  <2> QED BY <1>1, <1>2, <1>4, RecursionUpTo
<1>6. f \in [0 .. N -> S] /\ f[0] = a
  BY <1>5 DEF Follows
<1>7. ASSUME NEW k \in 1 .. N PROVE f[k] = Promise!SeeNext(r, results, f[k - 1])
  <2>1. f[k] = G[k][f[k - 1]]
    BY <1>5 DEF Follows
  <2>2. f[k - 1] \in S
    BY <1>1, <1>6
  <2> QED BY <2>1, <2>2
<1>8. f = Step(f)
  <2> HIDE DEF S, a
  <2>1. \A k \in 0 .. N : k # 0 => k \in 1 .. N
    BY <1>1
  <2>2. \A k \in 0 .. N : f[k] = IF k = 0 THEN a ELSE Promise!SeeNext(r, results, f[k - 1])
    BY <1>6, <1>7, <2>1
  <2> QED BY <1>6, <2>2
<1> DEFINE seen == CHOOSE g : g = Step(g)
<1>9. seen = Step(seen)
  <2> HIDE DEF Step
  <2> QED BY <1>8
<1>10. Promise!SeenAtEnd(r, results) = seen[N]
  BY DEF Promise!SeenAtEnd
<1>11. Sees(seen, r, results)
  <2> HIDE DEF seen
  <2>1. \A k \in 0 .. N : seen[k] = IF k = 0 THEN a ELSE Promise!SeeNext(r, results, seen[k - 1])
    BY <1>9
  <2>2. 0 \in 0 .. N /\ \A k \in 1 .. N : k \in 0 .. N /\ k # 0
    BY <1>1
  <2> HIDE DEF a
  <2>3. seen[0] = a /\ \A k \in 1 .. N : seen[k] = Promise!SeeNext(r, results, seen[k - 1])
    BY <2>1, <2>2
  <2> QED BY <2>3 DEF Sees, a
<1> HIDE DEF seen, N
<1> QED BY <1>10, <1>11 DEF N

\* What a rule sees depends on what its handles calculate to, and on nothing else.
LEMMA SeenAlike ==
    ASSUME NEW r, Handles(r) \subseteq Handle, NEW first, NEW second,
           \A h \in Handles(r) : first[h] = second[h]
    PROVE  Promise!SeenAtEnd(r, first) = Promise!SeenAtEnd(r, second)
<1> DEFINE N == Promise!MaxReads
<1>1. PICK f : Sees(f, r, first) /\ Promise!SeenAtEnd(r, first) = f[N]
  BY SeesExists
<1>2. PICK g : Sees(g, r, second) /\ Promise!SeenAtEnd(r, second) = g[N]
  BY SeesExists
<1>3. \A s : Promise!SeeNext(r, first, s) = Promise!SeeNext(r, second, s)
  <2> SUFFICES ASSUME NEW s PROVE Promise!SeeNext(r, first, s) = Promise!SeeNext(r, second, s)
    OBVIOUS
  <2> DEFINE next == Handles(r) \cap Reads(r, s)
             h == CHOOSE h \in next : TRUE
  <2>1. next # {} => first[h] = second[h]
    <3>1. next # {} => h \in next
      OBVIOUS
    <3> HIDE DEF h
    <3> QED BY <3>1
  <2> QED BY <2>1 DEF Promise!SeeNext
<1> DEFINE H == {k \in 0 .. N : f[k] = g[k]}
<1>4. N \in Nat
  BY HandlesFinite
<1>5. 0 \in H
  BY <1>1, <1>2, <1>4 DEF Sees
<1>6. ASSUME NEW k \in 1 .. N, k - 1 \in H PROVE k \in H
  <2>1. f[k] = Promise!SeeNext(r, first, f[k - 1]) /\ g[k] = Promise!SeeNext(r, second, g[k - 1])
    BY <1>1, <1>2 DEF Sees
  <2>2. f[k] = g[k]
    BY <1>3, <1>6, <2>1
  <2> QED BY <1>4, <2>2
<1>7. 0 .. N \subseteq H
  <2> HIDE DEF H
  <2> QED BY <1>4, <1>5, <1>6, UpTo
<1> QED BY <1>1, <1>2, <1>4, <1>7

LEMMA IdsBounded == \E b \in Nat : \A n \in NodeId : n <= b
<1>1. PICK seq \in Seq(NodeId) : \A n \in NodeId : \E i \in 1 .. Len(seq) : seq[i] = n
  BY PromiseAssumption DEF IsFiniteSet
<1> DEFINE N == Len(seq)
           Below(k, b) == \A i \in 1 .. k : seq[i] <= b
           H == {k \in 0 .. N : \E b \in Nat : Below(k, b)}
<1>2. N \in Nat /\ \A i \in 1 .. N : seq[i] \in Nat
  <2>1. N \in Nat /\ \A i \in 1 .. N : seq[i] \in NodeId
    OBVIOUS
  <2> QED BY <2>1, NodeIdAssumption
<1>3. 0 \in H
  <2>1. Below(0, 0)
    OBVIOUS
  <2> QED BY <1>2, <2>1
<1>4. ASSUME NEW k \in 1 .. N, k - 1 \in H PROVE k \in H
  <2>1. PICK b \in Nat : Below(k - 1, b)
    BY <1>4
  <2>2. seq[k] \in Nat /\ k \in 0 .. N /\ \A i \in 1 .. k : i = k \/ i \in 1 .. k - 1
    BY <1>2
  <2>3. Below(k, b + seq[k]) /\ b + seq[k] \in Nat
    BY <1>2, <2>1, <2>2
  <2> HIDE DEF Below
  <2> QED BY <2>2, <2>3
<1>5. 0 .. N \subseteq H
  <2> HIDE DEF H, N
  <2> QED BY <1>2, <1>3, <1>4, UpTo
<1>6. PICK b \in Nat : Below(N, b)
  <2> HIDE DEF Below, N
  <2> QED BY <1>2, <1>5
<1> QED BY <1>1, <1>2, <1>6

\* The rules of the cells read older cells only.
OlderCells(cells) ==
    \A n \in NodeId : cells[n] # None /\ cells[n].kind # "Source" =>
        /\ Handles(cells[n].holds) \subseteq Handle
        /\ \A h \in Handles(cells[n].holds) : h \in NodeId => h < n

LEMMA ResultAlike ==
    ASSUME NEW cells, OlderCells(cells), NEW h \in Handle, NEW first, NEW second,
           \A x \in Handle : x \in NodeId /\ h \in NodeId /\ x < h => first[x] = second[x],
           \A x \in Handle : x \notin NodeId => first[x] = second[x]
    PROVE  Promise!ResultOf(h, cells, first) = Promise!ResultOf(h, cells, second)
<1> DEFINE r == cells[h].holds
<1>1. CASE h = Foreign \/ cells[h] = None \/ cells[h].kind = "Source"
  BY <1>1 DEF Promise!ResultOf
<1>2. CASE h # Foreign /\ cells[h] # None /\ cells[h].kind # "Source"
  <2>1. h \in NodeId
    BY <1>2 DEF Handle
  <2>2. Handles(r) \subseteq Handle /\ \A x \in Handles(r) : x \in NodeId => x < h
    BY <1>2, <2>1 DEF OlderCells
  <2>3. \A x \in Handles(r) : first[x] = second[x]
    BY <2>1, <2>2
  <2>4. Promise!SeenAtEnd(r, first) = Promise!SeenAtEnd(r, second)
    BY <2>2, <2>3, SeenAlike
  <2> QED BY <1>2, <2>4 DEF Promise!ResultOf
<1> QED BY <1>1, <1>2

LEMMA ResultsAreCalculated ==
    ASSUME NEW cells, OlderCells(cells)
    PROVE  \A h \in Handle :
              Promise!Results(cells)[h] = Promise!ResultOf(h, cells, Promise!Results(cells))
<1> DEFINE Step(f) == [h \in Handle |-> Promise!ResultOf(h, cells, f)]
           Right(f, h) == f[h] = Promise!ResultOf(h, cells, f)
           Good(k, f) == \A h \in Handle : (h \in NodeId => h < k) => Right(f, h)
<1>1. PICK B \in Nat : \A n \in NodeId : n <= B
  BY IdsBounded
<1> DEFINE H == {k \in 0 .. B + 1 : \E f : Good(k, f)}
<1>2. \A n \in NodeId : n \in Nat
  BY NodeIdAssumption
<1>3. 0 \in H
  <2> DEFINE f == Step(None)
  <2>1. ASSUME NEW h \in Handle, h \in NodeId => h < 0 PROVE Right(f, h)
    <3>1. h = Foreign
      BY <1>2, <2>1 DEF Handle
    <3>2. f[h] = Promise!ResultOf(h, cells, None)
      OBVIOUS
    <3> HIDE DEF f
    <3> QED BY <3>1, <3>2 DEF Promise!ResultOf
  <2>2. Good(0, f)
    BY <2>1
  <2> HIDE DEF f, Good
  <2> QED BY <2>2
<1>4. ASSUME NEW k \in 1 .. B + 1, k - 1 \in H PROVE k \in H
  <2>1. PICK f : Good(k - 1, f)
    BY <1>4
  <2> DEFINE g == Step(f)
  <2>2. \A h \in Handle : g[h] = Promise!ResultOf(h, cells, f)
    OBVIOUS
  <2> HIDE DEF g
  <2>3. ASSUME NEW h \in Handle, h \in NodeId => h < k PROVE Right(g, h)
    <3>1. \A x \in Handle : (x \in NodeId => x < k - 1) => f[x] = g[x]
      BY <2>1, <2>2
    <3>2. \A x \in Handle : x \in NodeId /\ h \in NodeId /\ x < h => f[x] = g[x]
      BY <1>2, <2>3, <3>1
    <3>3. \A x \in Handle : x \notin NodeId => f[x] = g[x]
      BY <3>1
    <3>4. Promise!ResultOf(h, cells, f) = Promise!ResultOf(h, cells, g)
      BY <3>2, <3>3, ResultAlike
    <3> QED BY <2>2, <3>4
  <2>4. Good(k, g)
    BY <2>3
  <2> HIDE DEF Good
  <2> QED BY <2>4
<1>5. PICK f : Good(B + 1, f)
  <2>1. 0 .. B + 1 \subseteq H
    <3> DEFINE N == B + 1
    <3>1. N \in Nat
      OBVIOUS
    <3> HIDE DEF H, N
    <3>2. 0 .. N \subseteq H
      BY <1>3, <1>4, <3>1, UpTo DEF N
    <3> QED BY <3>2 DEF N
  <2> HIDE DEF Good
  <2> QED BY <2>1
<1>6. Step(f) = Step(Step(f))
  <2> DEFINE g == Step(f)
  <2>1. \A h \in Handle : f[h] = g[h]
    BY <1>1, <1>2, <1>5
  <2> HIDE DEF g
  <2>2. \A h \in Handle : Promise!ResultOf(h, cells, f) = Promise!ResultOf(h, cells, g)
    BY <2>1, ResultAlike
  <2> QED BY <2>2 DEF g
<1>7. Promise!Results(cells) = Step(Promise!Results(cells))
  <2> HIDE DEF Step
  <2>1. \E g : g = Step(g)
    BY <1>6
  <2>2. Promise!Results(cells) = CHOOSE g : g = Step(g)
    BY DEF Promise!Results, Step, Promise!Handle, Handle
  <2> QED BY <2>1, <2>2
<1> QED BY <1>7

-----------------------------------------------------------------------------
(***************************************************************************)
(* What a callback has seen.  Every read depends on what was seen before   *)
(* it, so what has been seen is reached from nothing, a read at a time.    *)
(***************************************************************************)
View == [Handle -> Observation \cup {None}]

See(seen, h, o) == [seen EXCEPT ![h] = o]

ClosedUnderReads(r, K) ==
    \A seen \in K : \A h \in Handles(r) \cap Reads(r, seen) : \A o \in Observation :
        See(seen, h, o) \in K

Reached(r) ==
    {seen \in View : \A K \in SUBSET View :
        Promise!NothingSeen \in K /\ ClosedUnderReads(r, K) => seen \in K}

LEMMA NothingSeenReached ==
    ASSUME NEW r
    PROVE  /\ Promise!NothingSeen \in Reached(r)
           /\ Promise!NothingSeen = [h \in Handle |-> None]
BY DEF Reached, View, Promise!NothingSeen, Promise!Handle, Handle

LEMMA ReadReached ==
    ASSUME NEW r, Handles(r) \subseteq Handle, NEW seen \in Reached(r),
           NEW h \in Handles(r) \cap Reads(r, seen), NEW o \in Observation
    PROVE  See(seen, h, o) \in Reached(r)
<1>1. seen \in View /\ h \in Handle
  BY DEF Reached
<1>2. See(seen, h, o) \in View
  BY <1>1 DEF View, See
<1>3. ASSUME NEW K \in SUBSET View, Promise!NothingSeen \in K, ClosedUnderReads(r, K)
      PROVE  See(seen, h, o) \in K
  <2>1. seen \in K
    BY <1>3 DEF Reached
  <2> QED BY <1>3, <2>1 DEF ClosedUnderReads
<1> QED BY <1>2, <1>3 DEF Reached

LEMMA ReachedLeast ==
    ASSUME NEW r, NEW K \in SUBSET View, Promise!NothingSeen \in K, ClosedUnderReads(r, K)
    PROVE  Reached(r) \subseteq K
BY DEF Reached

\* A rule sees through its handles only.
LEMMA ReachedViews ==
    ASSUME NEW r, Handles(r) \subseteq Handle
    PROVE  /\ Reached(r) \subseteq Views(r)
           /\ \A seen \in Reached(r) : \A h \in Handle \ Handles(r) : seen[h] = None
<1> DEFINE K == {seen \in View : \A h \in Handle \ Handles(r) : seen[h] = None}
<1>1. Promise!NothingSeen \in K
  BY NothingSeenReached DEF View
<1>2. ClosedUnderReads(r, K)
  <2> SUFFICES ASSUME NEW seen \in K, NEW h \in Handles(r) \cap Reads(r, seen),
                      NEW o \in Observation
               PROVE  See(seen, h, o) \in K
    BY DEF ClosedUnderReads
  <2> QED BY DEF View, See
<1>3. Reached(r) \subseteq K
  <2>1. K \in SUBSET View
    OBVIOUS
  <2> HIDE DEF K
  <2> QED BY <1>1, <1>2, <2>1, ReachedLeast
<1>4. ASSUME NEW seen \in K PROVE seen \in Views(r)
  <2> DEFINE part == [h \in Handles(r) |-> seen[h]]
  <2>1. part \in [Handles(r) -> Observation \cup {None}]
    BY DEF View
  <2>2. seen = [h \in Handle |-> IF h \in Handles(r) THEN part[h] ELSE None]
    <3>1. seen = [h \in Handle |-> seen[h]]
      BY DEF View
    <3>2. \A h \in Handle : seen[h] = IF h \in Handles(r) THEN part[h] ELSE None
      OBVIOUS
    <3> HIDE DEF part
    <3> QED BY <3>1, <3>2
  <2> HIDE DEF part
  <2> QED BY <2>1, <2>2 DEF Views
<1> QED BY <1>3, <1>4

\* What is seen without a failure is no failure of the promise either.
LEMMA NotPanicking ==
    ASSUME NEW seen \in View, NEW h \in Handle, seen[h] # None
    PROVE  seen[h].error # "panic"
<1>1. seen[h] \in Observation
  BY DEF View
<1> QED BY <1>1, PromiseAssumption DEF Observation, Error

\* How much has been seen.
Known(seen) == {h \in Handle : seen[h] # None}

LEMMA KnownFinite ==
    ASSUME NEW seen
    PROVE  /\ IsFiniteSet(Known(seen))
           /\ Cardinality(Known(seen)) \in 0 .. Promise!MaxReads
<1>1. Known(seen) \subseteq Handle
  BY DEF Known
<1>2. Promise!MaxReads = Cardinality(Handle)
  BY DEF Promise!MaxReads, Promise!Handle, Handle, Promise!Cardinality, Cardinality
<1>3. IsFiniteSet(Known(seen)) /\ Cardinality(Known(seen)) <= Promise!MaxReads
  BY <1>1, <1>2, HandlesFinite, FS_Subset
<1>4. Cardinality(Known(seen)) \in Nat
  BY <1>3, FS_CardinalityType
<1> QED BY <1>3, <1>4, HandlesFinite

\* A callback whose reads got what the cells calculate to has seen what the calculation
\* sees after as many reads.
LEMMA SeenAsCalculated ==
    ASSUME NEW r, Deterministic(r), NEW results, NEW calculation,
           Sees(calculation, r, results), NEW seen \in Reached(r),
           \A h \in Handle : seen[h] # None => seen[h] = results[h]
    PROVE  seen = calculation[Cardinality(Known(seen))]
<1> DEFINE Agrees(s) == \A h \in Handle : s[h] # None => s[h] = results[h]
           K == {s \in Reached(r) : Agrees(s) => s = calculation[Cardinality(Known(s))]}
<1>1. Handles(r) \subseteq Handle /\ K \subseteq View
  BY DEF Deterministic, Reached
<1>2. Promise!NothingSeen \in K
  <2>1. Known(Promise!NothingSeen) = {}
    BY NothingSeenReached DEF Known
  <2>2. Cardinality(Known(Promise!NothingSeen)) = 0
    BY <2>1, FS_EmptySet
  <2> QED BY <2>2, NothingSeenReached DEF Sees
<1>3. ASSUME NEW s \in K, NEW h \in Handles(r) \cap Reads(r, s), NEW o \in Observation
      PROVE  See(s, h, o) \in K
  <2> DEFINE t == See(s, h, o)
             k == Cardinality(Known(s))
  <2>1. s \in View /\ h \in Handle /\ s \in Reached(r)
    BY <1>1
  <2>2. t \in Reached(r)
    BY <1>1, <2>1, ReadReached
  <2>3. \A x \in Handle : t[x] = IF x = h THEN o ELSE s[x]
    BY <2>1 DEF View, See
  <2>4. s \in Views(r)
    BY <1>1, <2>1, ReachedViews
  <2>5. s[h] = None /\ Handles(r) \cap Reads(r, s) = {h} /\ ~Panics(r, s)
    BY <2>4 DEF Deterministic
  <2>6. SUFFICES ASSUME Agrees(t) PROVE t = calculation[Cardinality(Known(t))]
    BY <2>2
  <2>7. s = calculation[k]
    <3>1. Agrees(s)
      BY <2>3, <2>5, <2>6
    <3> QED BY <3>1
  <2>8. o # None /\ o = results[h]
    BY <2>1, <2>3, <2>6, ConstantsAssumption
  <2>9. Promise!SeeNext(r, results, s) = t
    <3>1. ~Promise!Stopped(r, s)
      BY <2>1, <2>5, NotPanicking DEF Promise!Stopped, Promise!Handle, Handle
    <3>2. Promise!SeeNext(r, results, s)
              = LET x == CHOOSE x \in {h} : TRUE IN [s EXCEPT ![x] = results[x]]
      BY <2>5, <3>1 DEF Promise!SeeNext
    <3>3. (CHOOSE x \in {h} : TRUE) = h
      OBVIOUS
    <3> QED BY <2>8, <3>2, <3>3 DEF See
  <2>10. Cardinality(Known(t)) = k + 1
    <3>1. Known(t) = Known(s) \cup {h} /\ h \notin Known(s)
      BY <2>1, <2>3, <2>5, <2>8 DEF Known
    <3> QED BY <3>1, KnownFinite, FS_AddElement
  <2>11. k + 1 \in 1 .. Promise!MaxReads /\ (k + 1) - 1 = k
    <3>1. k + 1 \in 0 .. Promise!MaxReads
      BY <2>10, KnownFinite
    <3>2. k \in 0 .. Promise!MaxReads
      BY KnownFinite
    <3> HIDE DEF k
    <3> QED BY <3>1, <3>2, HandlesFinite
  <2>12. calculation[k + 1] = Promise!SeeNext(r, results, calculation[k])
    <3> HIDE DEF k
    <3> QED BY <2>11 DEF Sees
  <2> HIDE DEF t, k
  <2> QED BY <2>7, <2>9, <2>10, <2>12
<1>4. ClosedUnderReads(r, K)
  <2> HIDE DEF K
  <2> QED BY <1>3 DEF ClosedUnderReads
<1>5. seen \in K
  <2> HIDE DEF K
  <2> QED BY <1>1, <1>2, <1>4, ReachedLeast
<1> QED BY <1>5

\* A node whose committed callback has seen what the cells calculate to holds what it
\* calculates to itself.
LEMMA OutputIsFresh ==
    ASSUME NEW r, Deterministic(r), NEW results, NEW seen \in Reached(r),
           \A h \in Handle : seen[h] # None => seen[h] = results[h],
           NEW output \in Storage, output \in Returns(r, seen),
           output.value_type = ValueType(r)
    PROVE  Promise!Outcome(r, Promise!SeenAtEnd(r, results)) = Promise!Value(output)
<1> DEFINE N == Promise!MaxReads
           k == Cardinality(Known(seen))
<1>1. Handles(r) \subseteq Handle /\ seen \in View /\ seen \in Views(r)
  BY ReachedViews DEF Deterministic, Reached
<1>2. PICK calculation : /\ Sees(calculation, r, results)
                         /\ Promise!SeenAtEnd(r, results) = calculation[N]
  BY <1>1, SeesExists
<1>3. seen = calculation[k] /\ k \in 0 .. N /\ N \in Nat
  BY <1>2, SeenAsCalculated, KnownFinite, HandlesFinite
<1>4. /\ Handles(r) \cap Reads(r, seen) = {} /\ Fails(r, seen) = {} /\ ~Panics(r, seen)
      /\ Returns(r, seen) = {output}
  <2>1. \E v \in Storage \cup {None} : Returns(r, seen) = {v}
    BY <1>1 DEF Deterministic
  <2> QED BY <1>1, <2>1 DEF Deterministic
<1>5. Promise!SeeNext(r, results, seen) = seen
  BY <1>4 DEF Promise!SeeNext
<1> DEFINE H == {j \in 0 .. N : j >= k => calculation[j] = seen}
<1>6. 0 .. N \subseteq H
  <2> HIDE DEF k
  <2>1. 0 \in H
    BY <1>3
  <2>2. ASSUME NEW j \in 1 .. N, j - 1 \in H PROVE j \in H
    <3>1. calculation[j] = Promise!SeeNext(r, results, calculation[j - 1])
      BY <1>2 DEF Sees
    <3>2. j - 1 \in 0 .. N /\ j \in 0 .. N /\ (j >= k => j = k \/ j - 1 >= k)
      BY <1>3
    <3> QED BY <1>3, <1>5, <2>2, <3>1, <3>2
  <2> HIDE DEF H, N
  <2> QED BY <1>3, <2>1, <2>2, UpTo
<1>7. Promise!SeenAtEnd(r, results) = seen
  <2> HIDE DEF k
  <2>1. N \in H /\ N >= k
    BY <1>3, <1>6
  <2> QED BY <1>2, <2>1
<1>8. ~Promise!Stopped(r, seen)
  BY <1>1, <1>4, NotPanicking DEF Promise!Stopped, Promise!Handle, Handle
<1>9. (CHOOSE v \in Returns(r, seen) : TRUE) = output
  BY <1>4
<1>10. output # None
  BY ConstantsAssumption
<1> QED BY <1>4, <1>7, <1>8, <1>9, <1>10 DEF Promise!Outcome

-----------------------------------------------------------------------------
(***************************************************************************)
(* What the frames and the nodes have seen, along every run.               *)
(***************************************************************************)
\* A callback that runs has seen what it asked for, and recorded all that it got.
ReachedFrame ==
    {f \in Frame : f.op = "evaluate" =>
        /\ f.seen \in Reached(rule[f.node])
        /\ f.reading # None =>
              f.reading \in Handles(rule[f.node]) \cap Reads(rule[f.node], f.seen)
        /\ \A h \in Handle :
              f.seen[h] # None /\ f.seen[h].error = None => h \in f.dependencies_read}

\* What the committed callback of n has seen.
SeenBy(n) ==
    [h \in Handle |-> IF h \in NodeId /\ consumed[n][h] # None
                      THEN Promise!Value(consumed[n][h]) ELSE None]

\* A cache is an output of the rule, for what was consumed.
Committed(n) ==
    kind[n] = "Derived" /\ value[n] # None =>
        /\ SeenBy(n) \in Reached(rule[n])
        /\ value[n] \in Returns(rule[n], SeenBy(n))
        /\ value[n].value_type = ValueType(rule[n])

RunInv == frames \in Seq(ReachedFrame) /\ \A n \in NodeId : Committed(n)

LEMMA EnterKeepsReached ==
    ASSUME GraphTypeOK, CallTypeOK, NEW h \in Handle, NEW fs \in Seq(ReachedFrame),
           Enters(h, fs), UNCHANGED rule
    PROVE  frames' \in Seq(ReachedFrame)
<1>1. ASSUME NEW f \in ReachedFrame, frames' = Append(fs, f)
      PROVE  frames' \in Seq(ReachedFrame)
  BY <1>1, AppendElements
<1>2. ASSUME NEW o, Answer(o, fs) PROVE frames' \in Seq(ReachedFrame)
  BY <1>2 DEF Answer
<1>3. ASSUME h \in NodeId, Recompute(h, fs) PROVE frames' \in Seq(ReachedFrame)
  <2> DEFINE f == [op |-> "evaluate", node |-> h, old_value |-> value[h],
                   dependencies_read |-> {}, seen |-> [g \in Handle |-> None],
                   reading |-> None]
  <2>1. f \in Frame
    BY <1>3 DEF Frame, EvaluateFrame, GraphTypeOK
  <2>2. f.seen \in Reached(rule[h]) /\ f.node = h /\ f.reading = None
    BY NothingSeenReached
  <2>3. \A g \in Handle : f.seen[g] = None
    OBVIOUS
  <2>4. frames' = Append(fs, f) \/ \E o : Answer(o, fs)
    BY <1>3 DEF Recompute, CallRule
  <2> HIDE DEF f
  <2>5. f \in ReachedFrame
    BY <2>1, <2>2, <2>3 DEF ReachedFrame
  <2> QED BY <1>1, <1>2, <2>4, <2>5
<1>4. ASSUME h \in NodeId, ValidateDerived(h, fs) PROVE frames' \in Seq(ReachedFrame)
  <2> DEFINE f == [op |-> "validate", node |-> h, todo |-> active_dependencies[h],
                   dependency_changed |-> FALSE]
  <2>1. f \in Frame /\ f.op = "validate"
    BY <1>4 DEF Frame, ValidateFrame, GraphTypeOK
  <2>2. frames' = Append(fs, f) => frames' \in Seq(ReachedFrame)
    <3> HIDE DEF f
    <3> QED BY <1>1, <2>1 DEF ReachedFrame
  <2> QED BY <1>2, <1>3, <1>4, <2>2 DEF ValidateDerived
<1>5. ASSUME ValidateForRead(h, fs) PROVE frames' \in Seq(ReachedFrame)
  BY <1>2, <1>4, <1>5 DEF ValidateForRead, Live
<1> QED BY <1>2, <1>3, <1>4, <1>5 DEF Enters

\* The frames below the top, the top, and a stack whose top goes on as g.
LEMMA ReachedTop ==
    ASSUME frames \in Seq(ReachedFrame), frames # <<>>
    PROVE  /\ Front(frames) \in Seq(ReachedFrame)
           /\ Top \in ReachedFrame
           /\ \A g \in ReachedFrame : Append(Front(frames), g) \in Seq(ReachedFrame)
<1>1. Front(frames) \in Seq(ReachedFrame)
  BY FrontType
<1>2. Top \in ReachedFrame
  BY LastType DEF Top
<1>3. \A g \in ReachedFrame : Append(Front(frames), g) \in Seq(ReachedFrame)
  BY <1>1, AppendElements
<1> QED BY <1>1, <1>2, <1>3

\* What the graph holds for its nodes depends on the nodes alone.
LEMMA CommittedStill ==
    ASSUME NEW n \in NodeId, Committed(n),
           kind'[n] = kind[n], value'[n] = value[n], rule'[n] = rule[n],
           consumed'[n] = consumed[n]
    PROVE  Committed(n)'
<1>1. SeenBy(n)' = SeenBy(n)
  BY DEF SeenBy
<1> QED BY <1>1 DEF Committed

LEMMA RuleOfTop ==
    ASSUME SoundRules, CallInv, FreshInv, frames # <<>>
    PROVE  /\ Top.node \in NodeId /\ kind[Top.node] = "Derived"
           /\ rule[Top.node] \in Rules
           /\ Deterministic(rule[Top.node]) /\ NoFallback(rule[Top.node])
           /\ Handles(rule[Top.node]) \subseteq Handle
<1>1. Top.node \in NodeId /\ kind[Top.node] = "Derived"
  BY TopFacts
<1>2. rule[Top.node] \in Rules
  BY <1>1, ConstantsAssumption DEF FreshInv, GraphFresh, NodesOK
<1> QED BY <1>1, <1>2 DEF SoundRules, Deterministic

\* A callback asks for one more handle.
LEMMA RuleReadsReached ==
    ASSUME SoundRules, CallInv, FreshInv, RunInv, NEW h \in Handle, RuleReads(h)
    PROVE  frames' \in Seq(ReachedFrame)
<1> DEFINE g == [Top EXCEPT !.reading = h]
           fs == Append(Front(frames), g)
<1>1. /\ frames # <<>> /\ Top.op = "evaluate" /\ Top \in EvaluateFrame /\ UNCHANGED rule
      /\ h \in Handles(rule[Top.node]) \cap Reads(rule[Top.node], Top.seen)
      /\ GraphTypeOK /\ CallTypeOK
  BY TopFacts DEF RuleReads, Running, graphVars, CallInv, TypeOK
<1>2. Top \in ReachedFrame /\ \A f \in ReachedFrame : Append(Front(frames), f) \in Seq(ReachedFrame)
  BY <1>1, ReachedTop DEF RunInv
<1>3. /\ g \in Frame /\ g.node = Top.node /\ g.op = Top.op /\ g.reading = h
      /\ g.seen = Top.seen /\ g.dependencies_read = Top.dependencies_read
  BY <1>1 DEF Frame, EvaluateFrame
<1>4. Enters(h, fs)
  <2>1. "SelfDependency" \in Error
    BY DEF Error
  <2> QED BY <2>1 DEF RuleReads, Enters
<1> HIDE DEF g
<1>5. g \in ReachedFrame
  BY <1>1, <1>2, <1>3 DEF ReachedFrame
<1> QED BY <1>1, <1>2, <1>4, <1>5, EnterKeepsReached

\* It gets an observation.
LEMMA RuleObservesReached ==
    ASSUME SoundRules, CallInv, FreshInv, RunInv, CallInv', RuleObserves
    PROVE  frames' \in Seq(ReachedFrame)
<1> DEFINE h == Top.reading
           o == Observed(h)
           g == [Top EXCEPT !.reading = None,
                            !.seen = [@ EXCEPT ![h] = o],
                            !.dependencies_read = Recorded(@, h, returning)]
           r == rule[Top.node]
<1>1. /\ frames # <<>> /\ Top.op = "evaluate" /\ Top \in EvaluateFrame /\ UNCHANGED rule
      /\ GraphTypeOK /\ CallTypeOK /\ returning # None /\ Delivering("evaluate")
      /\ frames' = Append(Front(frames), g)
  BY TopFacts DEF RuleObserves, Delivering, graphVars, CallInv, TypeOK
<1>2. Top \in ReachedFrame /\ \A f \in ReachedFrame : Append(Front(frames), f) \in Seq(ReachedFrame)
  BY <1>1, ReachedTop DEF RunInv
<1>3. h \in Handle
  BY <1>1, DeliveringTop DEF FreshInv, FrameWaits
<1>4. h \in Handles(r) \cap Reads(r, Top.seen) /\ Top.seen \in Reached(r)
  BY <1>1, <1>2, <1>3, ConstantsAssumption DEF ReachedFrame
<1>5. o \in Observation /\ (o.error = None => returning.status = "ok")
  <2>1. returning \in Outcome
    BY <1>1 DEF CallTypeOK
  <2>2. CASE returning.status = "panic"
    BY <2>2, PromiseAssumption DEF Observed, Observation
  <2>3. CASE returning.status = "error"
    <3>1. returning.error \in Error
      BY <2>1, <2>3 DEF Outcome, Ok, Err, Panicked
    <3> QED BY <2>3, <3>1, PromiseAssumption DEF Observed, Observation
  <2>4. CASE returning.status = "ok"
    <3>1. h \in NodeId
      BY <1>1, <2>4 DEF CallInv, ReturningOK, Live
    <3>2. value[h] \in Storage \cup {None} /\ "MissingValue" \in Error
      BY <1>1, <3>1 DEF GraphTypeOK, Error
    <3> QED BY <2>4, <3>2 DEF Observed, Observation
  <2>5. returning.status \in {"ok", "error", "panic"}
    BY <2>1 DEF Outcome, Ok, Err, Panicked
  <2> QED BY <2>2, <2>3, <2>4, <2>5
<1> HIDE DEF h, o
<1>6. /\ g.op = "evaluate" /\ g.node = Top.node /\ g.reading = None
      /\ g.seen = See(Top.seen, h, o)
      /\ g.dependencies_read = Recorded(Top.dependencies_read, h, returning)
  BY <1>1 DEF EvaluateFrame, See
<1> HIDE DEF g
<1>7. g \in Frame
  <2>1. frames' \in Seq(Frame) /\ Front(frames) \in Seq(Frame)
    BY <1>1, TopFacts DEF CallInv, TypeOK, CallTypeOK
  <2>2. Len(frames') = Len(Front(frames)) + 1 /\ frames'[Len(frames')] = g
    BY <1>1, <2>1
  <2> QED BY <2>1, <2>2
<1>8. g.seen \in Reached(r)
  BY <1>1, <1>4, <1>5, <1>6, RuleOfTop, ReadReached
<1>9. ASSUME NEW x \in Handle, g.seen[x] # None, g.seen[x].error = None
      PROVE  x \in g.dependencies_read
  <2>1. Top.seen \in [Handle -> Observation \cup {None}]
    BY <1>1 DEF EvaluateFrame
  <2>2. g.seen[x] = IF x = h THEN o ELSE Top.seen[x]
    BY <1>6, <2>1 DEF See
  <2>3. CASE x = h
    BY <1>5, <1>6, <1>9, <2>2, <2>3 DEF Recorded
  <2>4. CASE x # h
    BY <1>1, <1>2, <1>6, <1>9, <2>2, <2>4 DEF Recorded, ReachedFrame
  <2> QED BY <2>3, <2>4
<1>10. g \in ReachedFrame
  BY <1>6, <1>7, <1>8, <1>9 DEF ReachedFrame
<1> QED BY <1>1, <1>2, <1>10

\* It commits: what the node has consumed is what the callback has seen.
LEMMA RuleCommitsReached ==
    ASSUME SoundRules, CallInv, FreshInv, RunInv, NEW output \in Storage \cup {None},
           RuleCommits(output)
    PROVE  RunInv'
<1>0. PICK n \in NodeId : n = Top.node
  BY TopFacts DEF RuleCommits, Running
<1> DEFINE r == rule[n]
           reads == Top.dependencies_read
<1>1. /\ frames # <<>> /\ Top.op = "evaluate" /\ Top \in EvaluateFrame
      /\ UNCHANGED <<kind, rule>> /\ GraphTypeOK
      /\ output \in Returns(r, Top.seen) /\ Refusals(n, reads, output) = {}
      /\ value' = [value EXCEPT ![n] = output]
      /\ consumed' = [consumed EXCEPT ![n] =
                        [d \in NodeId |-> IF d \in reads THEN Top.seen[d].value ELSE None]]
      /\ frames' = Front(frames)
  BY <1>0, TopFacts DEF RuleCommits, Running, nodeVars, CallInv, TypeOK
<1>2. Top \in ReachedFrame /\ Front(frames) \in Seq(ReachedFrame)
  BY <1>1, ReachedTop DEF RunInv
<1>3. Front(frames) \in Seq(ReachedFrame')
  <2>1. ReachedFrame' = ReachedFrame
    BY <1>1 DEF ReachedFrame
  <2> QED BY <1>2, <2>1
<1>4. Top.seen \in Reached(r) /\ Top.seen \in View
  BY <1>0, <1>1, <1>2 DEF ReachedFrame, Reached
<1>5. \A h \in Handle : Top.seen[h] # None => Top.seen[h].error = None /\ h \in reads
  <2> SUFFICES ASSUME NEW h \in Handle, Top.seen[h] # None
               PROVE  Top.seen[h].error = None /\ h \in reads
    OBVIOUS
  <2>1. Deterministic(r) /\ NoFallback(r) /\ Handles(r) \subseteq Handle
    BY <1>0, <1>1, RuleOfTop
  <2>2. Top.seen \in Views(r) /\ h \in Handles(r)
    BY <1>4, <2>1, ReachedViews
  <2>3. Top.seen[h].error = None
    BY <1>1, <2>1, <2>2 DEF NoFallback
  <2> QED BY <1>1, <1>2, <2>3 DEF ReachedFrame
<1>6. \A d \in reads : d \in NodeId /\ Top.seen[d] # None
  BY <1>1 DEF EvaluateFrame
<1>7. SeenBy(n)' = Top.seen
  <2>1. Top.seen = [h \in Handle |-> Top.seen[h]]
    BY <1>4 DEF View
  <2>2. \A d \in NodeId : consumed'[n][d] = IF d \in reads THEN Top.seen[d].value ELSE None
    BY <1>1 DEF GraphTypeOK
  <2>3. ASSUME NEW h \in Handle
        PROVE  Top.seen[h] = IF h \in NodeId /\ consumed'[n][h] # None
                             THEN Promise!Value(consumed'[n][h]) ELSE None
    <3>1. CASE Top.seen[h] # None
      <4>1. Top.seen[h] \in Observation /\ Top.seen[h].error = None /\ h \in reads
        BY <1>4, <1>5, <3>1 DEF View
      <4>2. Top.seen[h].value # None /\ Top.seen[h] = Promise!Value(Top.seen[h].value)
        BY <4>1, PromiseAssumption, ConstantsAssumption DEF Observation, Promise!Value
      <4> QED BY <1>6, <2>2, <4>1, <4>2
    <3>2. CASE Top.seen[h] = None
      BY <1>6, <2>2, <3>2
    <3> QED BY <3>1, <3>2
  <2> HIDE DEF reads
  <2> QED BY <2>1, <2>3 DEF SeenBy
<1>8. output # None /\ output.value_type = ValueType(r)
  BY <1>1 DEF Refusals
<1>9. ASSUME NEW m \in NodeId PROVE Committed(m)'
  <2>1. CASE m = n
    <3>1. value'[m] = output
      BY <1>1, <2>1 DEF GraphTypeOK
    <3> QED BY <1>1, <1>4, <1>7, <1>8, <2>1, <3>1 DEF Committed
  <2>2. CASE m # n
    <3>1. value'[m] = value[m] /\ consumed'[m] = consumed[m]
      BY <1>1, <2>2 DEF GraphTypeOK
    <3>2. Committed(m)
      BY DEF RunInv
    <3> QED BY <1>1, <3>1, <3>2, CommittedStill
  <2> QED BY <2>1, <2>2
<1> QED BY <1>1, <1>3, <1>9 DEF RunInv

LEMMA ContinueKeepsRun ==
    ASSUME SoundRules, CallInv, FreshInv, RunInv, CallInv', Continue
    PROVE  RunInv'
<1>1. GraphTypeOK /\ CallTypeOK /\ <<>> \in Seq(ReachedFrame)
  BY DEF CallInv, TypeOK
<1>2. ASSUME UNCHANGED <<kind, value, rule, consumed>>, frames' \in Seq(ReachedFrame)
      PROVE  RunInv'
  <2>1. \A n \in NodeId : Committed(n)'
    BY <1>2, CommittedStill DEF RunInv
  <2>2. ReachedFrame' = ReachedFrame
    BY <1>2 DEF ReachedFrame
  <2> QED BY <1>2, <2>1, <2>2 DEF RunInv
<1>3. frames # <<>> => Front(frames) \in Seq(ReachedFrame)
  BY ReachedTop DEF RunInv
<1>4. ASSUME ValidateDependency PROVE RunInv'
  <2>1. PICK d \in Top.todo :
           ValidateForRead(d, Append(Front(frames), [Top EXCEPT !.todo = @ \ {d}]))
    BY <1>4 DEF ValidateDependency
  <2> DEFINE g == [Top EXCEPT !.todo = @ \ {d}]
             fs == Append(Front(frames), g)
  <2>2. frames # <<>> /\ Top \in ValidateFrame /\ UNCHANGED graphVars
    BY <1>4, TopFacts DEF ValidateDependency, Running
  <2>3. g \in ReachedFrame /\ d \in Handle
    BY <2>2 DEF Frame, ValidateFrame, ReachedFrame, Handle
  <2>4. Enters(d, fs)
    BY <2>1 DEF Enters
  <2> HIDE DEF g
  <2>5. fs \in Seq(ReachedFrame)
    BY <2>2, <2>3, ReachedTop DEF RunInv
  <2> QED BY <1>1, <1>2, <2>2, <2>3, <2>4, <2>5, EnterKeepsReached DEF graphVars
<1>5. ASSUME DependencyValidated PROVE RunInv'
  <2>1. frames # <<>> /\ Top \in ValidateFrame /\ UNCHANGED graphVars /\ returning \in Outcome
    BY <1>1, <1>5, TopFacts DEF DependencyValidated, Delivering, CallTypeOK
  <2> DEFINE g == [Top EXCEPT !.dependency_changed = @ \/ returning.value_changed]
  <2>2. g \in ReachedFrame
    <3>1. returning.value_changed \in BOOLEAN
      BY <2>1, OutcomeType
    <3> QED BY <2>1, <3>1 DEF Frame, ValidateFrame, ReachedFrame
  <2>3. frames' = Append(Front(frames), g)
    BY <1>5 DEF DependencyValidated
  <2> HIDE DEF g
  <2> QED BY <1>2, <2>1, <2>2, <2>3, ReachedTop DEF RunInv, graphVars
<1>6. ASSUME ValidationRecomputes PROVE RunInv'
  <2>1. frames # <<>> /\ Recompute(Top.node, Front(frames)) /\ UNCHANGED graphVars
    BY <1>6 DEF ValidationRecomputes, Running
  <2>2. Enters(Top.node, Front(frames)) /\ Top.node \in Handle
    BY <2>1, TopFacts DEF Enters, Handle
  <2> QED BY <1>1, <1>2, <1>3, <2>1, <2>2, EnterKeepsReached DEF graphVars
<1>7. ASSUME ValidationSettles \/ ValidationFails PROVE RunInv'
  BY <1>2, <1>3, <1>7
     DEF ValidationSettles, ValidationFails, Running, Delivering, Answer, graphVars, nodeVars
<1>8. ASSUME NEW h \in Handle, RuleReads(h) PROVE RunInv'
  BY <1>2, <1>8, RuleReadsReached DEF RuleReads, graphVars
<1>9. ASSUME RuleObserves PROVE RunInv'
  BY <1>2, <1>9, RuleObservesReached DEF RuleObserves, graphVars
<1>10. ASSUME NEW o, frames # <<>>, Abandon(o) PROVE RunInv'
  BY <1>2, <1>3, <1>10 DEF Abandon, graphVars
<1>11. ASSUME NEW e \in Error, RuleFails(e) PROVE RunInv'
  BY <1>10, <1>11 DEF RuleFails, Running
<1>12. ASSUME RulePanics \/ RuleUnwinds PROVE RunInv'
  BY <1>10, <1>12 DEF RulePanics, RuleUnwinds, Running, Delivering
<1>13. ASSUME NEW output \in Storage \cup {None}, RuleRefused(output) PROVE RunInv'
  BY <1>10, <1>13 DEF RuleRefused, Running
<1>14. ASSUME ReturnToCaller PROVE RunInv'
  BY <1>2, <1>14 DEF ReturnToCaller, graphVars, RunInv
<1> QED BY <1>4, <1>5, <1>6, <1>7, <1>8, <1>9, <1>11, <1>12, <1>13, <1>14, RuleCommitsReached
        DEF Continue

LEMMA RequestKeepsRun ==
    ASSUME CallInv, EdgeInv, FreshInv, RunInv, Request
    PROVE  RunInv'
<1>1. GraphTypeOK /\ CallTypeOK /\ NodesOK /\ NextIdUnused
  BY DEF CallInv, TypeOK, FreshInv, GraphFresh, EdgeInv
<1>2. Idle => frames = <<>>
  BY DEF CallInv, IdleOK
<1>3. <<>> \in Seq(ReachedFrame) /\ <<>> \in Seq(ReachedFrame')
  OBVIOUS
<1>4. \A n \in NodeId : Committed(n)
  BY DEF RunInv
<1>5. ASSUME UNCHANGED <<kind, value, rule, consumed>>, frames' \in Seq(ReachedFrame')
      PROVE  RunInv'
  BY <1>4, <1>5, CommittedStill DEF RunInv
\* The node of the call has no cache yet, or none any more, or is a source.
<1>6. ASSUME NEW id \in NodeId, Idle, UNCHANGED frames,
             kind'[id] = "Derived" => value'[id] = None,
             \A n \in NodeId \ {id} :
                 /\ kind'[n] = kind[n] /\ value'[n] = value[n] /\ rule'[n] = rule[n]
                 /\ consumed'[n] = consumed[n]
      PROVE  RunInv'
  <2>1. ASSUME NEW n \in NodeId PROVE Committed(n)'
    <3>1. CASE n = id
      BY <1>6, <3>1 DEF Committed
    <3>2. CASE n # id
      BY <1>4, <1>6, <3>2, CommittedStill
    <3> QED BY <3>1, <3>2
  <2> QED BY <1>2, <1>3, <1>6, <2>1 DEF RunInv
<1>7. ASSUME NEW v \in Storage, AddSource(v) PROVE RunInv'
  BY <1>1, <1>6, <1>7 DEF AddSource, GraphTypeOK, callVars
<1>8. ASSUME NEW r \in Rules, AddDerived(r) PROVE RunInv'
  <2>1. value[next_node_id] = None
    BY <1>1, <1>8, NodeIdAssumption DEF AddDerived, NextIdUnused, NodesOK
  <2> QED BY <1>1, <1>6, <1>8, <2>1 DEF AddDerived, GraphTypeOK, callVars
<1>9. ASSUME NEW id \in NodeId, NEW v \in Storage, SetSourceValue(id, v) PROVE RunInv'
  BY <1>1, <1>6, <1>9 DEF SetSourceValue, GraphTypeOK, callVars, nodeVars
<1>10. ASSUME NEW id \in NodeId, MarkChanged(id) PROVE RunInv'
  BY <1>2, <1>3, <1>5, <1>10 DEF MarkChanged, callVars, nodeVars
<1>11. ASSUME NEW id \in NodeId, RemoveNode(id) PROVE RunInv'
  BY <1>1, <1>6, <1>11 DEF RemoveNode, GraphTypeOK, callVars
<1>12. ASSUME NEW h \in Handle, ReadValue(h) PROVE RunInv'
  <2>1. Idle /\ Enters(h, <<>>) /\ UNCHANGED graphVars
    BY <1>12 DEF ReadValue, Enters
  <2>2. frames' \in Seq(ReachedFrame) /\ ReachedFrame' = ReachedFrame
    BY <1>1, <1>3, <2>1, EnterKeepsReached DEF graphVars, ReachedFrame
  <2> QED BY <1>5, <2>1, <2>2 DEF graphVars
<1>13. ASSUME NEW h \in Handle, UpdateNode(h) PROVE RunInv'
  <2>1. HandleError(h) \in Error /\ "NotDerived" \in Error
    BY DEF HandleError, Error
  <2>2. h \in Live => h \in NodeId /\ kind[h] \in {"Source", "Derived"}
    BY <1>1 DEF Live, GraphTypeOK
  <2>3. Idle /\ Enters(h, <<>>) /\ UNCHANGED graphVars
    BY <1>13, <2>1, <2>2 DEF UpdateNode, Enters
  <2>4. frames' \in Seq(ReachedFrame) /\ ReachedFrame' = ReachedFrame
    BY <1>1, <1>3, <2>3, EnterKeepsReached DEF graphVars, ReachedFrame
  <2> QED BY <1>5, <2>3, <2>4 DEF graphVars
<1> QED BY <1>7, <1>8, <1>9, <1>10, <1>11, <1>12, <1>13 DEF Request

-----------------------------------------------------------------------------
(***************************************************************************)
(* Clean caches are what calculating from scratch gives.                   *)
(***************************************************************************)
LEMMA ContentOfNode ==
    ASSUME GraphTypeOK, NEW n \in NodeId
    PROVE  /\ kind[n] = "Absent" => Cells[n] = None
           /\ kind[n] = "Source" => Cells[n] = [kind |-> "Source", holds |-> value[n]]
           /\ kind[n] = "Derived" => Cells[n] = [kind |-> "Derived", holds |-> rule[n]]
<1>1. Cells[n] = Content(n)
  BY DEF Cells
<1>2. kind[n] \in {"Absent", "Source", "Derived"}
  BY DEF GraphTypeOK
<1> QED BY <1>1, <1>2 DEF Content

\* The cells of nodes are not the absent cell.
LEMMA ContentIsThere ==
    ASSUME GraphTypeOK, NodesOK, NEW n \in NodeId, kind[n] # "Absent"
    PROVE  Cells[n] # None
<1>1. kind[n] \in {"Source", "Derived"} /\ value[n] \in Storage \cup {None}
  BY DEF GraphTypeOK
<1>2. CASE kind[n] = "Source"
  <2>1. value[n] \in Storage
    BY <1>1, <1>2 DEF NodesOK
  <2>2. [kind |-> "Source", holds |-> value[n]] \in [kind : {"Source"}, holds : Storage]
    BY <2>1
  <2> QED BY <1>2, <2>2, ContentOfNode, PromiseAssumption
<1>3. CASE kind[n] = "Derived"
  <2>1. rule[n] \in Rules
    BY <1>3, ConstantsAssumption DEF NodesOK
  <2>2. [kind |-> "Derived", holds |-> rule[n]] \in [kind : {"Derived"}, holds : Rules]
    BY <2>1
  <2> QED BY <1>3, <2>2, ContentOfNode, PromiseAssumption
<1> QED BY <1>1, <1>2, <1>3

LEMMA CellsOlder ==
    ASSUME SoundRules, GraphTypeOK, NodesOK
    PROVE  OlderCells(Cells)
<1> SUFFICES ASSUME NEW n \in NodeId, Cells[n] # None, Cells[n].kind # "Source"
             PROVE  /\ Handles(Cells[n].holds) \subseteq Handle
                    /\ \A h \in Handles(Cells[n].holds) : h \in NodeId => h < n
  BY DEF OlderCells
<1>1. kind[n] = "Derived" /\ Cells[n].holds = rule[n]
  <2>1. kind[n] \in {"Absent", "Source", "Derived"}
    BY DEF GraphTypeOK
  <2>2. /\ kind[n] = "Absent" => Cells[n] = None
        /\ kind[n] = "Source" => Cells[n] = [kind |-> "Source", holds |-> value[n]]
        /\ kind[n] = "Derived" => Cells[n] = [kind |-> "Derived", holds |-> rule[n]]
    BY ContentOfNode
  <2> QED BY <2>1, <2>2
<1>2. rule[n] \in DerivedRules(n) /\ rule[n] \in Rules
  BY <1>1, ConstantsAssumption DEF NodesOK
<1>3. \A h \in Handles(rule[n]) : h \in NodeId => h < n
  BY <1>2 DEF SoundRules, OlderHandles
<1> QED BY <1>1, <1>2, <1>3 DEF SoundRules, Deterministic

Fresh(n) == Promise!Calculated(n) = Promise!Value(value[n])

\* A node is fresh if the Clean nodes that are older than it are.
LEMMA OlderFreshNodeFresh ==
    ASSUME SoundRules, CallInv, FreshInv, RunInv, CleanIsCurrent, StaleEdgesPending,
           NEW n \in NodeId, state[n] = "Clean",
           \A d \in NodeId : d < n /\ state[d] = "Clean" => Fresh(d)
    PROVE  Fresh(n)
<1> DEFINE R == Promise!Results(Cells)
<1>1. GraphTypeOK /\ NodesOK /\ EdgesDescend /\ Committed(n)
  BY DEF CallInv, TypeOK, FreshInv, GraphFresh, RunInv
<1>2. \A h : Promise!Calculated(h) = R[h]
  BY DEF Promise!Calculated
<1>3. n \in Handle /\ n # Foreign
  BY ConstantsAssumption DEF Handle
<1>4. R[n] = Promise!ResultOf(n, Cells, R)
  BY <1>1, <1>3, CellsOlder, ResultsAreCalculated
<1>5. kind[n] \in {"Source", "Derived"} /\ Cells[n] # None
  <2>1. kind[n] # "Absent" /\ kind[n] \in {"Absent", "Source", "Derived"}
    BY <1>1 DEF NodesOK, GraphTypeOK
  <2> QED BY <1>1, <2>1, ContentIsThere
<1> HIDE DEF R
<1>6. CASE kind[n] = "Source"
  <2>1. Cells[n] = [kind |-> "Source", holds |-> value[n]]
    BY <1>1, <1>6, ContentOfNode
  <2>2. R[n] = Promise!Value(value[n])
    BY <1>3, <1>4, <1>5, <2>1 DEF Promise!ResultOf
  <2> QED BY <1>2, <2>2 DEF Fresh
<1>7. CASE kind[n] = "Derived"
  <2>1. Cells[n] = [kind |-> "Derived", holds |-> rule[n]]
    BY <1>1, <1>7, ContentOfNode
  <2>2. R[n] = Promise!Outcome(rule[n], Promise!SeenAtEnd(rule[n], R))
    BY <1>3, <1>4, <1>5, <2>1 DEF Promise!ResultOf
  <2>3. value[n] \in Storage /\ rule[n] \in Rules
    BY <1>1, <1>7, ConstantsAssumption DEF NodesOK, GraphTypeOK
  <2>4. /\ SeenBy(n) \in Reached(rule[n]) /\ value[n] \in Returns(rule[n], SeenBy(n))
        /\ value[n].value_type = ValueType(rule[n])
    BY <1>1, <1>7, <2>3, ConstantsAssumption DEF Committed
  <2>5. \A h \in Handle : SeenBy(n)[h] # None => SeenBy(n)[h] = R[h]
    <3> SUFFICES ASSUME NEW h \in Handle, SeenBy(n)[h] # None PROVE SeenBy(n)[h] = R[h]
      OBVIOUS
    <3>1. /\ h \in NodeId /\ consumed[n][h] # None
          /\ SeenBy(n)[h] = Promise!Value(consumed[n][h])
      BY DEF SeenBy
    <3>2. h \in active_dependencies[n] /\ consumed[n][h] = value[h]
      BY <3>1 DEF CleanIsCurrent
    <3>3. h < n /\ state[h] = "Clean"
      BY <1>1, <3>1, <3>2 DEF EdgesDescend, StaleEdgesPending
    <3> QED BY <1>2, <3>1, <3>2, <3>3 DEF Fresh
  <2>6. Deterministic(rule[n])
    BY <2>3 DEF SoundRules
  <2> QED BY <1>2, <2>2, <2>3, <2>4, <2>5, <2>6, OutputIsFresh DEF Fresh
<1> QED BY <1>5, <1>6, <1>7

LEMMA CleanNodesFresh ==
    ASSUME SoundRules, CallInv, FreshInv, RunInv
    PROVE  CleanIsFresh
<1>1. CleanIsCurrent /\ StaleEdgesPending
  BY FreshStates
<1>2. PICK b \in Nat : \A n \in NodeId : n <= b
  BY IdsBounded
<1> DEFINE N == b + 1
           H == {k \in 0 .. N : \A n \in NodeId : n < k /\ state[n] = "Clean" => Fresh(n)}
<1>3. \A n \in NodeId : n \in Nat
  BY NodeIdAssumption
<1>4. 0 \in H
  BY <1>2, <1>3
<1>5. ASSUME NEW k \in 1 .. N, k - 1 \in H PROVE k \in H
  <2> SUFFICES ASSUME NEW n \in NodeId, n < k, state[n] = "Clean" PROVE Fresh(n)
    OBVIOUS
  <2>1. \A d \in NodeId : d < n /\ state[d] = "Clean" => Fresh(d)
    BY <1>2, <1>3, <1>5
  <2> QED BY <1>1, <2>1, OlderFreshNodeFresh
<1>6. 0 .. N \subseteq H /\ N \in Nat
  <2>1. N \in Nat
    BY <1>2
  <2> HIDE DEF H, N
  <2> QED BY <1>4, <1>5, <2>1, UpTo
<1>7. \A n \in NodeId : state[n] = "Clean" => Fresh(n)
  BY <1>2, <1>3, <1>6
<1> QED BY <1>7 DEF CleanIsFresh, Fresh

-----------------------------------------------------------------------------
(***************************************************************************)
(* Every step of the graph is a step of the spreadsheet, or none.          *)
(***************************************************************************)
\* What is given to the caller is an answer that the promise allows.
AnswerFresh ==
    frames = <<>> /\ returning # None =>
        call # None /\ CallAnswer # None /\ CallAnswer \in Promise!Answers(call.node)

LEMMA AnswersAreFresh ==
    ASSUME CallInv, FreshInv, CleanIsFresh
    PROVE  AnswerFresh
<1> SUFFICES ASSUME frames = <<>>, returning # None
             PROVE  call # None /\ CallAnswer # None /\ CallAnswer \in Promise!Answers(call.node)
  BY DEF AnswerFresh
<1>1. call # None
  BY DEF CallInv, IdleOK, Idle
<1>2. CASE returning.status = "ok"
  <2>1. call.node \in NodeId /\ state[call.node] = "Clean" /\ value[call.node] # None
    BY <1>2 DEF FreshInv, StackOK, GraphFresh, NodesOK, Live
  <2>2. CallAnswer = Promise!Value(value[call.node])
    BY <1>2 DEF CallAnswer, Promise!Value
  <2>3. CallAnswer = Promise!Calculated(call.node)
    BY <2>1, <2>2 DEF CleanIsFresh
  <2>4. Promise!Calculated(call.node).error = None
    BY <2>2, <2>3 DEF Promise!Value
  <2>5. value[call.node] \in Storage
    BY <2>1 DEF CallInv, TypeOK, GraphTypeOK
  <2>6. CallAnswer \in Observation
    BY <2>2, <2>5 DEF Observation, Promise!Value
  <2> QED BY <1>1, <2>3, <2>4, <2>6, ConstantsAssumption DEF Promise!Answers
<1>3. CASE returning.status # "ok"
  <2>1. CallAnswer = Promise!Refused /\ CallAnswer \in [value : {None}, error : {"refused"}]
    BY <1>3 DEF CallAnswer, Promise!Refused, Promise!Failure
  <2> QED BY <1>1, <2>1, PromiseAssumption DEF Promise!Answers
<1> QED BY <1>2, <1>3

\* Only the consumer changes cells.
SameCells == Cells' = Cells /\ next_node_id' = next_node_id

LEMMA CellsStay ==
    ASSUME UNCHANGED <<kind, rule, next_node_id>>, GraphTypeOK,
           \A n \in NodeId : kind[n] = "Source" => value'[n] = value[n]
    PROVE  SameCells
<1>1. \A n \in NodeId : Content(n)' = Content(n)
  BY DEF Content, GraphTypeOK
<1> QED BY <1>1 DEF Cells, SameCells

LEMMA SameAnswers ==
    ASSUME SameCells, NEW h
    PROVE  Promise!Answers(h)' = Promise!Answers(h)
<1>1. Promise!Calculated(h)' = Promise!Calculated(h)
  BY DEF SameCells, Promise!Calculated
<1> QED BY <1>1 DEF Promise!Answers

\* Calls that evaluate nothing.
LEMMA WritesKeepPromise ==
    ASSUME CallInv, EdgeInv, FreshInv, Idle, UNCHANGED callVars,
           \/ \E v \in Storage : AddSource(v)
           \/ \E r \in Rules : AddDerived(r)
           \/ \E id \in NodeId, v \in Storage : SetSourceValue(id, v)
           \/ \E id \in NodeId : MarkChanged(id)
           \/ \E id \in NodeId : RemoveNode(id)
    PROVE  [Promise!Next]_(Promise!vars)
<1>1. GraphTypeOK /\ NodesOK
  BY DEF CallInv, TypeOK, FreshInv, GraphFresh
<1>2. /\ CallRequest = None /\ CallRequest' = CallRequest /\ CallAnswer' = CallAnswer
  <2>1. frames = <<>> /\ returning = None /\ call = None /\ UNCHANGED <<frames, returning, call>>
    BY DEF CallInv, IdleOK, Idle, callVars
  <2> QED BY <2>1 DEF CallRequest, CallAnswer
<1>3. \A n \in NodeId : Cells[n] = Content(n) /\ Cells'[n] = Content(n)'
  BY DEF Cells
<1>4. ASSUME NEW id \in NodeId, NEW cell,
             \A n \in NodeId : Content(n)' = IF n = id THEN cell ELSE Content(n)
      PROVE  Cells' = [Cells EXCEPT ![id] = cell]
  BY <1>4 DEF Cells
<1>5. ASSUME NEW v \in Storage, AddSource(v) PROVE Promise!Next
  <2>1. PICK id \in NodeId : id = next_node_id
    BY <1>5 DEF AddSource
  <2> DEFINE cell == [kind |-> "Source", holds |-> v]
  <2>2. \A n \in NodeId : Content(n)' = IF n = id THEN cell ELSE Content(n)
    BY <1>1, <1>5, <2>1 DEF AddSource, Content, GraphTypeOK
  <2>3. Cells' = [Cells EXCEPT ![id] = cell]
    BY <1>4, <2>2
  <2>4. Promise!Create(Promise!Source(v))
    BY <1>2, <1>5, <2>1, <2>3 DEF Promise!Create, Promise!Source, AddSource
  <2> QED BY <1>5, <2>4 DEF AddSource, Promise!Next
<1>6. ASSUME NEW r \in Rules, AddDerived(r) PROVE Promise!Next
  <2>1. PICK id \in NodeId : id = next_node_id
    BY <1>6 DEF AddDerived
  <2> DEFINE cell == [kind |-> "Derived", holds |-> r]
  <2>2. \A n \in NodeId : Content(n)' = IF n = id THEN cell ELSE Content(n)
    BY <1>1, <1>6, <2>1 DEF AddDerived, Content, GraphTypeOK
  <2>3. Cells' = [Cells EXCEPT ![id] = cell]
    BY <1>4, <2>2
  <2>4. Promise!Create(Promise!Derived(r))
    BY <1>2, <1>6, <2>1, <2>3 DEF Promise!Create, Promise!Derived, AddDerived
  <2> QED BY <1>6, <2>4 DEF AddDerived, Promise!Next
<1>7. ASSUME NEW id \in NodeId, NEW v \in Storage, SetSourceValue(id, v) PROVE Promise!Next
  <2> DEFINE cell == [kind |-> "Source", holds |-> v]
  <2>1. \A n \in NodeId : Content(n)' = IF n = id THEN cell ELSE Content(n)
    BY <1>1, <1>7 DEF SetSourceValue, Content, GraphTypeOK, nodeVars
  <2>2. Cells' = [Cells EXCEPT ![id] = cell]
    BY <1>4, <2>1
  <2>3. Cells[id] # None /\ Cells[id] = [kind |-> "Source", holds |-> value[id]]
    BY <1>1, <1>7, ContentIsThere, ContentOfNode DEF SetSourceValue
  <2>4. Promise!Write(id, v)
    BY <1>2, <1>7, <2>2, <2>3
       DEF Promise!Write, Promise!Live, Promise!IsSource, Promise!Source, SetSourceValue, nodeVars
  <2> QED BY <2>4 DEF Promise!Next
<1>8. ASSUME NEW id \in NodeId, MarkChanged(id) PROVE UNCHANGED Promise!vars
  <2>1. SameCells
    BY <1>1, <1>8, CellsStay DEF MarkChanged, nodeVars
  <2> QED BY <1>2, <2>1 DEF SameCells, Promise!vars
<1>9. ASSUME NEW id \in NodeId, RemoveNode(id) PROVE Promise!Next
  <2>1. \A n \in NodeId : Content(n)' = IF n = id THEN None ELSE Content(n)
    BY <1>1, <1>9 DEF RemoveNode, Content, GraphTypeOK
  <2>2. Cells' = [Cells EXCEPT ![id] = None]
    BY <1>4, <2>1
  <2>3. Cells[id] # None
    BY <1>1, <1>9, ContentIsThere DEF RemoveNode, Live
  <2>4. Promise!Remove(id)
    BY <1>2, <1>9, <2>2, <2>3 DEF Promise!Remove, Promise!Live, RemoveNode
  <2> QED BY <2>4 DEF Promise!Next
<1> QED BY <1>5, <1>6, <1>7, <1>8, <1>9

\* A call begins, with an answer or without.
LEMMA CallsKeepPromise ==
    ASSUME CallInv, FreshInv, AnswerFresh', NEW h \in Handle, ReadValue(h) \/ UpdateNode(h)
    PROVE  Promise!Next
<1>1. /\ Idle /\ UNCHANGED graphVars /\ call' # None /\ call'.node = h
  <2>1. call' \in [op : {"read", "update"}, node : Handle] /\ call'.node = h
    BY DEF ReadValue, UpdateNode
  <2> QED BY <2>1, ConstantsAssumption DEF ReadValue, UpdateNode, Call
<1>2. SameCells
  BY <1>1, CellsStay DEF graphVars, CallInv, TypeOK
<1>3. CallRequest = None /\ CallRequest' = h
  BY <1>1 DEF CallRequest, Idle
<1>4. CallAnswer' \in {None} \cup Promise!Answers(h)
  <2>1. CASE CallAnswer' = None
    BY <2>1
  <2>2. CASE CallAnswer' # None
    <3>1. frames' = <<>> /\ returning' # None
      BY <2>2 DEF CallAnswer
    <3>2. CallAnswer' \in Promise!Answers(h)'
      BY <1>1, <3>1 DEF AnswerFresh
    <3> QED BY <1>2, <3>2, SameAnswers
  <2> QED BY <2>1, <2>2
<1>5. Promise!Ask(h)
  BY <1>2, <1>3, <1>4 DEF SameCells, Promise!Ask
<1> QED BY <1>5 DEF Promise!Next, Promise!Handle, Handle

\* A call goes on: the promise sees nothing of it until it answers.
LEMMA WorkKeepsPromise ==
    ASSUME CallInv, FreshInv, AnswerFresh', Continue, ~ReturnToCaller
    PROVE  [Promise!Next]_(Promise!vars)
<1>1. frames # <<>> /\ UNCHANGED call
  BY DEF Continue, ValidateDependency, DependencyValidated, ValidationRecomputes,
         ValidationSettles, ValidationFails, RuleReads, RuleObserves, RuleFails, RulePanics,
         RuleUnwinds, RuleRefused, RuleCommits, Abandon, Running, Delivering
<1>2. call # None /\ call.node \in Handle /\ call.node # None
  BY <1>1, ConstantsAssumption DEF CallInv, IdleOK, Idle, TypeOK, CallTypeOK, Call
<1>3. GraphTypeOK
  BY DEF CallInv, TypeOK
<1>4. SameCells
  <2>1. ASSUME UNCHANGED graphVars PROVE SameCells
    BY <1>3, <2>1, CellsStay DEF graphVars
  <2>2. ASSUME ValidationSettles PROVE SameCells
    BY <1>3, <2>2, CellsStay DEF ValidationSettles, nodeVars
  <2>3. ASSUME NEW output \in Storage \cup {None}, RuleCommits(output) PROVE SameCells
    <3>1. kind[Top.node] = "Derived" /\ value' = [value EXCEPT ![Top.node] = output]
      BY <1>1, <2>3, TopFacts DEF RuleCommits
    <3>2. \A n \in NodeId : kind[n] = "Source" => value'[n] = value[n]
      BY <1>3, <3>1 DEF GraphTypeOK
    <3> QED BY <1>3, <2>3, <3>2, CellsStay DEF RuleCommits, nodeVars
  <2> QED BY <2>1, <2>2, <2>3
          DEF Continue, ValidateDependency, DependencyValidated, ValidationRecomputes,
              ValidationFails, RuleReads, RuleObserves, RuleFails, RulePanics, RuleUnwinds,
              RuleRefused, Abandon
<1>5. CallAnswer = None /\ CallRequest = call.node /\ CallRequest' = CallRequest
  BY <1>1, <1>2 DEF CallAnswer, CallRequest
<1>6. CASE CallAnswer' = None
  BY <1>4, <1>5, <1>6 DEF SameCells, Promise!vars
<1>7. CASE CallAnswer' # None
  <2>1. PICK h \in Handle : h = call.node
    BY <1>2
  <2>2. frames' = <<>> /\ returning' # None
    BY <1>7 DEF CallAnswer
  <2>3. CallAnswer' \in Promise!Answers(h)'
    BY <1>1, <2>1, <2>2 DEF AnswerFresh
  <2>4. CallAnswer' \in Promise!Answers(h)
    BY <1>4, <2>3, SameAnswers
  <2>5. Promise!Work
    BY <1>2, <1>4, <1>5, <2>1, <2>4 DEF SameCells, Promise!Work
  <2> QED BY <2>5 DEF Promise!Next
<1> QED BY <1>6, <1>7

LEMMA ReplyKeepsPromise ==
    ASSUME CallInv, FreshInv, AnswerFresh, ReturnToCaller
    PROVE  Promise!Next
<1>1. GraphTypeOK
  BY DEF CallInv, TypeOK
<1>2. SameCells
  BY <1>1, CellsStay DEF ReturnToCaller, graphVars
<1>3. CallAnswer # None
  BY DEF AnswerFresh, ReturnToCaller
<1>4. CallRequest' = None /\ CallAnswer' = None
  BY DEF ReturnToCaller, CallRequest, CallAnswer
<1>5. Promise!Reply
  BY <1>2, <1>3, <1>4 DEF SameCells, Promise!Reply
<1> QED BY <1>5 DEF Promise!Next

LEMMA StepKeepsPromise ==
    ASSUME CallInv, EdgeInv, FreshInv, AnswerFresh, AnswerFresh', [Next]_vars
    PROVE  [Promise!Next]_(Promise!vars)
<1>1. CASE Request
  <2>1. ASSUME NEW h \in Handle, ReadValue(h) \/ UpdateNode(h) PROVE Promise!Next
    BY <2>1, CallsKeepPromise
  <2> QED BY <1>1, <2>1, WritesKeepPromise
          DEF Request, AddSource, AddDerived, SetSourceValue, MarkChanged, RemoveNode
<1>2. CASE Continue
  BY <1>2, WorkKeepsPromise, ReplyKeepsPromise
<1>3. CASE UNCHANGED vars
  <2>1. UNCHANGED <<kind, value, rule, next_node_id, call, frames, returning>>
    BY <1>3 DEF vars, graphVars, callVars
  <2>2. SameCells
    BY <2>1, CellsStay DEF CallInv, TypeOK
  <2>3. CallRequest' = CallRequest /\ CallAnswer' = CallAnswer
    BY <2>1 DEF CallRequest, CallAnswer
  <2> QED BY <2>2, <2>3 DEF SameCells, Promise!vars
<1> QED BY <1>1, <1>2, <1>3 DEF Next

LEMMA InitKeepsPromise == Init => Promise!Init
<1> SUFFICES ASSUME Init PROVE Promise!Init
  OBVIOUS
<1>1. Cells = [n \in NodeId |-> None]
  BY DEF Init, Cells, Content
<1>2. CallRequest = None /\ CallAnswer = None
  BY DEF Init, CallRequest, CallAnswer
<1> QED BY <1>1, <1>2 DEF Init, Promise!Init

-----------------------------------------------------------------------------
(***************************************************************************)
(* The theorems about the promise.                                         *)
(***************************************************************************)
LEMMA RunsAreReached == ASSUME SoundRules PROVE Spec => [](CallInv /\ EdgeInv /\ FreshInv /\ RunInv)
<1> DEFINE Inv == CallInv /\ EdgeInv /\ FreshInv
<1>1. OlderHandles
  BY DEF SoundRules
<1>2. Init => RunInv
  BY DEF Init, RunInv, Committed
<1>3. Inv /\ Inv' /\ RunInv /\ [Next]_vars => RunInv'
  <2>1. ASSUME Inv, RunInv, UNCHANGED vars PROVE RunInv'
    <3>1. UNCHANGED <<kind, value, rule, consumed, frames>>
      BY <2>1 DEF vars, graphVars, callVars
    <3>2. \A n \in NodeId : Committed(n)'
      BY <2>1, <3>1, CommittedStill DEF RunInv
    <3>3. ReachedFrame' = ReachedFrame
      BY <3>1 DEF ReachedFrame
    <3> QED BY <2>1, <3>1, <3>2, <3>3 DEF RunInv
  <2> QED BY <2>1, RequestKeepsRun, ContinueKeepsRun DEF Next
<1> QED BY <1>1, <1>2, <1>3, FreshnessKept, PTL DEF Spec

\* "Clean: the cache is current", in the strongest sense: at rest and in the middle of any
\* call, a Clean node caches what calculating it from the sources up would give.
THEOREM CachesFresh == ASSUME SoundRules PROVE Spec => []CleanIsFresh
<1>1. CallInv /\ EdgeInv /\ FreshInv /\ RunInv => CleanIsFresh
  BY CleanNodesFresh
<1> QED BY <1>1, RunsAreReached, PTL

\* To its consumer an attribute graph is a spreadsheet: whatever it caches, marks, validates
\* and retries, every call is answered with the fresh value or refused.
THEOREM GraphIsSpreadsheet == ASSUME SoundRules PROVE Spec => ReadsAreFresh
<1> DEFINE Inv == CallInv /\ EdgeInv /\ FreshInv /\ AnswerFresh
<1>1. CallInv /\ EdgeInv /\ FreshInv /\ RunInv => Inv
  BY CleanNodesFresh, AnswersAreFresh
<1>2. Inv /\ Inv' /\ [Next]_vars => [Promise!Next]_(Promise!vars)
  BY StepKeepsPromise
<1> QED BY <1>1, <1>2, InitKeepsPromise, RunsAreReached, PTL DEF Spec, ReadsAreFresh, Promise!Spec

-----------------------------------------------------------------------------
(***************************************************************************)
(* Outcomes of updates.                                                    *)
(***************************************************************************)
\* Nothing has been reported, because nothing has happened to the node of the call.
CallMade ==
    /\ outcome = NothingNew
    /\ before = [dependencies |-> active_dependencies[call.node], value |-> value[call.node]]

\* What OutcomeTellsTheDifference says of a node n with an outcome.
Tells(n) ==
    /\ outcome.added \cap before.dependencies = {}
    /\ outcome.removed \subseteq before.dependencies
    /\ active_dependencies[n] = (before.dependencies \ outcome.removed) \cup outcome.added
    /\ outcome.retained \in {{}, before.dependencies \cap active_dependencies[n]}
    /\ IF outcome.value_changed THEN MeaningfullyChanged(value[n], before.value)
                                ELSE value[n].bytes = before.value.bytes
    /\ outcome.dirtied_dependents = IF outcome.value_changed THEN dependents[n] ELSE {}
    /\ \A d \in outcome.dirtied_dependents : state[d] = "Dirty"

\* The result is on its way to the caller.
ToCaller == frames = <<>> /\ returning # None

OutcomeInv ==
    call # None /\ call.op = "update" =>
        \/ CallMade
        \/ ToCaller /\ (returning.status = "ok" => Tells(call.node))

GraphInv == CallInv /\ EdgeInv /\ FreshInv

-----------------------------------------------------------------------------
LEMMA NothingNewTells ==
    ASSUME CallMade
    PROVE  Tells(call.node)
BY DEF CallMade, Tells, NothingNew

\* The node that a callback runs for is that of the call, or older.
LEMMA OlderThanCall ==
    ASSUME CallInv, FreshInv, Running("evaluate")
    PROVE  /\ Len(frames) = 1 => call.node = Top.node /\ Front(frames) = <<>>
           /\ Len(frames) # 1 => call.node \in NodeId \ {Top.node}
<1> DEFINE fs == Front(frames)
<1>1. /\ frames # <<>> /\ returning = None /\ frames \in Seq(Frame) /\ Top.node \in NodeId
  BY TopFacts DEF Running
<1>2. fs \in Seq(Frame) /\ Len(fs) = Len(frames) - 1 /\ Len(frames) \in Nat \ {0}
  BY <1>1, StackTop
<1>3. Waiting(fs, Top.node, FALSE, FALSE) /\ CallAt(fs, Top.node)
  BY <1>1, RunningTop DEF FreshInv
<1>4. \A i \in DOMAIN fs : fs[i].node \in NodeId /\ Top.node < fs[i].node
  BY <1>1, <1>2, <1>3, WaitingAbove
<1> HIDE DEF fs
<1>5. CASE Len(frames) = 1
  <2>1. fs = <<>>
    BY <1>2, <1>5
  <2> QED BY <1>3, <1>5, <2>1 DEF CallAt, Bottom, fs
<1>6. CASE Len(frames) # 1
  <2>1. fs # <<>> /\ 1 \in DOMAIN fs
    BY <1>2, <1>6
  <2>2. call.node = fs[1].node
    BY <1>3, <2>1 DEF CallAt, Bottom
  <2>3. Top.node \in Nat /\ fs[1].node \in Nat
    BY <1>1, <1>4, <2>1, NodeIdAssumption
  <2> QED BY <1>4, <1>6, <2>1, <2>2, <2>3
<1> QED BY <1>5, <1>6

\* The commit of the node that the caller asked for reports what it changed.
LEMMA CommitTells ==
    ASSUME GraphInv, CallInv', EdgeInv', CallMade, call.op = "update",
           NEW output \in Storage \cup {None}, Commits(output), Len(frames) = 1
    PROVE  OutcomeInv'
<1>1. PICK n \in NodeId : n = Top.node /\ n = call.node
  BY OlderThanCall, TopFacts DEF GraphInv, Commits, RuleCommits, Running
<1>2. PICK reads : reads = Top.dependencies_read
  OBVIOUS
<1>3. PICK changed \in BOOLEAN :
         /\ BroughtUpToDate(n, changed)
         /\ returning' = Ok(changed)
         /\ changed \/ value'[n] = value[n]
  BY <1>1, CommitBringsUpToDate DEF GraphInv, Commits
<1>4. /\ RuleCommits(output) /\ call' = call /\ frames' = <<>>
      /\ returning = None /\ frames # <<>> /\ Top.op = "evaluate"
      /\ active_dependencies' = [active_dependencies EXCEPT ![n] = reads]
      /\ dependents' = DependentsAfterCommit(n, reads)
      /\ value' = [value EXCEPT ![n] = output]
      /\ before' = before
  BY <1>1, <1>2, OlderThanCall DEF GraphInv, Commits, RuleCommits, Running
<1>5. changed = MeaningfullyChanged(output, Top.old_value)
  <2>1. returning' = Ok(MeaningfullyChanged(output, Top.old_value))
    BY <1>4 DEF RuleCommits
  <2> QED BY <1>3, <2>1 DEF Ok
<1>6. returning'.value_changed = changed
  BY <1>3 DEF Ok
<1>7. outcome' = CommitOutcome(n, reads, changed)
  BY <1>1, <1>2, <1>6 DEF Commits, OutcomeOfCall
<1>8. /\ outcome'.added = reads \ active_dependencies[n]
      /\ outcome'.removed = active_dependencies[n] \ reads
      /\ outcome'.retained = active_dependencies[n] \cap reads
      /\ outcome'.value_changed = changed
      /\ outcome'.dirtied_dependents = IF changed THEN dependents[n] ELSE {}
  BY <1>7 DEF CommitOutcome, DependencyChanges
<1>9. before'.dependencies = active_dependencies[n] /\ before'.value = value[n]
  BY <1>1, <1>4 DEF CallMade
<1>10. /\ Top.old_value = value[n]
       /\ \A d \in reads : d < n
  BY <1>1, <1>2, <1>4, RunningTop DEF GraphInv, FreshInv, FrameRuns, EvaluateOK
<1>11. GraphTypeOK /\ GraphTypeOK' /\ EdgesMirror /\ EdgesMirror' /\ GraphFresh
  BY DEF GraphInv, CallInv, TypeOK, EdgeInv, FreshInv
<1>12. active_dependencies'[n] = reads /\ value'[n] = output
  BY <1>4, <1>11 DEF GraphTypeOK
<1>13. dependents'[n] = dependents[n]
  <2>1. n \notin reads /\ n \notin active_dependencies[n]
    BY <1>10, <1>11, NodeIdAssumption DEF GraphFresh, EdgesDescend
  <2> QED BY <1>4, <2>1 DEF DependentsAfterCommit
<1>14. changed => \A d \in dependents[n] : state'[d] = "Dirty"
  <2>1. \A m \in NodeId \ {n} : KeptBeside(n, changed, m)
    BY <1>3, <1>11, BroughtUpToDateStates DEF GraphFresh
  <2>2. \A d \in dependents[n] : d \in NodeId \ {n} /\ n \in active_dependencies[d]
    BY <1>11, NodeIdAssumption DEF EdgesMirror, GraphFresh, EdgesDescend, GraphTypeOK
  <2> QED BY <2>1, <2>2 DEF KeptBeside
<1>15. IF changed THEN MeaningfullyChanged(value'[n], before'.value)
                  ELSE value'[n].bytes = before'.value.bytes
  BY <1>3, <1>5, <1>9, <1>10, <1>12
<1>16. returning' # None
  <2>1. returning' \in Outcome
    BY <1>3 DEF Outcome
  <2> QED BY <2>1, ConstantsAssumption
<1>17. Tells(call.node)'
  BY <1>1, <1>4, <1>8, <1>9, <1>12, <1>13, <1>14, <1>15 DEF Tells
<1> QED BY <1>4, <1>16, <1>17 DEF OutcomeInv, ToCaller

\* A step that leaves the node of the call and its outcome alone.
LEMMA CallStillMade ==
    ASSUME CallMade, UNCHANGED <<outcomeVars, call>>,
           active_dependencies'[call.node] = active_dependencies[call.node],
           value'[call.node] = value[call.node]
    PROVE  CallMade'
BY DEF CallMade, outcomeVars

LEMMA CommitsKeepsOutcome ==
    ASSUME GraphInv, CallInv', EdgeInv', OutcomeInv,
           NEW output \in Storage \cup {None}, Commits(output)
    PROVE  OutcomeInv'
<1>1. /\ RuleCommits(output) /\ call' = call /\ Running("evaluate") /\ before' = before
      /\ frames # <<>> /\ frames \in Seq(Frame)
  BY TopFacts DEF GraphInv, Commits, RuleCommits, Running
<1>2. SUFFICES ASSUME call # None, call.op = "update" PROVE OutcomeInv'
  BY <1>1 DEF OutcomeInv
<1>3. CallMade
  BY <1>1, <1>2 DEF OutcomeInv, ToCaller
<1>4. CASE Len(frames) = 1
  BY <1>2, <1>3, <1>4, CommitTells
<1>5. CASE Len(frames) # 1
  <2>1. Top.node \in NodeId /\ call.node \in NodeId \ {Top.node}
    BY <1>1, <1>5, OlderThanCall, TopFacts DEF GraphInv
  <2>2. /\ active_dependencies' = [active_dependencies EXCEPT ![Top.node] = Top.dependencies_read]
        /\ value' = [value EXCEPT ![Top.node] = output]
    BY <1>1 DEF RuleCommits
  <2>3. /\ active_dependencies'[call.node] = active_dependencies[call.node]
        /\ value'[call.node] = value[call.node]
    BY <2>1, <2>2 DEF GraphInv, CallInv, TypeOK, GraphTypeOK
  <2>4. UNCHANGED <<outcomeVars, call>>
    BY <1>1, <1>5 DEF Commits, OutcomeOfCall, outcomeVars
  <2> QED BY <1>3, <2>3, <2>4, CallStillMade DEF OutcomeInv
<1> QED BY <1>4, <1>5

\* While a call is in progress, nothing but a commit changes a node.
LEMMA OtherStepsKeepOutcome ==
    ASSUME GraphInv, OutcomeInv, Elsewhere
    PROVE  OutcomeInv'
<1>1. UNCHANGED outcomeVars
  BY DEF Elsewhere
<1>2. ASSUME Idle, call' = None \/ call'.op = "read" PROVE OutcomeInv'
  BY <1>2 DEF OutcomeInv
<1>3. ASSUME frames # <<>>, UNCHANGED <<active_dependencies, value, call>> PROVE OutcomeInv'
  <2>1. SUFFICES ASSUME call # None, call.op = "update" PROVE CallMade'
    BY <1>3 DEF OutcomeInv
  <2>2. CallMade
    BY <1>3, <2>1 DEF OutcomeInv, ToCaller
  <2> QED BY <1>1, <1>3, <2>2, CallStillMade
<1>4. ASSUME Idle, UNCHANGED callVars PROVE OutcomeInv'
  BY <1>2, <1>4 DEF callVars, Idle
<1>5. ASSUME NEW v \in Storage, AddSource(v) \/ \E id \in NodeId : SetSourceValue(id, v)
       PROVE  OutcomeInv'
  BY <1>4, <1>5 DEF AddSource, SetSourceValue
<1>6. ASSUME NEW r \in Rules, AddDerived(r) PROVE OutcomeInv'
  BY <1>4, <1>6 DEF AddDerived
<1>7. ASSUME NEW id \in NodeId, MarkChanged(id) \/ RemoveNode(id) PROVE OutcomeInv'
  BY <1>4, <1>7 DEF MarkChanged, RemoveNode
<1>8. ASSUME NEW h \in Handle, ReadValue(h) PROVE OutcomeInv'
  BY <1>2, <1>8 DEF ReadValue
<1>9. CASE ValidateDependency \/ DependencyValidated \/ ValidationRecomputes \/ ValidationFails
  BY <1>3, <1>9 DEF ValidateDependency, DependencyValidated, ValidationRecomputes,
                    ValidationFails, Running, Delivering, graphVars
<1>10. CASE ValidationSettles
  BY <1>3, <1>10 DEF ValidationSettles, Running
<1>11. ASSUME NEW h \in Handle, RuleReads(h) PROVE OutcomeInv'
  BY <1>3, <1>11 DEF RuleReads, Running, graphVars
<1>12. CASE RuleObserves
  BY <1>3, <1>12 DEF RuleObserves, Delivering, graphVars
<1>13. ASSUME frames # <<>>, NEW r, Abandon(r) PROVE OutcomeInv'
  BY <1>3, <1>13 DEF Abandon, graphVars
<1>14. ASSUME NEW e \in Error, RuleFails(e) PROVE OutcomeInv'
  BY <1>13, <1>14 DEF RuleFails, Running
<1>15. CASE RulePanics \/ RuleUnwinds
  BY <1>13, <1>15 DEF RulePanics, RuleUnwinds, Running, Delivering
<1>16. ASSUME NEW output \in Storage \cup {None}, RuleRefused(output) PROVE OutcomeInv'
  BY <1>13, <1>16 DEF RuleRefused, Running
<1> QED BY <1>5, <1>6, <1>7, <1>8, <1>9, <1>10, <1>11, <1>12, <1>14, <1>15, <1>16
        DEF Elsewhere

LEMMA UpdateBeginsKeepsOutcome ==
    ASSUME GraphInv, NEW h \in Handle, UpdateBegins(h)
    PROVE  OutcomeInv'
<1>1. /\ call'.node = h /\ UNCHANGED graphVars /\ outcome' = NothingNew
  BY DEF UpdateBegins, UpdateNode
<1>2. CASE h \in Live
  BY <1>1, <1>2 DEF UpdateBegins, OutcomeInv, CallMade, NothingNew, graphVars
<1>3. CASE h \notin Live
  <2>1. frames' = <<>> /\ returning' = Err(HandleError(h))
    BY <1>3 DEF UpdateBegins, UpdateNode, Answer
  <2>2. returning' \in Outcome /\ returning'.status = "error"
    BY <2>1 DEF Outcome, Err, HandleError, Error
  <2> QED BY <2>1, <2>2, ConstantsAssumption DEF OutcomeInv, ToCaller
<1> QED BY <1>2, <1>3

LEMMA OutcomeStepIsStep ==
    ASSUME [OutcomeNext]_<<vars, outcomeVars>>
    PROVE  [Next]_vars
BY DEF OutcomeNext, UpdateBegins, Commits, UpdateEnds, Elsewhere, Next, Request, Continue

LEMMA StepKeepsOutcome ==
    ASSUME GraphInv, CallInv', EdgeInv', OutcomeInv, [OutcomeNext]_<<vars, outcomeVars>>
    PROVE  OutcomeInv'
<1>1. CASE UNCHANGED <<vars, outcomeVars>>
  BY <1>1 DEF OutcomeInv, CallMade, ToCaller, Tells, vars, graphVars, callVars, outcomeVars
<1>2. CASE UpdateEnds
  BY <1>2 DEF UpdateEnds, ReturnToCaller, OutcomeInv
<1> QED BY <1>1, <1>2, UpdateBeginsKeepsOutcome, CommitsKeepsOutcome, OtherStepsKeepOutcome
        DEF OutcomeNext

-----------------------------------------------------------------------------
\* With rules that hold handles of older nodes only, an outcome is the difference that the
\* whole call of update_node made to its node, whatever nodes were evaluated on the way.
THEOREM OutcomesTellTheDifference ==
    ASSUME OlderHandles PROVE OutcomeSpec => []OutcomeTellsTheDifference
<1>1. OutcomeInit => GraphInv /\ OutcomeInv
  <2>1. Init => EdgeInv
    BY DEF Init, EdgeInv, NextIdUnused, EdgesMirror
  <2>2. OutcomeInit => OutcomeInv
    BY DEF OutcomeInit, Init, OutcomeInv
  <2> QED BY <2>1, <2>2, InitCallInv, InitFresh DEF OutcomeInit, GraphInv
<1>2. GraphInv /\ OutcomeInv /\ [OutcomeNext]_<<vars, outcomeVars>>
      => GraphInv' /\ OutcomeInv'
  <2> SUFFICES ASSUME GraphInv, OutcomeInv, [OutcomeNext]_<<vars, outcomeVars>>
               PROVE  GraphInv' /\ OutcomeInv'
    OBVIOUS
  <2>1. [Next]_vars
    BY OutcomeStepIsStep
  <2>2. CallInv' /\ EdgeInv'
    BY <2>1, StepKeepsCallInv, StepKeepsEdges DEF GraphInv
  <2> QED BY <2>1, <2>2, StepKeepsFresh, StepKeepsOutcome DEF GraphInv
<1>3. GraphInv /\ OutcomeInv => OutcomeTellsTheDifference
  <2> SUFFICES ASSUME GraphInv, OutcomeInv, frames = <<>>, returning # None,
                      returning.status = "ok", call.op = "update"
               PROVE  Tells(call.node)
    BY DEF OutcomeTellsTheDifference, Tells
  <2>1. call # None
    BY DEF GraphInv, CallInv, IdleOK, Idle
  <2> QED BY <2>1, NothingNewTells DEF OutcomeInv
<1> QED BY <1>1, <1>2, <1>3, PTL DEF OutcomeSpec
=============================================================================
