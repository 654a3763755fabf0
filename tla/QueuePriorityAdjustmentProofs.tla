-------------------- MODULE QueuePriorityAdjustmentProofs ---------------------
(***************************************************************************)
(* Proofs about QueuePriorityAdjustment, for any workpieces, models,       *)
(* recipes and answers of the external system.  The argument: the check    *)
(* touches the machine in one step only, so that the invariant of          *)
(* MachineOperations has to be shown again for that step alone; the        *)
(* profile found at the beginning of the call stays the profile, since a   *)
(* session that was resolved never takes another; and the gateway accepts  *)
(* a write for the version the machine has, which is then gone for good.   *)
(*                                                                         *)
(* What the plan is follows in a second layer: the answer fits the request *)
(* one to one, since there are as many results as workpieces and no        *)
(* workpiece has two; the groups of the new order are filled position by   *)
(* position, so that a place in it is a number of workpieces that come     *)
(* before, which is how the properties say where a workpiece belongs.      *)
(***************************************************************************)
EXTENDS QueuePriorityAdjustment, MachineOperationsProofs, FiniteSetTheorems,
        SequenceTheorems, WellFoundedInduction

(* The steps at which the call is prepared, made, read and used.           *)
Asking == {"sending", "calling", "answered", "parsing", "parsed", "planning",
           "planned", "writing", "reading"}

CheckSteps == Asking \cup {"none", "prepared", "submitted", "validating",
                           "serializing", "done"}

CheckCodes == {"Conflict", "InvalidArgument", "InvalidResponse", "Rejected",
               "Unavailable", "UnsupportedData"}

CheckTypes ==
    /\ DOMAIN check = DOMAIN NotChecked
    /\ check.step \in CheckSteps
    /\ check.version \in Nat
    /\ check.writes \in {0, 1}

(* There is a snapshot from the first request on.                          *)
SnapshotThere == check.step # "none" => store # Nothing

(* The worker has taken nothing up while it checks.                        *)
WorkerIsChecking == Checking => job.step = "idle"

(* The call is made, read and used for one profile, that of the session:   *)
(* the comparison of ConfirmSameProfile (166-178) never finds another.     *)
OneProfile ==
    check.step \in Asking => session # "Unresolved" /\ profile = check.model

(* What the check reports is what it did: an order that was changed was    *)
(* written once, one that was not changed was not written, and of all the  *)
(* errors only InvalidResponse may have written (Execute 30-148).          *)
CheckWritesFit ==
    /\ check.step \notin {"done", "reading"} => check.writes = 0
    /\ check.step = "reading" => check.writes = 1
    /\ check.step = "done" =>
          /\ check.outcome \in CheckCodes \cup {"changed", "unchanged"}
          /\ check.outcome = "changed" => check.writes = 1
          /\ check.writes = 1 => check.outcome \in {"changed", "InvalidResponse"}

(* The check is one of the writers: of the check and all the operations of *)
(* one version of the snapshot, the machine accepts at most one.           *)
CheckIsOneOfTheWriters ==
    check.writes = 1 =>
        /\ check.version < machine.version
        /\ \A i \in 1 .. Len(operations) :
              effects[i] # 0 => operations[i].version # check.version

CheckInv ==
    /\ CheckTypes /\ SnapshotThere /\ WorkerIsChecking
    /\ OneProfile /\ CheckWritesFit /\ CheckIsOneOfTheWriters
-----------------------------------------------------------------------------
(* Counting up from zero reaches every number: of the numbers not reached  *)
(* there would be a least one.                                             *)
LEMMA CountingUp ==
    ASSUME NEW n \in Nat, NEW T \in SUBSET (0 .. n), 0 \in T,
           \A m \in T : m < n => m + 1 \in T
    PROVE  \A m \in 0 .. n : m \in T
<1> SUFFICES ASSUME NEW bad \in (0 .. n) \ T PROVE FALSE
  OBVIOUS
<1> DEFINE Missed == {0 .. k : k \in (0 .. n) \ T}
<1>1. Missed \subseteq FiniteSubsetsOf(Nat)
  <2> SUFFICES ASSUME NEW k \in 0 .. n PROVE 0 .. k \in FiniteSubsetsOf(Nat)
    OBVIOUS
  <2>1. k \in Int /\ 0 \in Int
    OBVIOUS
  <2>2. IsFiniteSet(0 .. k)
    BY <2>1, FS_Interval
  <2>3. 0 .. k \in SUBSET Nat
    OBVIOUS
  <2> QED
    BY <2>2, <2>3 DEF FiniteSubsetsOf
<1>2. Missed # {}
  OBVIOUS
<1>3. PICK x \in Missed : \A y \in Missed : ~ (<<y, x>> \in StrictSubsetOrdering(Nat))
  <2>1. IsWellFoundedOn(StrictSubsetOrdering(Nat), FiniteSubsetsOf(Nat))
    BY FS_StrictSubsetOrderingWellFounded
  <2> HIDE DEF Missed
  <2> QED
    BY <1>1, <1>2, <2>1, WFMin
<1>4. PICK k \in (0 .. n) \ T : x = 0 .. k
  BY <1>3
<1>5. k # 0 /\ k \in 1 .. n /\ k - 1 \in 0 .. n /\ k - 1 < n /\ (k - 1) + 1 = k
  BY <1>4
<1>6. k - 1 \notin T
  BY <1>4, <1>5
<1>7. 0 .. (k - 1) \in Missed
  BY <1>5, <1>6
<1>8. 0 .. (k - 1) \subseteq 0 .. k /\ 0 .. (k - 1) # 0 .. k
  <2>1. k \in 0 .. k /\ k \notin 0 .. (k - 1)
    BY <1>5
  <2>2. 0 .. (k - 1) \subseteq 0 .. k
    BY <1>5
  <2> QED
    BY <2>1, <2>2
<1>9. <<0 .. (k - 1), x>> \in StrictSubsetOrdering(Nat)
  <2>1. 0 .. (k - 1) \in SUBSET Nat /\ x \in SUBSET Nat
    BY <1>4, <1>5
  <2> QED
    BY <1>4, <1>8, <2>1 DEF StrictSubsetOrdering
<1> QED
  BY <1>3, <1>7, <1>9

(* How many of the chosen positions there are up to k.                     *)
Rank(chosen, k) == Cardinality({q \in chosen : q <= k})

LEMMA RankCounts ==
    ASSUME NEW n \in Nat, NEW chosen \in SUBSET (1 .. n)
    PROVE  /\ IsFiniteSet(chosen) /\ Cardinality(chosen) \in Nat
           /\ \A k \in 0 .. n : Rank(chosen, k) \in Nat
           /\ Rank(chosen, 0) = 0
           /\ Rank(chosen, n) = Cardinality(chosen)
           /\ \A k \in 1 .. n : Rank(chosen, k) =
                 Rank(chosen, k - 1) + (IF k \in chosen THEN 1 ELSE 0)
           /\ \A k \in 0 .. n : Rank(chosen, k) <= Cardinality(chosen)
<1>0. /\ \A q \in chosen : q \in 1 .. n
      /\ \A q \in chosen : ~(q <= 0) /\ q <= n
  OBVIOUS
<1>1. IsFiniteSet(chosen)
  <2>1. 1 \in Int /\ n \in Int
    OBVIOUS
  <2> QED
    BY <2>1, FS_Interval, FS_Subset
<1>2. \A k \in 0 .. n : /\ IsFiniteSet({q \in chosen : q <= k})
                         /\ Rank(chosen, k) \in Nat
                         /\ Rank(chosen, k) <= Cardinality(chosen)
  <2> TAKE k \in 0 .. n
  <2> {q \in chosen : q <= k} \in SUBSET chosen
    OBVIOUS
  <2> QED
    BY <1>1, FS_Subset, FS_CardinalityType DEF Rank
<1>3. Rank(chosen, 0) = 0
  <2>1. {q \in chosen : q <= 0} = {}
    BY <1>0
  <2> QED
    BY <2>1, FS_EmptySet DEF Rank
<1>4. Rank(chosen, n) = Cardinality(chosen)
  <2>1. {q \in chosen : q <= n} = chosen
    BY <1>0
  <2> QED
    BY <2>1 DEF Rank
<1>5. ASSUME NEW k \in 1 .. n
      PROVE  Rank(chosen, k) = Rank(chosen, k - 1) + (IF k \in chosen THEN 1 ELSE 0)
  <2> DEFINE before == {q \in chosen : q <= k - 1}
  <2>0. /\ k - 1 \in 0 .. n /\ k \in 1 .. n /\ ~(k <= k - 1)
        /\ \A q \in chosen : q <= k <=> q <= k - 1 \/ q = k
    BY <1>0
  <2>1. IsFiniteSet(before) /\ Cardinality(before) \in Nat
    BY <1>2, <2>0 DEF Rank
  <2>2. CASE k \in chosen
    <3>1. {q \in chosen : q <= k} = before \cup {k} /\ k \notin before
      BY <2>0, <2>2
    <3> HIDE DEF before
    <3>2. Cardinality(before \cup {k}) = Cardinality(before) + 1
      BY <2>1, <3>1, FS_AddElement
    <3> QED
      BY <2>2, <3>1, <3>2 DEF Rank, before
  <2>3. CASE k \notin chosen
    <3>1. {q \in chosen : q <= k} = before
      BY <2>0, <2>3
    <3>2. Rank(chosen, k) = Rank(chosen, k - 1) /\ Rank(chosen, k - 1) \in Nat
      BY <1>2, <2>0, <3>1 DEF Rank
    <3> QED
      BY <2>3, <3>2
  <2> QED
    BY <2>2, <2>3
<1> QED
  BY <1>1, <1>2, <1>3, <1>4, <1>5, FS_CardinalityType

(* The group g holds, in order, what stands at the chosen positions up to  *)
(* k.                                                                      *)
Collects(list, chosen, k, g) ==
    /\ g \in Seq({list[i] : i \in DOMAIN list})
    /\ Len(g) = Rank(chosen, k)
    /\ \A p \in chosen : p <= k =>
          Rank(chosen, p) \in 1 .. Len(g) /\ g[Rank(chosen, p)] = list[p]
    /\ \A i \in 1 .. Len(g) : \E p \in chosen : p <= k /\ Rank(chosen, p) = i

LEMMA CollectsOneMore ==
    ASSUME NEW n \in Nat, NEW list, DOMAIN list = 1 .. n,
           NEW chosen \in SUBSET (1 .. n), NEW k \in 1 .. n,
           NEW g, Collects(list, chosen, k - 1, g)
    PROVE  Collects(list, chosen, k, IF k \in chosen THEN Append(g, list[k]) ELSE g)
<1> DEFINE V == {list[i] : i \in DOMAIN list}
<1>1. /\ g \in Seq(V) /\ Len(g) \in Nat /\ Len(g) = Rank(chosen, k - 1)
      /\ \A p \in chosen : p <= k - 1 =>
            Rank(chosen, p) \in 1 .. Len(g) /\ g[Rank(chosen, p)] = list[p]
      /\ \A i \in 1 .. Len(g) : \E p \in chosen : p <= k - 1 /\ Rank(chosen, p) = i
  BY DEF Collects
<1>2. \A p \in chosen : p <= k => p <= k - 1 \/ p = k
  OBVIOUS
<1>3. Rank(chosen, k) = Rank(chosen, k - 1) + (IF k \in chosen THEN 1 ELSE 0)
  <2>1. \A m \in 1 .. n : Rank(chosen, m) =
           Rank(chosen, m - 1) + (IF m \in chosen THEN 1 ELSE 0)
    BY RankCounts
  <2> QED
    BY <2>1
<1>4. CASE k \notin chosen
  <2>1. Len(g) = Rank(chosen, k)
    BY <1>1, <1>3, <1>4
  <2>2. \A p \in chosen : p <= k => p <= k - 1
    BY <1>2, <1>4
  <2>3. \A i \in 1 .. Len(g) : \E p \in chosen : p <= k /\ Rank(chosen, p) = i
    <3> TAKE i \in 1 .. Len(g)
    <3>1. PICK p \in chosen : p <= k - 1 /\ Rank(chosen, p) = i
      BY <1>1
    <3> QED
      BY <3>1
  <2> QED
    BY <1>1, <1>4, <2>1, <2>2, <2>3 DEF Collects
<1>5. CASE k \in chosen
  <2> DEFINE h == Append(g, list[k])
  <2>1. list[k] \in V
    OBVIOUS
  <2> HIDE DEF V
  <2>2. /\ h \in Seq(V) /\ Len(h) = Len(g) + 1 /\ h[Len(g) + 1] = list[k]
        /\ \A i \in 1 .. Len(g) : h[i] = g[i]
    BY <1>1, <2>1
  <2> HIDE DEF h
  <2>3. Len(h) = Rank(chosen, k)
    BY <1>1, <1>3, <1>5, <2>2
  <2>4. ASSUME NEW p \in chosen, p <= k
        PROVE  Rank(chosen, p) \in 1 .. Len(h) /\ h[Rank(chosen, p)] = list[p]
    <3>1. CASE p = k
      BY <1>1, <2>2, <2>3, <3>1
    <3>2. CASE p <= k - 1
      BY <1>1, <2>2, <3>2
    <3> QED
      BY <1>2, <2>4, <3>1, <3>2
  <2>5. ASSUME NEW i \in 1 .. Len(h)
        PROVE  \E p \in chosen : p <= k /\ Rank(chosen, p) = i
    <3>1. CASE i = Len(h)
      BY <1>5, <2>3, <3>1
    <3>2. CASE i # Len(h)
      <4>1. i \in 1 .. Len(g)
        BY <1>1, <2>2, <3>2
      <4>2. PICK p \in chosen : p <= k - 1 /\ Rank(chosen, p) = i
        BY <1>1, <4>1
      <4> QED
        BY <4>2
    <3> QED
      BY <3>1, <3>2
  <2> QED
    BY <1>5, <2>2, <2>3, <2>4, <2>5 DEF Collects, V, h
<1> QED
  BY <1>4, <1>5

LEMMA GroupCollects ==
    ASSUME NEW list, Len(list) \in Nat, DOMAIN list = 1 .. Len(list),
           NEW chosen \in SUBSET (1 .. Len(list))
    PROVE  Collects(list, chosen, Len(list), Group(list, chosen))
<1> DEFINE n == Len(list)
           Pushed(f, k) == IF k = 0 THEN << >>
                           ELSE IF k \in chosen THEN Append(f[k - 1], list[k])
                           ELSE f[k - 1]
           IsCollected(f, m) == f = [k \in 0 .. m |-> Pushed(f, k)]
           f0 == CHOOSE f : IsCollected(f, n)
<1>1. \E f : IsCollected(f, n)
  <2> DEFINE T == {m \in 0 .. n : \E f : IsCollected(f, m)}
  <2>1. 0 \in T
    <3>1. IsCollected([k \in 0 .. 0 |-> << >>], 0)
      OBVIOUS
    <3>2. 0 \in 0 .. n
      OBVIOUS
    <3> HIDE DEF IsCollected
    <3> QED
      BY <3>1, <3>2
  <2>2. ASSUME NEW m \in T, m < n
        PROVE  m + 1 \in T
    <3>1. PICK f : IsCollected(f, m)
      OBVIOUS
    <3> DEFINE h == [k \in 0 .. m + 1 |-> IF k <= m THEN f[k] ELSE Pushed(f, k)]
    <3>2. ASSUME NEW k \in 0 .. m + 1
          PROVE  h[k] = Pushed(h, k)
      <4>1. CASE k = 0
        BY <3>1, <4>1
      <4>2. CASE k # 0
        <5>1. k - 1 \in 0 .. m /\ k - 1 \in 0 .. m + 1 /\ k - 1 <= m
          BY <4>2
        <5>2. h[k - 1] = f[k - 1]
          BY <5>1
        <5>3. h[k] = Pushed(f, k)
          <6>1. CASE k <= m
            <7>1. h[k] = f[k] /\ k \in 0 .. m
              BY <6>1
            <7> HIDE DEF h
            <7> QED
              BY <3>1, <7>1
          <6>2. CASE ~(k <= m)
            BY <6>2
          <6> QED
            BY <6>1, <6>2
        <5> HIDE DEF h
        <5> QED
          BY <4>2, <5>2, <5>3
      <4> QED
        BY <4>1, <4>2
    <3>3. IsCollected(h, m + 1)
      <4> DOMAIN h = 0 .. m + 1 /\ h = [k \in 0 .. m + 1 |-> h[k]]
        OBVIOUS
      <4> HIDE DEF h
      <4> QED
        BY <3>2
    <3> HIDE DEF h, IsCollected
    <3> QED
      BY <2>2, <3>3
  <2>3. T \in SUBSET (0 .. n) /\ n \in 0 .. n
    OBVIOUS
  <2> HIDE DEF T
  <2>4. n \in T
    BY <2>1, <2>2, <2>3, CountingUp
  <2> QED
    BY <2>4 DEF T
<1>2. IsCollected(f0, n)
  <2> HIDE DEF IsCollected
  <2> QED
    BY <1>1
<1>3. Group(list, chosen) = f0[n]
  BY DEF Group
<1> HIDE DEF f0
<1>4. \A m \in 0 .. n : Collects(list, chosen, m, f0[m])
  <2> DEFINE T == {m \in 0 .. n : Collects(list, chosen, m, f0[m])}
  <2>1. 0 \in T
    <3>1. f0[0] = << >>
      BY <1>2
    <3>2. Rank(chosen, 0) = 0
      BY RankCounts
    <3>3. \A p \in chosen : p \in 1 .. n /\ ~(p <= 0)
      OBVIOUS
    <3>4. Collects(list, chosen, 0, << >>)
      BY <3>2, <3>3 DEF Collects
    <3> QED
      BY <3>1, <3>4
  <2>2. ASSUME NEW m \in T, m < n
        PROVE  m + 1 \in T
    <3>1. m + 1 \in 1 .. n /\ m + 1 \in 0 .. n /\ (m + 1) - 1 = m
      BY <2>2
    <3>2. f0[m + 1] = IF m + 1 \in chosen THEN Append(f0[m], list[m + 1]) ELSE f0[m]
      <4>1. f0[m + 1] = Pushed(f0, m + 1)
        BY <1>2, <3>1
      <4> QED
        BY <3>1, <4>1
    <3> HIDE DEF IsCollected
    <3> DEFINE k == m + 1
    <3>3. k \in 1 .. n /\ Collects(list, chosen, k - 1, f0[m])
      BY <3>1
    <3> HIDE DEF k
    <3>4. Collects(list, chosen, k,
                   IF k \in chosen THEN Append(f0[m], list[k]) ELSE f0[m])
      BY <3>3, CollectsOneMore
    <3> USE DEF k
    <3>5. Collects(list, chosen, m + 1, f0[m + 1])
      BY <3>2, <3>4
    <3> QED
      BY <3>1, <3>5
  <2>3. T \in SUBSET (0 .. n)
    OBVIOUS
  <2> HIDE DEF T
  <2>4. \A m \in 0 .. n : m \in T
    BY <2>1, <2>2, <2>3, CountingUp
  <2> QED
    BY <2>4 DEF T
<1> QED
  BY <1>3, <1>4

(* Where the element at position p goes: the chosen ones come first.       *)
PlaceOf(n, chosen, p) ==
    IF p \in chosen THEN Rank(chosen, p)
    ELSE Cardinality(chosen) + Rank((1 .. n) \ chosen, p)

LEMMA RestCounts ==
    ASSUME NEW n \in Nat, NEW chosen \in SUBSET (1 .. n)
    PROVE  /\ Cardinality(chosen) \in Nat
           /\ Cardinality((1 .. n) \ chosen) \in Nat
           /\ Cardinality(chosen) + Cardinality((1 .. n) \ chosen) = n
<1> 1 \in Int /\ n \in Int
  OBVIOUS
<1>1. IsFiniteSet(1 .. n) /\ Cardinality(1 .. n) = n
  BY FS_Interval
<1>2. IsFiniteSet(chosen) /\ Cardinality(chosen) \in Nat
  BY RankCounts
<1>4. /\ IsFiniteSet((1 .. n) \ chosen)
      /\ Cardinality((1 .. n) \ chosen) = Cardinality(1 .. n) - Cardinality(chosen)
  <2> DEFINE U == 1 .. n
  <2>1. U \cap chosen = chosen /\ IsFiniteSet(U)
    BY <1>1
  <2> HIDE DEF U
  <2>2. /\ IsFiniteSet(U \ chosen)
        /\ Cardinality(U \ chosen) = Cardinality(U) - Cardinality(U \cap chosen)
    BY <2>1, FS_Difference
  <2> USE DEF U
  <2> QED
    BY <2>1, <2>2
<1>5. Cardinality((1 .. n) \ chosen) \in Nat
  BY <1>4, FS_CardinalityType
<1> QED
  BY <1>1, <1>2, <1>4, <1>5

(* The partition has each element at its place, and nothing else.          *)
LEMMA PartitionedPlaces ==
    ASSUME NEW list, Len(list) \in Nat, DOMAIN list = 1 .. Len(list),
           NEW chosen \in SUBSET (1 .. Len(list))
    PROVE  /\ DOMAIN Partitioned(list, chosen) = 1 .. Len(list)
           /\ Len(list) = 0 => Partitioned(list, chosen) = << >>
           /\ \A p \in 1 .. Len(list) :
                 /\ PlaceOf(Len(list), chosen, p) \in 1 .. Len(list)
                 /\ Partitioned(list, chosen)[PlaceOf(Len(list), chosen, p)] = list[p]
           /\ \A k \in 1 .. Len(list) : \E p \in 1 .. Len(list) :
                 PlaceOf(Len(list), chosen, p) = k
<1> DEFINE n == Len(list)
           rest == (1 .. n) \ chosen
           V == {list[i] : i \in DOMAIN list}
           g == Group(list, chosen)
           h == Group(list, rest)
           order == g \o h
<1>0. Partitioned(list, chosen) = order
  BY DEF Partitioned
<1>1. Collects(list, chosen, n, g) /\ Collects(list, rest, n, h)
  BY GroupCollects
<1>2. /\ Rank(chosen, n) = Cardinality(chosen) /\ Rank(rest, n) = Cardinality(rest)
      /\ Cardinality(chosen) \in Nat /\ Cardinality(rest) \in Nat
      /\ Cardinality(chosen) + Cardinality(rest) = n
  <2>1. rest \in SUBSET (1 .. n)
    OBVIOUS
  <2>2. Rank(chosen, n) = Cardinality(chosen) /\ Rank(rest, n) = Cardinality(rest)
    BY <2>1, RankCounts
  <2> QED
    BY <2>2, RestCounts
<1>3. /\ g \in Seq(V) /\ h \in Seq(V)
      /\ Len(g) = Cardinality(chosen) /\ Len(h) = Cardinality(rest)
  BY <1>1, <1>2 DEF Collects
<1>4. /\ \A p \in chosen : Rank(chosen, p) \in 1 .. Len(g) /\ g[Rank(chosen, p)] = list[p]
      /\ \A i \in 1 .. Len(g) : \E p \in chosen : Rank(chosen, p) = i
  <2>1. \A p \in chosen : p <= n
    OBVIOUS
  <2> QED
    BY <1>1, <2>1 DEF Collects
<1>5. /\ \A p \in rest : Rank(rest, p) \in 1 .. Len(h) /\ h[Rank(rest, p)] = list[p]
      /\ \A i \in 1 .. Len(h) : \E p \in rest : Rank(rest, p) = i
  <2>1. \A p \in rest : p <= n
    OBVIOUS
  <2> QED
    BY <1>1, <2>1 DEF Collects
<1> HIDE DEF g, h, V
<1>6. /\ order \in Seq(V) /\ Len(order) = n
      /\ \A i \in 1 .. Len(g) : order[i] = g[i]
      /\ \A i \in 1 .. Len(h) : order[Len(g) + i] = h[i]
  <2>1. /\ order \in Seq(V) /\ Len(order) = Len(g) + Len(h)
        /\ \A i \in 1 .. Len(g) : order[i] = g[i]
    BY <1>3
  <2>2. \A i \in 1 .. Len(h) : order[Len(g) + i] = h[i]
    <3> TAKE i \in 1 .. Len(h)
    <3>1. /\ Len(g) + i \in 1 .. Len(g) + Len(h) /\ ~(Len(g) + i <= Len(g))
          /\ (Len(g) + i) - Len(g) = i
      BY <1>2, <1>3
    <3> QED
      BY <1>2, <1>3, <3>1
  <2> QED
    BY <1>2, <1>3, <2>1, <2>2
<1> HIDE DEF order
<1>7. DOMAIN order = 1 .. n /\ (n = 0 => order = << >>)
  BY <1>6
<1>8. ASSUME NEW p \in 1 .. n
      PROVE  PlaceOf(n, chosen, p) \in 1 .. n /\ order[PlaceOf(n, chosen, p)] = list[p]
  <2>1. CASE p \in chosen
    BY <1>2, <1>3, <1>4, <1>6, <2>1 DEF PlaceOf
  <2>2. CASE p \notin chosen
    <3>1. Rank(rest, p) \in 1 .. Len(h) /\ h[Rank(rest, p)] = list[p]
      BY <1>5, <2>2
    <3>2. PlaceOf(n, chosen, p) = Len(g) + Rank(rest, p)
      BY <1>3, <2>2 DEF PlaceOf
    <3>3. order[Len(g) + Rank(rest, p)] = list[p]
      BY <1>6, <3>1
    <3>4. Len(g) + Rank(rest, p) \in 1 .. n
      BY <1>2, <1>3, <3>1
    <3> QED
      BY <3>2, <3>3, <3>4
  <2> QED
    BY <2>1, <2>2
<1>9. ASSUME NEW k \in 1 .. n
      PROVE  \E p \in 1 .. n : PlaceOf(n, chosen, p) = k
  <2>1. CASE k <= Len(g)
    <3>1. PICK p \in chosen : Rank(chosen, p) = k
      BY <1>2, <1>3, <1>4, <2>1
    <3> QED
      BY <3>1 DEF PlaceOf
  <2>2. CASE ~(k <= Len(g))
    <3>1. k - Len(g) \in 1 .. Len(h)
      BY <1>2, <1>3, <2>2
    <3>2. PICK p \in rest : Rank(rest, p) = k - Len(g)
      BY <1>5, <3>1
    <3>3. PlaceOf(n, chosen, p) = Len(g) + Rank(rest, p)
      BY <1>3, <3>2 DEF PlaceOf
    <3> QED
      BY <1>2, <1>3, <3>2, <3>3
  <2> QED
    BY <2>1, <2>2
<1> QED
  BY <1>0, <1>7, <1>8, <1>9

(* The same place, found by counting those that come before.               *)
Precedes(chosen, q, p) ==
    \/ q \in chosen /\ p \notin chosen
    \/ (q \in chosen <=> p \in chosen) /\ q < p

LEMMA PlaceByCounting ==
    ASSUME NEW n \in Nat, NEW chosen \in SUBSET (1 .. n), NEW p \in 1 .. n
    PROVE  /\ IsFiniteSet({q \in 1 .. n : Precedes(chosen, q, p)})
           /\ PlaceOf(n, chosen, p) =
                1 + Cardinality({q \in 1 .. n : Precedes(chosen, q, p)})
<1> DEFINE rest == (1 .. n) \ chosen
           before == {q \in 1 .. n : Precedes(chosen, q, p)}
<1>0. /\ \A q \in 1 .. n : q < p <=> q <= p - 1
      /\ p - 1 \in 0 .. n /\ rest \in SUBSET (1 .. n)
  OBVIOUS
<1>1. /\ IsFiniteSet(chosen) /\ Cardinality(chosen) \in Nat
      /\ IsFiniteSet(rest)
  BY <1>0, RankCounts
<1>2. ASSUME NEW S \in SUBSET (1 .. n), p \in S
      PROVE  /\ Rank(S, p) = Rank(S, p - 1) + 1 /\ Rank(S, p - 1) \in Nat
             /\ IsFiniteSet({q \in S : q <= p - 1})
  <2>1. \A k \in 1 .. n : Rank(S, k) =
           Rank(S, k - 1) + (IF k \in S THEN 1 ELSE 0)
    BY RankCounts
  <2>2. Rank(S, p - 1) \in Nat /\ IsFiniteSet(S)
    BY <1>0, RankCounts
  <2>3. {q \in S : q <= p - 1} \in SUBSET S
    OBVIOUS
  <2> QED
    BY <1>2, <2>1, <2>2, <2>3, FS_Subset
<1>3. CASE p \in chosen
  <2>1. before = {q \in chosen : q <= p - 1}
    BY <1>0, <1>3 DEF Precedes
  <2> QED
    BY <1>2, <1>3, <2>1 DEF PlaceOf, Rank
<1>4. CASE p \notin chosen
  <2> DEFINE early == {q \in rest : q <= p - 1}
  <2>1. before = chosen \cup early /\ chosen \cap early = {}
    BY <1>0, <1>4 DEF Precedes
  <2>2. /\ IsFiniteSet(early) /\ Cardinality(early) = Rank(rest, p - 1)
        /\ Rank(rest, p) = Rank(rest, p - 1) + 1 /\ Rank(rest, p - 1) \in Nat
    <3>1. p \in rest
      BY <1>4
    <3> HIDE DEF rest
    <3> QED
      BY <1>0, <1>2, <3>1 DEF Rank
  <2> HIDE DEF early, before
  <2>3. Cardinality(chosen \cap early) = 0
    BY <2>1, FS_EmptySet
  <2>4. /\ IsFiniteSet(before)
        /\ Cardinality(before) = Cardinality(chosen) + Cardinality(early) - 0
    BY <1>1, <2>1, <2>2, <2>3, FS_Union
  <2>5. PlaceOf(n, chosen, p) = Cardinality(chosen) + Rank(rest, p)
    BY <1>4 DEF PlaceOf
  <2> QED
    BY <1>1, <2>2, <2>4, <2>5 DEF before
<1> QED
  BY <1>3, <1>4
-----------------------------------------------------------------------------
LEMMA CheckInitOK == CheckInit => IInv /\ CheckInv
<1> SUFFICES ASSUME CheckInit PROVE IInv /\ CheckInv
  OBVIOUS
<1>1. IInv
  BY InitIInv DEF CheckInit
<1>2. check = NotChecked
  BY DEF CheckInit
<1>3. CheckInv
  BY <1>2 DEF CheckInv, CheckTypes, SnapshotThere, WorkerIsChecking, OneProfile,
              CheckWritesFit, CheckIsOneOfTheWriters, NotChecked, CheckSteps,
              Asking, Checking
<1>4. QED
  BY <1>1, <1>3

(* Whatever the check does except to write leaves the rest alone.          *)
LEMMA CheckLeavesAlone ==
    CheckNext /\ ~Others /\ ~CheckWrite => UNCHANGED vars
  BY DEF CheckNext, Check, PrepareCheck, SubmitCheck, CheckRequireProfile,
         CheckValidate, GatewaySerialize, GatewayConfirmBefore, GatewayCall,
         GatewayConfirmAfter, GatewayParse, GatewayConfirmReturn, ConfirmAt,
         CheckPlan, CheckRecheckProfile, CheckReadBack

(* A write of the check keeps the machine well formed.                     *)
LEMMA CheckWriteIInv ==
    ASSUME IInv, CheckWrite
    PROVE  /\ IInv'
           /\ machine.version \in Nat /\ machine'.version \in Nat
           /\ \/ machine' = machine
              \/ /\ check.version = machine.version
                 /\ machine'.version = machine.version + 1
<1> DEFINE error == PriorityError(CheckOperation, check.plan)
<1>0. /\ UNCHANGED <<session, profile, sessionError, store, operations, result,
                     job, effects>>
      /\ Task' = Task
      /\ error # "none" => UNCHANGED machine
      /\ error = "none" => machine' = Written(CheckOperation, check.plan)
  BY DEF CheckWrite, sessionVars, monitorVars, operationVars, machineVars, Task
<1>1. error = "none" => check.version = machine.version
                        /\ IsQueue(Assigned(check.plan))
  BY GatewayErrors DEF CheckOperation
<1> HIDE DEF error
<1>2. TypeOK /\ machine.version \in Nat
  BY DEF IInv, TypeOK
<1>3. SessionTypeOK'
  BY <1>0, <1>2, SessionStutter DEF TypeOK, sessionVars
<1>4. CASE error # "none"
  <2>1. TypeOK'
    BY <1>0, <1>2, <1>3, <1>4 DEF TypeOK, HasTask
  <2>2. QED
    BY <1>0, <1>2, <1>4, <2>1, WorldKept, OperationsKept DEF IInv
<1>5. CASE error = "none"
  <2>1. CheckOperation.kind = "move"
    BY DEF CheckOperation
  <2>2. /\ machine' = Frame(machine', machine'.version, machine'.number)
        /\ machine'.priority \in [DOMAIN machine'.priority -> Nat]
        /\ IsQueue(machine'.priority)
        /\ machine'.place \in [DOMAIN machine'.priority -> Places]
        /\ machine'.number \in Nat /\ machine'.version \in Nat
        /\ machine'.version >= machine'.number
        /\ machine'.version = machine.version + 1
    BY <1>0, <1>1, <1>2, <1>5, <2>1, WrittenType
  <2>3. TypeOK'
    BY <1>0, <1>2, <1>3, <2>2 DEF TypeOK, HasTask
  <2>4. WritersAreBehind'
    <3> SUFFICES ASSUME NEW i \in 1 .. Len(operations), effects[i] # 0
                 PROVE  effects[i] = 1 /\ operations[i].version < machine'.version
      BY <1>0 DEF WritersAreBehind
    <3>1. effects[i] = 1 /\ operations[i].version < machine.version
      BY DEF IInv, WritersAreBehind
    <3>2. operations[i].version \in Nat
      BY DEF IInv, Shape
    <3>3. QED
      BY <1>2, <2>2, <3>1, <3>2
  <2>5. Shape' /\ SeenWasPublished'
    BY <1>0 DEF IInv, Shape, SeenWasPublished
  <2>6. QED
    BY <1>0, <1>1, <1>2, <1>5, <2>2, <2>3, <2>4, <2>5, OperationsKept DEF IInv
<1>6. QED
  BY <1>4, <1>5

(* The invariant of the operations holds with the check among them.        *)
LEMMA CheckedIInv == IInv /\ [CheckNext]_checkedVars => IInv'
<1> SUFFICES ASSUME IInv, [CheckNext]_checkedVars PROVE IInv'
  OBVIOUS
<1>1. CASE Others
  BY <1>1, NextIInv DEF Others, Next
<1>2. CASE CheckWrite
  BY <1>2, CheckWriteIInv
<1>3. CASE UNCHANGED vars
  BY <1>3, StutterIInv
<1>4. QED
  BY <1>1, <1>2, <1>3, CheckLeavesAlone DEF checkedVars
-----------------------------------------------------------------------------
(* What the others leave as it is.                                         *)
LEMMA OthersKeep ==
    ASSUME IInv, Others
    PROVE  /\ check' = check
           /\ store # Nothing => store' # Nothing
           /\ session # "Unresolved" => session' # "Unresolved" /\ profile' = profile
           /\ Checking => job' = job
<1>1. check' = check
  BY DEF Others
<1>2. CASE SynchronizeFrame
  BY <1>1, <1>2 DEF SynchronizeFrame, sessionVars, monitorVars, operationVars
<1>3. CASE ObserveMachineModel
  <2>1. PICK answer \in Answers : Observe(answer)
    BY <1>3, OperationsAssumption DEF ObserveMachineModel
  <2>2. SessionTypeOK
    BY DEF IInv, TypeOK
  <2>3. session # "Unresolved" => session' # "Unresolved" /\ profile' = profile
    BY <2>1, <2>2, ObserveStep DEF SessionTypeOK
  <2>4. QED
    BY <1>1, <1>3, <2>3 DEF ObserveMachineModel, monitorVars, operationVars
<1>4. CASE Read \/ Publish \/ PublishOther
  <2>1. UNCHANGED <<session, profile, job>>
    BY <1>4 DEF Read, Publish, PublishOther, sessionVars, operationVars
  <2>2. QED
    BY <1>1, <1>4, <2>1, StoreStep
<1>5. ASSUME NEW kind, NEW w, NEW d, Submit(kind, w, d)
      PROVE  UNCHANGED <<session, profile, store, job>>
  BY <1>5 DEF Submit, sessionVars, monitorVars
<1>6. CASE ~Checking /\ Worker
  <2>1. UNCHANGED <<session, profile, store>>
    BY <1>6 DEF Worker, WorkerRequireProfile, WorkerCheck, WorkerRecheckProfile,
                WorkerWrite, WorkerReadBack, sessionVars, monitorVars
  <2>2. QED
    BY <1>1, <1>6, <2>1
<1>7. QED
  BY <1>1, <1>2, <1>3, <1>4, <1>5, <1>6
     DEF Others, Monitoring, SubmitMove, SubmitTransport

(* Every operation the machine has accepted was accepted before, or is     *)
(* accepted now for the version the machine has; and versions only grow.   *)
LEMMA OthersWrite ==
    ASSUME IInv, Others
    PROVE  /\ machine.version \in Nat /\ machine'.version \in Nat
           /\ machine'.version >= machine.version
           /\ \A i \in 1 .. Len(operations') : effects'[i] # 0 =>
                 \/ /\ i \in 1 .. Len(operations) /\ effects[i] # 0
                    /\ operations'[i].version = operations[i].version
                 \/ operations'[i].version = machine.version
<1>0. /\ machine.version \in Nat /\ Len(operations) \in Nat
      /\ machine = Frame(machine, machine.version, machine.number)
      /\ effects \in [Ids -> Nat]
  BY DEF IInv, TypeOK, Shape
<1>1. CASE SynchronizeFrame
  <2>1. UNCHANGED <<operations, effects>>
    BY <1>1 DEF SynchronizeFrame, operationVars
  <2>2. PICK f \in Frames, number \in machine.number + 1 .. MaxFrames :
           machine' = Frame(f, NextVersion(number, machine.version), number)
    BY <1>1 DEF SynchronizeFrame
  <2>3. number \in Nat
    BY OperationsAssumption DEF IInv, TypeOK
  <2>4. machine'.version = NextVersion(number, machine.version)
    BY <2>2 DEF Frame
  <2>5. QED
    BY <1>0, <2>1, <2>3, <2>4 DEF NextVersion
<1>2. CASE Monitoring
  <2>1. UNCHANGED <<machine, operations, effects>>
    BY <1>2 DEF Monitoring, ObserveMachineModel, Read, Publish, PublishOther,
                machineVars, operationVars
  <2>2. QED
    BY <1>0, <2>1
<1>3. ASSUME NEW kind, NEW w, NEW d, Submit(kind, w, d)
      PROVE  /\ UNCHANGED machine
             /\ \A i \in 1 .. Len(operations') : effects'[i] # 0 =>
                   /\ i \in 1 .. Len(operations) /\ effects[i] # 0
                   /\ operations'[i].version = operations[i].version
  <2> DEFINE n  == Len(operations) + 1
             op == [kind |-> kind, workpiece |-> w, direction |-> d,
                    version |-> store.version, seen |-> store]
  <2>1. /\ UNCHANGED <<machine, effects>> /\ operations' = Append(operations, op)
        /\ Len(operations) < MaxOperations
    BY <1>3 DEF Submit, machineVars
  <2> HIDE DEF op
  <2>2. /\ Len(operations') = n
        /\ \A k \in 1 .. Len(operations) : operations'[k] = operations[k]
    BY <2>1, AppendKeeps DEF IInv, Shape
  <2>3. n \in Ids /\ n >= Task
    BY <1>0, <2>1, OperationsAssumption DEF IInv, Progress, Ids
  <2>4. effects[n] = 0
    BY <1>0, <2>3 DEF IInv, Progress, TypeOK, HasTask
  <2>5. QED
    BY <1>0, <2>1, <2>2, <2>4
<1>4. CASE WorkerRequireProfile \/ WorkerCheck \/ WorkerRecheckProfile
             \/ WorkerReadBack
  <2>1. UNCHANGED <<machine, operations, effects>>
    BY <1>4 DEF WorkerRequireProfile, WorkerCheck, WorkerRecheckProfile,
                WorkerReadBack, machineVars
  <2>2. QED
    BY <1>0, <2>1
<1>5. CASE WorkerWrite
  <2> DEFINE op    == operations[Task]
             error == IF op.kind = "move" THEN PriorityError(op, job.plan)
                                          ELSE RequestError(op)
  <2>1. /\ UNCHANGED operations
        /\ error # "none" => UNCHANGED <<machine, effects>>
        /\ error = "none" => /\ machine' = Written(op, job.plan)
                             /\ effects' = [effects EXCEPT ![Task] = @ + 1]
    BY <1>5 DEF WorkerWrite, machineVars
  <2>2. error = "none" => op.version = machine.version
    BY GatewayErrors
  <2> HIDE DEF error
  <2>3. CASE error # "none"
    BY <1>0, <2>1, <2>3
  <2>4. CASE error = "none"
    <3>1. machine'.version = machine.version + 1
      BY <1>0, <2>1, <2>4 DEF Written, Frame
    <3>2. \A i \in Ids : i # Task => effects'[i] = effects[i]
      BY <1>0, <2>1, <2>4
    <3>3. Len(operations) <= MaxOperations /\ MaxOperations \in Nat
      BY OperationsAssumption DEF IInv, Shape
    <3>4. \A i \in 1 .. Len(operations) : i \in Ids
      BY <1>0, <3>3 DEF Ids
    <3>5. \A i \in 1 .. Len(operations) :
             effects'[i] # 0 => effects[i] # 0 \/ i = Task
      BY <3>2, <3>4
    <3>6. operations[Task].version = machine.version /\ operations' = operations
      BY <2>1, <2>2, <2>4
    <3>7. QED
      BY <1>0, <3>1, <3>5, <3>6
  <2>5. QED
    BY <2>3, <2>4
<1>6. QED
  BY <1>0, <1>1, <1>2, <1>3, <1>4, <1>5
     DEF Others, Worker, SubmitMove, SubmitTransport

LEMMA OthersCheckInv ==
    ASSUME IInv, CheckInv, Others
    PROVE  CheckInv'
<1>1. CheckTypes' /\ SnapshotThere' /\ OneProfile' /\ CheckWritesFit'
  BY OthersKeep DEF CheckInv, CheckTypes, SnapshotThere, OneProfile, CheckWritesFit
<1>2. WorkerIsChecking'
  BY OthersKeep DEF CheckInv, WorkerIsChecking, Checking
<1>3. CheckIsOneOfTheWriters'
  <2> SUFFICES ASSUME check.writes = 1
               PROVE  /\ check.version < machine'.version
                      /\ \A i \in 1 .. Len(operations') :
                            effects'[i] # 0 => operations'[i].version # check.version
    BY OthersKeep DEF CheckIsOneOfTheWriters
  <2>1. /\ check.version < machine.version
        /\ \A i \in 1 .. Len(operations) :
              effects[i] # 0 => operations[i].version # check.version
        /\ check.version \in Nat
    BY DEF CheckInv, CheckIsOneOfTheWriters, CheckTypes
  <2>2. QED
    BY <2>1, OthersWrite
<1>4. QED
  BY <1>1, <1>2, <1>3 DEF CheckInv
-----------------------------------------------------------------------------
(* The check goes on, and the rest is as it was.                           *)
LEMMA ProceedCheckInv ==
    ASSUME CheckInv, UNCHANGED vars, DOMAIN check' = DOMAIN NotChecked,
           check.step \notin {"none", "done", "reading"} \/ check'.step = "prepared",
           check.step \notin {"done", "reading"},
           check'.step \in CheckSteps \ {"none", "done", "reading"},
           check'.version \in Nat, check'.writes = check.writes,
           job.step = "idle" \/ check'.step \in {"prepared", "submitted"},
           check'.step = "prepared" => store # Nothing,
           check'.step \in Asking =>
               session # "Unresolved" /\ profile = check'.model
    PROVE  CheckInv'
<1>1. UNCHANGED <<session, profile, store, machine, job, operations, effects>>
  BY DEF vars, sessionVars, machineVars, monitorVars, operationVars
<1>2. check.writes = 0
  BY DEF CheckInv, CheckWritesFit
<1>3. QED
  BY <1>1, <1>2 DEF CheckInv, CheckTypes, SnapshotThere, WorkerIsChecking, Checking,
                    OneProfile, CheckWritesFit, CheckIsOneOfTheWriters

(* The check is given up with an error that tells whether it has written.  *)
LEMMA FailCheckInv ==
    ASSUME CheckInv, NEW code \in CheckCodes, CheckFail(code),
           UNCHANGED <<session, profile, store, machine, operations, effects>>,
           check.step \notin {"none", "done"},
           check.step = "reading" => code = "InvalidResponse"
    PROVE  CheckInv'
<1>1. /\ DOMAIN check' = DOMAIN NotChecked
      /\ check'.step = "done" /\ check'.outcome = code
      /\ check'.version = check.version /\ check'.writes = check.writes
  BY DEF CheckFail, NotChecked
<1>2. CheckTypes' /\ SnapshotThere' /\ WorkerIsChecking' /\ OneProfile'
  BY <1>1 DEF CheckInv, CheckTypes, SnapshotThere, WorkerIsChecking, Checking,
              OneProfile, CheckSteps, Asking
<1>3. CheckWritesFit'
  BY <1>1 DEF CheckInv, CheckWritesFit, CheckTypes, CheckCodes
<1>4. CheckIsOneOfTheWriters'
  BY <1>1 DEF CheckInv, CheckIsOneOfTheWriters
<1>5. QED
  BY <1>2, <1>3, <1>4 DEF CheckInv

(* The check ends with an order that is changed, or that stays.            *)
LEMMA EndCheckInv ==
    ASSUME CheckInv, UNCHANGED vars, DOMAIN check' = DOMAIN NotChecked,
           check'.step = "done", check.step # "none",
           check'.version = check.version, check'.writes = check.writes,
           \/ check.step = "reading" /\ check'.outcome = "changed"
           \/ check.step \notin {"reading", "done"} /\ check'.outcome = "unchanged"
    PROVE  CheckInv'
<1>1. UNCHANGED <<session, profile, store, machine, job, operations, effects>>
  BY DEF vars, sessionVars, machineVars, monitorVars, operationVars
<1>2. QED
  BY <1>1 DEF CheckInv, CheckTypes, SnapshotThere, WorkerIsChecking, Checking,
              OneProfile, CheckWritesFit, CheckIsOneOfTheWriters, CheckSteps, Asking
-----------------------------------------------------------------------------
(* The steps that ask the session: they go on or end with its error.       *)
LEMMA ProfileIsThere ==
    ASSUME IInv
    PROVE  /\ ProfileError \in {"none", "Conflict", "UnsupportedData"}
           /\ ProfileError = "none" => session = "Resolved"
           /\ ProfileChanged \in {"none", "Conflict", "UnsupportedData"}
           /\ ProfileChanged = "none" =>
                 session = "Resolved" /\ profile = check.model
<1>1. SessionTypeOK
  BY DEF IInv, TypeOK
<1>2. /\ ProfileError \in {"none", "Conflict", "UnsupportedData"}
      /\ ProfileError = "none" => session = "Resolved"
  BY <1>1 DEF SessionTypeOK, ProfileError
<1>3. QED
  BY <1>2 DEF ProfileChanged

LEMMA CallerCheckInv ==
    ASSUME IInv, CheckInv, PrepareCheck \/ SubmitCheck
    PROVE  CheckInv'
<1>1. UNCHANGED vars
  BY DEF PrepareCheck, SubmitCheck
<1>2. DOMAIN check = DOMAIN NotChecked /\ check.version \in Nat
  BY DEF CheckInv, CheckTypes
<1>3. CASE PrepareCheck
  <2>1. PICK request : check' = [check EXCEPT !.step = "prepared",
                                              !.request = request]
    BY <1>3 DEF PrepareCheck
  <2>2. /\ DOMAIN check' = DOMAIN NotChecked /\ check'.step = "prepared"
        /\ check'.version = check.version /\ check'.writes = check.writes
    BY <1>2, <2>1 DEF NotChecked
  <2>3. check.step = "none" /\ store # Nothing
    BY <1>3 DEF PrepareCheck
  <2>4. QED
    BY <1>1, <1>2, <2>2, <2>3, ProceedCheckInv DEF CheckSteps, Asking
<1>4. CASE SubmitCheck
  <2>1. /\ check.step = "prepared"
        /\ check' = [check EXCEPT !.step = "submitted", !.version = store.version]
    BY <1>4 DEF SubmitCheck
  <2>2. store.version \in Nat
    BY <2>1 DEF CheckInv, SnapshotThere, IInv, Shape
  <2>3. /\ DOMAIN check' = DOMAIN NotChecked /\ check'.step = "submitted"
        /\ check'.version = store.version /\ check'.writes = check.writes
    BY <1>2, <2>1 DEF NotChecked
  <2>4. QED
    BY <1>1, <2>1, <2>2, <2>3, ProceedCheckInv DEF CheckSteps, Asking
<1>5. QED
  BY <1>3, <1>4

(* A step of Execute that goes on or is given up, for a check under way.   *)
LEMMA GoOnOrFail ==
    ASSUME IInv, CheckInv, UNCHANGED vars, job.step = "idle",
           check.step \notin {"none", "prepared", "done", "reading"},
           \/ \E code \in CheckCodes : CheckFail(code)
           \/ /\ DOMAIN check' = DOMAIN NotChecked
              /\ check'.step \in CheckSteps \ {"none", "prepared", "done", "reading"}
              /\ check'.version = check.version /\ check'.writes = check.writes
              /\ check'.step \in Asking =>
                    session # "Unresolved" /\ profile = check'.model
    PROVE  CheckInv'
<1>1. CASE \E code \in CheckCodes : CheckFail(code)
  <2>1. UNCHANGED <<session, profile, store, machine, operations, effects>>
    BY DEF vars, sessionVars, machineVars, monitorVars, operationVars
  <2>2. QED
    BY <1>1, <2>1, FailCheckInv
<1>2. CASE ~\E code \in CheckCodes : CheckFail(code)
  <2>1. check.version \in Nat
    BY DEF CheckInv, CheckTypes
  <2>2. QED
    BY <1>2, <2>1, ProceedCheckInv
<1>3. QED
  BY <1>1, <1>2

(* What going on does to the record.                                       *)
LEMMA ProceedFields ==
    ASSUME CheckTypes, NEW step, CheckProceed(step)
    PROVE  /\ DOMAIN check' = DOMAIN NotChecked /\ check'.step = step
           /\ check'.version = check.version /\ check'.writes = check.writes
           /\ check'.model = check.model
  BY DEF CheckTypes, CheckProceed, NotChecked

(* Where the session is asked.                                             *)
LEMMA SessionCheckInv ==
    ASSUME IInv, CheckInv,
           \/ CheckRequireProfile \/ CheckRecheckProfile
           \/ GatewayConfirmBefore \/ GatewayConfirmAfter \/ GatewayConfirmReturn
    PROVE  CheckInv'
<1>1. /\ UNCHANGED vars /\ job.step = "idle" /\ CheckTypes
      /\ check.step \in {"submitted", "planned", "sending", "answered", "parsed"}
  BY DEF CheckInv, WorkerIsChecking, Checking, CheckRequireProfile, ConfirmAt,
         CheckRecheckProfile, GatewayConfirmBefore, GatewayConfirmAfter,
         GatewayConfirmReturn
<1>2. \/ \E code \in CheckCodes : CheckFail(code)
      \/ check.step = "submitted" /\ CheckProceed("validating")
      \/ /\ session = "Resolved" /\ profile = check.model
         /\ \E step \in {"writing", "calling", "parsing", "planning"} :
               CheckProceed(step)
  <2>1. CASE CheckRequireProfile
    BY <2>1, ProfileIsThere DEF CheckRequireProfile, WithProfile, CheckCodes
  <2>2. CASE CheckRecheckProfile
    <3>1. profile = check.model
      BY <2>2 DEF CheckRecheckProfile, CheckInv, OneProfile, Asking
    <3>2. QED
      BY <2>2, <3>1, ProfileIsThere DEF CheckRecheckProfile, WithProfile, CheckCodes
  <2>3. CASE GatewayConfirmBefore \/ GatewayConfirmAfter \/ GatewayConfirmReturn
    BY <2>3, ProfileIsThere DEF GatewayConfirmBefore, GatewayConfirmAfter,
                                GatewayConfirmReturn, ConfirmAt, CheckCodes
  <2>4. QED
    BY <2>1, <2>2, <2>3
<1>3. QED
  BY <1>1, <1>2, ProceedFields, GoOnOrFail DEF CheckSteps, Asking

(* The snapshot, the request, the call and its answer.                     *)
LEMMA CallCheckInv ==
    ASSUME IInv, CheckInv,
           CheckValidate \/ GatewaySerialize \/ GatewayCall \/ GatewayParse
    PROVE  CheckInv'
<1>1. /\ UNCHANGED vars /\ job.step = "idle"
      /\ CheckTypes /\ DOMAIN check = DOMAIN NotChecked
      /\ check.step \in {"validating", "serializing", "calling", "parsing"}
  BY DEF CheckInv, CheckTypes, WorkerIsChecking, Checking, CheckValidate,
         GatewaySerialize, GatewayCall, GatewayParse
<1>2. CASE CheckValidate
  <2>1. SnapshotError \in CheckCodes \cup {"none"}
    BY DEF SnapshotError, CheckCodes
  <2>2. \/ \E code \in CheckCodes : CheckFail(code)
        \/ check' = [check EXCEPT !.step = "serializing", !.queue = store.priority]
    BY <1>2, <2>1 DEF CheckValidate
  <2>3. QED
    BY <1>1, <2>2, GoOnOrFail DEF CheckSteps, Asking, NotChecked
<1>3. CASE GatewaySerialize
  <2>1. SerializeErrors(profile, check.request) \subseteq CheckCodes
    BY DEF SerializeErrors, RequestErrors, CheckCodes
  <2>2. \/ \E code \in CheckCodes : CheckFail(code)
        \/ /\ session = "Resolved"
           /\ check' = [check EXCEPT !.step = "sending", !.model = profile]
    BY <1>3, <2>1, ProfileIsThere DEF GatewaySerialize, CheckCodes
  <2>3. QED
    BY <1>1, <2>2, GoOnOrFail DEF CheckSteps, Asking, NotChecked
<1>4. CASE GatewayCall
  <2>1. \/ \E code \in CheckCodes : CheckFail(code)
        \/ \E document : check' = [check EXCEPT !.step = "answered",
                                                !.document = document]
    BY <1>4 DEF GatewayCall, CheckCodes
  <2>2. session # "Unresolved" /\ profile = check.model
    BY <1>4 DEF GatewayCall, CheckInv, OneProfile, Asking
  <2>3. QED
    BY <1>1, <2>1, <2>2, GoOnOrFail DEF CheckSteps, Asking, NotChecked
<1>5. CASE GatewayParse
  <2>1. \/ \E code \in CheckCodes : CheckFail(code)
        \/ CheckProceed("parsed")
    BY <1>5 DEF GatewayParse, CheckCodes
  <2>2. session # "Unresolved" /\ profile = check.model
    BY <1>5 DEF GatewayParse, CheckInv, OneProfile, Asking
  <2>3. QED
    BY <1>1, <2>1, <2>2, ProceedFields, GoOnOrFail DEF CheckSteps, Asking
<1>6. QED
  BY <1>2, <1>3, <1>4, <1>5

(* The plan, which may be empty.                                           *)
LEMMA PlanCheckInv ==
    ASSUME IInv, CheckInv, CheckPlan
    PROVE  CheckInv'
<1> DEFINE error == IF store.version # check.version THEN "Conflict"
                    ELSE PlanErrorOf(check.queue, check.request, check.document)
<1>1. /\ UNCHANGED vars /\ job.step = "idle"
      /\ DOMAIN check = DOMAIN NotChecked
      /\ check.step = "planning"
      /\ session # "Unresolved" /\ profile = check.model
  BY DEF CheckInv, CheckTypes, WorkerIsChecking, Checking, CheckPlan, OneProfile,
         Asking
<1>2. error \in CheckCodes \cup {"none"}
  BY DEF PlanErrorOf, ContractError, CheckCodes
<1>3. \/ error # "none" /\ CheckFail(error)
      \/ \E plan, first :
            check' = [check EXCEPT !.plan = plan, !.first = first,
                         !.step = IF plan = {} THEN "done" ELSE "planned",
                         !.outcome = IF plan = {} THEN "unchanged" ELSE "none"]
  BY DEF CheckPlan
<1> HIDE DEF error
<1>4. CASE error # "none" /\ CheckFail(error)
  BY <1>1, <1>2, <1>4, GoOnOrFail
<1>5. CASE ~(error # "none" /\ CheckFail(error))
  <2>1. PICK plan, first :
            check' = [check EXCEPT !.plan = plan, !.first = first,
                         !.step = IF plan = {} THEN "done" ELSE "planned",
                         !.outcome = IF plan = {} THEN "unchanged" ELSE "none"]
    BY <1>3, <1>5
  <2>2. /\ DOMAIN check' = DOMAIN NotChecked
        /\ check'.version = check.version /\ check'.writes = check.writes
        /\ check'.model = check.model
        /\ \/ check'.step = "done" /\ check'.outcome = "unchanged"
           \/ check'.step = "planned"
    BY <1>1, <2>1 DEF NotChecked
  <2>3. QED
    BY <1>1, <2>2, GoOnOrFail, EndCheckInv DEF CheckSteps, Asking
<1>6. QED
  BY <1>4, <1>5

(* The write.                                                              *)
LEMMA WriteCheckInv ==
    ASSUME IInv, CheckInv, CheckWrite
    PROVE  CheckInv'
<1> DEFINE error == PriorityError(CheckOperation, check.plan)
<1>1. /\ UNCHANGED <<session, profile, store, job, operations, effects>>
      /\ check.step = "writing" /\ job.step = "idle"
      /\ DOMAIN check = DOMAIN NotChecked /\ check.version \in Nat
      /\ check.writes = 0
      /\ session # "Unresolved" /\ profile = check.model /\ store # Nothing
  BY DEF CheckWrite, sessionVars, monitorVars, operationVars, CheckInv, CheckTypes,
         WorkerIsChecking, Checking, OneProfile, Asking, CheckWritesFit, SnapshotThere
<1>2. error \in {"none", "Conflict", "Unavailable", "Rejected"}
  BY GatewayErrors
<1>3. \/ error # "none" /\ CheckFail(error) /\ UNCHANGED machine
      \/ /\ error = "none"
         /\ machine' = Written(CheckOperation, check.plan)
         /\ check' = [check EXCEPT !.step = "reading", !.writes = @ + 1]
  BY DEF CheckWrite, machineVars
<1>4. error = "none" => check.version = machine.version
  BY GatewayErrors DEF CheckOperation
<1> HIDE DEF error
<1>5. CASE error # "none"
  BY <1>1, <1>2, <1>3, <1>5, FailCheckInv DEF CheckCodes
<1>6. CASE error = "none"
  <2>0. check' = [[check EXCEPT !.step = "reading"] EXCEPT !.writes = @ + 1]
    BY <1>3, <1>6
  <2>1. /\ DOMAIN check' = DOMAIN NotChecked /\ check'.step = "reading"
        /\ check'.writes = 1 /\ check'.version = check.version
        /\ check'.model = check.model
    BY <1>1, <2>0 DEF NotChecked
  <2>2. CheckTypes' /\ SnapshotThere' /\ WorkerIsChecking' /\ OneProfile'
          /\ CheckWritesFit'
    BY <1>1, <2>1 DEF CheckTypes, SnapshotThere, WorkerIsChecking, OneProfile,
                      CheckWritesFit, CheckSteps, Asking
  <2>3. machine.version \in Nat /\ machine'.version = machine.version + 1
    <3>1. machine = Frame(machine, machine.version, machine.number)
          /\ machine.version \in Nat
      BY DEF IInv, TypeOK
    <3>2. QED
      BY <1>3, <1>6, <3>1 DEF Written, Frame, CheckOperation
  <2>4. CheckIsOneOfTheWriters'
    <3>1. ASSUME NEW i \in 1 .. Len(operations), effects[i] # 0
          PROVE  operations[i].version # machine.version
      <4>1. operations[i].version < machine.version /\ operations[i].version \in Nat
        BY <3>1 DEF IInv, WritersAreBehind, Shape
      <4>2. QED
        BY <2>3, <4>1
    <3>2. QED
      BY <1>1, <1>4, <1>6, <2>1, <2>3, <3>1 DEF CheckIsOneOfTheWriters
  <2>5. QED
    BY <2>2, <2>4 DEF CheckInv
<1>7. QED
  BY <1>5, <1>6

LEMMA ReadBackCheckInv ==
    ASSUME CheckInv, CheckReadBack
    PROVE  CheckInv'
<1>1. /\ UNCHANGED vars /\ check.step = "reading"
      /\ DOMAIN check = DOMAIN NotChecked
      /\ \/ check' = [check EXCEPT !.step = "done", !.outcome = "changed"]
         \/ CheckFail("InvalidResponse")
  BY DEF CheckReadBack, CheckInv, CheckTypes
<1>2. CASE CheckFail("InvalidResponse")
  <2>1. UNCHANGED <<session, profile, store, machine, operations, effects>>
    BY <1>1 DEF vars, sessionVars, machineVars, monitorVars, operationVars
  <2>2. QED
    BY <1>1, <1>2, <2>1, FailCheckInv DEF CheckCodes
<1>3. CASE check' = [check EXCEPT !.step = "done", !.outcome = "changed"]
  BY <1>1, <1>3, EndCheckInv DEF NotChecked
<1>4. QED
  BY <1>1, <1>2, <1>3
-----------------------------------------------------------------------------
LEMMA CheckNextInv == IInv /\ CheckInv /\ [CheckNext]_checkedVars => CheckInv'
<1> SUFFICES ASSUME IInv, CheckInv, [CheckNext]_checkedVars PROVE CheckInv'
  OBVIOUS
<1>1. CASE Others
  BY <1>1, OthersCheckInv
<1>2. CASE PrepareCheck \/ SubmitCheck
  BY <1>2, CallerCheckInv
<1>3. CASE Check
  BY <1>3, SessionCheckInv, CallCheckInv, PlanCheckInv, WriteCheckInv,
     ReadBackCheckInv DEF Check
<1>4. CASE UNCHANGED checkedVars
  BY <1>4 DEF checkedVars, vars, sessionVars, machineVars, monitorVars,
       operationVars, CheckInv, CheckTypes, SnapshotThere, WorkerIsChecking,
       Checking, OneProfile, CheckWritesFit, CheckIsOneOfTheWriters
<1>5. QED
  BY <1>1, <1>2, <1>3, <1>4 DEF CheckNext

(* The inductive invariant of the operations still holds when the check    *)
(* writes among them, and the check keeps its own.                         *)
THEOREM CheckedInvariance == CheckSpec => [](IInv /\ CheckInv)
  BY CheckInitOK, CheckedIInv, CheckNextInv, PTL DEF CheckSpec

(* The machine's queue stays a queue and no operation is left behind,      *)
(* whatever the external system answers (ApplyPriorityChange).             *)
THEOREM CheckedTypeCorrect == CheckSpec => []TypeOK
  BY CheckedInvariance, PTL DEF IInv

(* What an operation or the check reports is what it did: at most one      *)
(* write, and none behind an error other than InvalidResponse (Execute).   *)
THEOREM CheckedWritesCorrect == CheckSpec => []CheckWritesFit
  BY CheckedInvariance, PTL DEF CheckInv

(* Of the check and of all the operations submitted for one version of the *)
(* snapshot, the machine accepts at most one (the version check and Next   *)
(* of FakeMachineGateway).                                                 *)
THEOREM CheckedOneWrite ==
    CheckSpec => [](OneWritePerVersion /\ CheckIsOneOfTheWriters)
  BY CheckedInvariance, PTL DEF IInv, CheckInv

(* From the request on, the whole call is about one profile, which is      *)
(* still the one of the session when the plan is written                   *)
(* (ComQueuePriorityCheckGateway::Check, ConfirmSameProfile).              *)
THEOREM CheckedOneProfile == CheckSpec => []OneProfile
  BY CheckedInvariance, PTL DEF CheckInv

(* Once a mismatch is latched, neither is a call begun nor a write         *)
(* prepared (ConfirmSameProfile, and RequireProfile before the write).     *)
THEOREM CheckedLatch == CheckSpec => NothingBegunOnceLatched
<1>1. ASSUME IInv, CheckInv, [CheckNext]_checkedVars, session = "MismatchLatched",
             check'.step \in {"calling", "planning", "writing"}
      PROVE  check'.step = check.step
  <2>0. DOMAIN check = DOMAIN NotChecked
    BY <1>1 DEF CheckInv, CheckTypes
  <2>1. ProfileError = "Conflict" /\ ProfileChanged = "Conflict"
    BY <1>1 DEF ProfileError, ProfileChanged
  <2>2. \A code : CheckFail(code) => check'.step = "done"
    BY DEF CheckFail, NotChecked
  <2>3. CASE Others \/ UNCHANGED checkedVars
    BY <2>3 DEF Others, checkedVars
  <2>4. CASE PrepareCheck \/ SubmitCheck \/ CheckValidate \/ GatewaySerialize
               \/ GatewayCall \/ GatewayParse \/ CheckPlan \/ CheckReadBack
    BY <1>1, <2>0, <2>2, <2>4
       DEF PrepareCheck, SubmitCheck, CheckValidate, GatewaySerialize, GatewayCall,
           GatewayParse, CheckPlan, CheckReadBack, CheckProceed, NotChecked
  <2>5. CASE CheckRequireProfile \/ CheckRecheckProfile \/ GatewayConfirmBefore
               \/ GatewayConfirmAfter \/ GatewayConfirmReturn
    BY <1>1, <2>1, <2>2, <2>5
       DEF CheckRequireProfile, CheckRecheckProfile, GatewayConfirmBefore, ConfirmAt,
           GatewayConfirmAfter, GatewayConfirmReturn, WithProfile
  <2>6. CASE CheckWrite
    BY <1>1, <2>0, <2>2, <2>6 DEF CheckWrite, NotChecked
  <2>7. QED
    BY <1>1, <2>3, <2>4, <2>5, <2>6 DEF CheckNext, Check
<1>2. QED
  BY <1>1, CheckedInvariance, PTL DEF CheckSpec, NothingBegunOnceLatched
-----------------------------------------------------------------------------
(* A one-to-one function on 1 .. n reaches every number of it.             *)
LEMMA OneToOneIsOnto ==
    ASSUME NEW n \in Nat, NEW f \in [1 .. n -> 1 .. n],
           \A i, k \in 1 .. n : f[i] = f[k] => i = k
    PROVE  \A j \in 1 .. n : \E i \in 1 .. n : f[i] = j
<1> 1 \in Int /\ n \in Int
  OBVIOUS
<1>1. IsFiniteSet(1 .. n)
  BY FS_Interval
<1>2. f \in Injection(1 .. n, 1 .. n)
  BY DEF Injection, IsInjective
<1>3. f \in Surjection(1 .. n, 1 .. n)
  BY <1>1, <1>2, FS_Injection
<1> QED
  BY <1>3 DEF Surjection

(* An answer without a contract error answers for each workpiece asked     *)
(* about, and for each once.                                               *)
LEMMA ContractMeans ==
    ASSUME NEW request, NEW document, ContractError(request, document) = "none"
    PROVE  /\ Len(request) = Len(document)
           /\ Unique(request, "id") /\ Unique(document, "id")
           /\ \A i \in DOMAIN request :
                 /\ WellFormed(request[i])
                 /\ \E j \in DOMAIN document : ResultFits(request[i], document[j])
  BY DEF ContractError

(* What a result that fits says of the tools is what was asked.            *)
TotalsOf(e) == {<<t, Total(e, t)>> : t \in ToolsOf(e)}
Told(r) == {<<u.tool, u.total>> : u \in ToSet(r.tools)}

LEMMA ToldIsAsked ==
    ASSUME NEW w, NEW r, ResultFits(w, r)
    PROVE  <<r.id, r.priority, Told(r)>> = <<w.id, w.priority, TotalsOf(w)>>
<1>1. /\ r.id = w.id /\ r.priority = w.priority
      /\ {r.tools[k].tool : k \in DOMAIN r.tools} = ToolsOf(w)
      /\ \A k \in DOMAIN r.tools : r.tools[k].total = Total(w, r.tools[k].tool)
  BY DEF ResultFits
<1>2. Told(r) = TotalsOf(w)
  BY <1>1 DEF Told, TotalsOf, ToSet
<1> QED
  BY <1>1, <1>2

(* Each result of the document is about one of the workpieces asked about: *)
(* there are as many, and no workpiece has two.                            *)
LEMMA EveryResultWasAskedFor ==
    ASSUME NEW request, NEW document, ContractError(request, document) = "none",
           Len(request) \in Nat, DOMAIN request = 1 .. Len(request),
           DOMAIN document = 1 .. Len(document)
    PROVE  \A j \in DOMAIN document : \E i \in DOMAIN request :
              ResultFits(request[i], document[j])
<1> DEFINE n == Len(request)
           f == [i \in 1 .. n |->
                   CHOOSE j \in DOMAIN document : ResultFits(request[i], document[j])]
<1>1. /\ Len(document) = n /\ Unique(request, "id")
      /\ \A i \in 1 .. n : \E j \in DOMAIN document : ResultFits(request[i], document[j])
  BY ContractMeans
<1>2. \A i \in 1 .. n : f[i] \in 1 .. n /\ ResultFits(request[i], document[f[i]])
  BY <1>1
<1>3. f \in [1 .. n -> 1 .. n]
  BY <1>2
<1> HIDE DEF f
<1>4. ASSUME NEW i \in 1 .. n, NEW k \in 1 .. n, f[i] = f[k]
      PROVE  i = k
  <2>1. request[i].id = document[f[i]].id /\ request[k].id = document[f[k]].id
    BY <1>2 DEF ResultFits
  <2> QED
    BY <1>1, <1>4, <2>1 DEF Unique
<1>5. \A j \in 1 .. n : \E i \in 1 .. n : f[i] = j
  BY <1>3, <1>4, OneToOneIsOnto
<1> QED
  BY <1>1, <1>2, <1>5
-----------------------------------------------------------------------------
(* The request has the workpiece of priority p at position p.              *)
RequestFits ==
    /\ Len(check.request) \in Nat
    /\ DOMAIN check.request = 1 .. Len(check.request)
    /\ \A p \in DOMAIN check.request : check.request[p].priority = p

DocumentFits ==
    /\ Len(check.document) \in Nat
    /\ DOMAIN check.document = 1 .. Len(check.document)

(* The answer has been used.                                               *)
Used == check.step \in {"planned", "writing", "reading"} \/ Successful

(* The tools of the request are tools of the profile of the call.          *)
ToolsFit ==
    check.step \in Asking \/ Successful =>
        /\ session # "Unresolved" /\ profile = check.model
        /\ \A p \in DOMAIN check.request :
              ToolsOf(check.request[p]) \subseteq UsableTools[profile]

FirstOf(request, document) ==
    LET order == Reordered(request, document)
    IN  IF order # << >> /\ IsExecutable(document, order[1].id)
        THEN order[1].id ELSE "none"

(* The plan is the one that follows from the request and the answer, which *)
(* have not changed since.                                                 *)
PlanFits ==
    Used =>
        /\ ContractError(check.request, check.document) = "none"
        /\ check.plan = Assignments(Reordered(check.request, check.document))
        /\ check.first = FirstOf(check.request, check.document)
        /\ check.outcome = "unchanged" => check.plan = {}

AnswerInv == RequestFits /\ DocumentFits /\ ToolsFit /\ PlanFits

(* The positions of the workpieces that can be executed.                   *)
Executables ==
    {p \in DOMAIN check.request :
        IsExecutable(check.document, check.request[p].id)}

(* What the properties say of a workpiece asked about, in terms of its     *)
(* position in the request.                                                *)
LEMMA AskedAtPosition ==
    ASSUME RequestFits, ContractError(check.request, check.document) = "none",
           NEW p \in DOMAIN check.request
    PROVE  /\ AskedAt(check.request[p].id) = p
           /\ Says(check.request[p].id) <=> p \in Executables
<1> DEFINE w == check.request[p].id
<1>1. /\ \A i, j \in DOMAIN check.request :
            check.request[i].id = check.request[j].id => i = j
      /\ \A i, j \in DOMAIN check.document :
            check.document[i].id = check.document[j].id => i = j
      /\ \E j \in DOMAIN check.document : check.document[j].id = w
  <2>1. /\ Unique(check.request, "id") /\ Unique(check.document, "id")
        /\ \E j \in DOMAIN check.document :
              ResultFits(check.request[p], check.document[j])
    BY ContractMeans
  <2>2. \E j \in DOMAIN check.document : check.document[j].id = w
    BY <2>1 DEF ResultFits
  <2> QED
    BY <2>1, <2>2 DEF Unique
<1>2. AskedAt(w) = p
  <2>1. \A e \in ToSet(check.request) : e.id = w => e = check.request[p]
    BY <1>1 DEF ToSet
  <2>2. check.request[p] \in ToSet(check.request)
    BY DEF ToSet
  <2>3. (CHOOSE e \in ToSet(check.request) : e.id = w) = check.request[p]
    BY <2>1, <2>2
  <2> QED
    BY <2>3 DEF AskedAt, RequestFits
<1>3. Says(w) <=> p \in Executables
  <2> DEFINE j == CHOOSE k \in DOMAIN check.document : check.document[k].id = w
  <2>1. /\ j \in DOMAIN check.document /\ check.document[j].id = w
        /\ \A k \in DOMAIN check.document : check.document[k].id = w => k = j
    BY <1>1
  <2>2. IsExecutable(check.document, w) <=> check.document[j].executable
    BY DEF IsExecutable
  <2> HIDE DEF j
  <2>3. Says(w) <=> check.document[j].executable
    BY <2>1 DEF Says
  <2> QED
    BY <2>2, <2>3 DEF Executables
<1> QED
  BY <1>2, <1>3

(* Counting the workpieces that come before is counting positions.         *)
LEMMA PositionIsPlace ==
    ASSUME RequestFits, ContractError(check.request, check.document) = "none",
           NEW p \in DOMAIN check.request
    PROVE  Position(check.request[p].id) = PlaceOf(Len(check.request), Executables, p)
<1> DEFINE n == Len(check.request)
           Id(q) == check.request[q].id
           before == {q \in 1 .. n : Precedes(Executables, q, p)}
           first == {v \in Asked : \/ Says(v) /\ ~Says(Id(p))
                                   \/ /\ Says(v) = Says(Id(p))
                                      /\ AskedAt(v) < AskedAt(Id(p))}
           f == [q \in before |-> Id(q)]
<1>1. /\ n \in Nat /\ DOMAIN check.request = 1 .. n
      /\ Executables \in SUBSET (1 .. n)
  BY DEF RequestFits, Executables
<1>2. \A i, j \in 1 .. n : Id(i) = Id(j) => i = j
  BY <1>1, ContractMeans DEF Unique
<1>3. \A q \in 1 .. n : Id(q) \in first <=> Precedes(Executables, q, p)
  <2> TAKE q \in 1 .. n
  <2>1. Id(q) \in Asked
    BY <1>1 DEF Asked
  <2>2. /\ AskedAt(Id(q)) = q /\ AskedAt(Id(p)) = p
        /\ Says(Id(q)) <=> q \in Executables
        /\ Says(Id(p)) <=> p \in Executables
    BY <1>1, AskedAtPosition
  <2>3. (Says(Id(q)) = Says(Id(p))) <=> (q \in Executables <=> p \in Executables)
    BY <2>2 DEF Says
  <2> QED
    BY <2>1, <2>2, <2>3 DEF Precedes
<1>4. \A v \in first : \E q \in 1 .. n : Id(q) = v
  BY <1>1 DEF Asked
<1> HIDE DEF first
<1>5. /\ f \in [before -> first]
      /\ \A i, j \in before : f[i] = f[j] => i = j
      /\ \A v \in first : \E q \in before : f[q] = v
  BY <1>2, <1>3, <1>4
<1> HIDE DEF f, before
<1>6. ExistsBijection(before, first)
  BY <1>5 DEF ExistsBijection, Bijection, Injection, Surjection, IsInjective
<1>7. /\ IsFiniteSet(before)
      /\ PlaceOf(n, Executables, p) = 1 + Cardinality(before)
  BY <1>1, PlaceByCounting DEF before
<1>8. Cardinality(first) = Cardinality(before)
  BY <1>6, <1>7, FS_Bijection
<1> QED
  BY <1>7, <1>8 DEF Position, first

(* The new order has each workpiece where Position says.                   *)
LEMMA OrderFollowsAnswer ==
    ASSUME RequestFits, ContractError(check.request, check.document) = "none"
    PROVE  LET order == Reordered(check.request, check.document)
               n == Len(check.request)
               At(p) == Position(check.request[p].id)
           IN  /\ DOMAIN order = 1 .. n
               /\ n = 0 => order = << >>
               /\ \A p \in 1 .. n : At(p) \in 1 .. n /\ order[At(p)] = check.request[p]
               /\ \A k \in 1 .. n : \E p \in 1 .. n : At(p) = k
<1>1. /\ Len(check.request) \in Nat /\ DOMAIN check.request = 1 .. Len(check.request)
      /\ Executables \in SUBSET (1 .. Len(check.request))
  BY DEF RequestFits, Executables
<1>2. Reordered(check.request, check.document) = Partitioned(check.request, Executables)
  BY DEF Reordered, Executables
<1>3. \A p \in 1 .. Len(check.request) :
         Position(check.request[p].id) = PlaceOf(Len(check.request), Executables, p)
  BY <1>1, PositionIsPlace
<1> DEFINE n == Len(check.request)
           order == Partitioned(check.request, Executables)
<1>4. /\ DOMAIN order = 1 .. n
      /\ n = 0 => order = << >>
      /\ \A p \in 1 .. n : /\ PlaceOf(n, Executables, p) \in 1 .. n
                           /\ order[PlaceOf(n, Executables, p)] = check.request[p]
      /\ \A k \in 1 .. n : \E p \in 1 .. n : PlaceOf(n, Executables, p) = k
  BY <1>1, PartitionedPlaces
<1> HIDE DEF order
<1> QED
  BY <1>2, <1>3, <1>4 DEF order

(* The plan moves exactly those whose position is another one.             *)
Entry(p) == [workpiece |-> check.request[p].id, expected |-> p,
             desired |-> Position(check.request[p].id)]

LEMMA PlanEntries ==
    ASSUME RequestFits, ContractError(check.request, check.document) = "none"
    PROVE  LET plan == Assignments(Reordered(check.request, check.document))
           IN  /\ \A a \in plan : \E p \in DOMAIN check.request :
                     a = Entry(p) /\ Position(check.request[p].id) # p
               /\ \A p \in DOMAIN check.request :
                     Position(check.request[p].id) # p => Entry(p) \in plan
<1> DEFINE order == Reordered(check.request, check.document)
           n == Len(check.request)
           At(p) == Position(check.request[p].id)
<1>1. /\ DOMAIN order = 1 .. n
      /\ \A p \in 1 .. n : At(p) \in 1 .. n /\ order[At(p)] = check.request[p]
      /\ \A k \in 1 .. n : \E p \in 1 .. n : At(p) = k
  BY OrderFollowsAnswer
<1>2. DOMAIN check.request = 1 .. n /\ \A p \in 1 .. n : check.request[p].priority = p
  BY DEF RequestFits
<1>3. \A p \in 1 .. n : order[At(p)].id = check.request[p].id /\ order[At(p)].priority = p
  BY <1>1, <1>2
<1>4. \A p \in 1 .. n : Entry(p) = [workpiece |-> order[At(p)].id,
                                    expected |-> order[At(p)].priority,
                                    desired |-> At(p)]
  BY <1>3 DEF Entry
<1> HIDE DEF order, At
<1>5. Assignments(order) =
        {[workpiece |-> order[k].id, expected |-> order[k].priority, desired |-> k] :
            k \in {j \in 1 .. n : order[j].priority # j}}
  BY <1>1 DEF Assignments
<1>6. ASSUME NEW a \in Assignments(order)
      PROVE  \E p \in 1 .. n : a = Entry(p) /\ At(p) # p
  <2>1. PICK k \in 1 .. n : /\ order[k].priority # k
                            /\ a = [workpiece |-> order[k].id,
                                    expected |-> order[k].priority, desired |-> k]
    BY <1>5
  <2>2. PICK p \in 1 .. n : At(p) = k
    BY <1>1
  <2> QED
    BY <1>3, <1>4, <2>1, <2>2
<1>7. ASSUME NEW p \in 1 .. n, At(p) # p
      PROVE  Entry(p) \in Assignments(order)
  BY <1>1, <1>3, <1>4, <1>5, <1>7
<1> QED
  BY <1>2, <1>6, <1>7 DEF order, At

(* The first workpiece of the new order is offered if it can be executed,  *)
(* which it can if any can.                                                *)
LEMMA FirstIsExecutable ==
    ASSUME RequestFits, ContractError(check.request, check.document) = "none"
    PROVE  LET first == FirstOf(check.request, check.document)
           IN  IF \E w \in Asked : Says(w)
               THEN Says(first) /\ Position(first) = 1
               ELSE first = "none"
<1> DEFINE order == Reordered(check.request, check.document)
           n == Len(check.request)
           At(p) == Position(check.request[p].id)
<1>1. /\ DOMAIN order = 1 .. n
      /\ n = 0 => order = << >>
      /\ \A p \in 1 .. n : At(p) \in 1 .. n /\ order[At(p)] = check.request[p]
      /\ \A k \in 1 .. n : \E p \in 1 .. n : At(p) = k
  BY OrderFollowsAnswer
<1>2. /\ n \in Nat /\ DOMAIN check.request = 1 .. n
      /\ Executables \in SUBSET (1 .. n)
  BY DEF RequestFits, Executables
<1>3. FirstOf(check.request, check.document) =
        IF order # << >> /\ IsExecutable(check.document, order[1].id)
        THEN order[1].id ELSE "none"
  BY DEF FirstOf
<1>4. \A p \in 1 .. n : Says(check.request[p].id) <=> p \in Executables
  BY <1>2, AskedAtPosition
<1>5. \A p \in 1 .. n :
         IsExecutable(check.document, check.request[p].id) <=> p \in Executables
  BY <1>2 DEF Executables
<1>6. \A p \in 1 .. n : At(p) = PlaceOf(n, Executables, p)
  BY <1>2, PositionIsPlace
<1>7. Asked = {check.request[p].id : p \in 1 .. n}
  BY <1>2 DEF Asked
<1>8. CASE \E w \in Asked : Says(w)
  <2>1. PICK q \in Executables : q \in 1 .. n
    BY <1>4, <1>7, <1>8
  <2>2. 1 \in 1 .. n /\ order # << >>
    BY <1>1, <1>2, <2>1
  <2>3. PICK p \in 1 .. n : At(p) = 1
    BY <1>1, <2>2
  <2>4. p \in Executables
    <3> SUFFICES ASSUME p \notin Executables PROVE FALSE
      OBVIOUS
    <3>1. At(p) = Cardinality(Executables) + Rank((1 .. n) \ Executables, p)
      BY <1>6 DEF PlaceOf
    <3>2. /\ Cardinality(Executables) \in Nat /\ Cardinality(Executables) # 0
      BY <1>2, <2>1, RankCounts, FS_EmptySet
    <3>3. Rank((1 .. n) \ Executables, p) \in Nat
          /\ Rank((1 .. n) \ Executables, p) # 0
      <4> DEFINE rest == (1 .. n) \ Executables
      <4>1. rest \in SUBSET (1 .. n) /\ p \in rest /\ p \in 1 .. n /\ p - 1 \in 0 .. n
        OBVIOUS
      <4> HIDE DEF rest
      <4>2. /\ \A k \in 1 .. n : Rank(rest, k) =
                  Rank(rest, k - 1) + (IF k \in rest THEN 1 ELSE 0)
            /\ \A k \in 0 .. n : Rank(rest, k) \in Nat
        BY <1>2, <4>1, RankCounts
      <4>3. Rank(rest, p) = Rank(rest, p - 1) + 1 /\ Rank(rest, p - 1) \in Nat
        BY <4>1, <4>2
      <4>4. Rank(rest, p) \in Nat /\ Rank(rest, p) # 0
        BY <4>3
      <4> QED
        BY <4>4 DEF rest
    <3> QED
      BY <2>3, <3>1, <3>2, <3>3
  <2>5. order[1] = check.request[p] /\ Says(check.request[p].id)
        /\ IsExecutable(check.document, check.request[p].id)
    BY <1>1, <1>4, <1>5, <2>3, <2>4
  <2>6. FirstOf(check.request, check.document) = check.request[p].id
    BY <1>3, <2>2, <2>5
  <2> QED
    BY <1>8, <2>3, <2>5, <2>6
<1>9. CASE ~\E w \in Asked : Says(w)
  <2>1. order = << >> \/ ~IsExecutable(check.document, order[1].id)
    <3> SUFFICES ASSUME order # << >>
                 PROVE  ~IsExecutable(check.document, order[1].id)
      OBVIOUS
    <3>1. 1 \in 1 .. n
      BY <1>1, <1>2
    <3>2. PICK p \in 1 .. n : At(p) = 1
      BY <1>1, <3>1
    <3> QED
      BY <1>1, <1>4, <1>5, <1>7, <1>9, <3>2
  <2> QED
    BY <1>3, <1>9, <2>1
<1> QED
  BY <1>8, <1>9

-----------------------------------------------------------------------------
(* A good list makes a request with each workpiece at its priority.        *)
LEMMA RequestByPriority ==
    ASSUME NEW n \in Nat, NEW list, Len(list) = n, DOMAIN list = 1 .. n, NEW model,
           \A i \in 1 .. n : {"id", "priority", "instructions"} = DOMAIN list[i],
           RequestErrors(model, list) = {}
    PROVE  /\ Len(Request(list)) = n /\ DOMAIN Request(list) = 1 .. n
           /\ \A p \in 1 .. n : Request(list)[p].priority = p
<1>1. {list[i].priority : i \in DOMAIN list} = 1 .. n
  <2>1. "InvalidArgument" \notin RequestErrors(model, list)
    OBVIOUS
  <2> QED
    BY <2>1 DEF RequestErrors
<1>2. /\ DOMAIN Request(list) = 1 .. n /\ Len(Request(list)) = n
      /\ \A p \in 1 .. n : Request(list)[p] =
            SortInstructions(list[CHOOSE i \in DOMAIN list : list[i].priority = p])
  BY DEF Request
<1>3. ASSUME NEW p \in 1 .. n
      PROVE  Request(list)[p].priority = p
  <2> DEFINE i == CHOOSE k \in DOMAIN list : list[k].priority = p
  <2>1. i \in 1 .. n /\ list[i].priority = p
    BY <1>1
  <2> HIDE DEF i
  <2>2. SortInstructions(list[i]).priority = list[i].priority
    BY <2>1 DEF SortInstructions
  <2> QED
    BY <1>2, <2>1, <2>2 DEF i
<1> QED
  BY <1>2, <1>3

(* Whatever the external system answers, it answers a sequence.            *)
LEMMA DocumentsAreSequences ==
    ASSUME RequestFits, NEW document \in Documents
    PROVE  Len(document) \in Nat /\ DOMAIN document = 1 .. Len(document)
<1> DEFINE IsList(s) == Len(s) \in Nat /\ DOMAIN s = 1 .. Len(s)
           all == Correct(Asked)
<1>1. ASSUME NEW executable
      PROVE  /\ Correct(executable) = [i \in 1 .. Len(check.request) |->
                                         Correct(executable)[i]]
             /\ IsList(Correct(executable))
  BY DEF Correct, RequestFits
<1>2. ASSUME NEW executable PROVE IsList(Reverse(Correct(executable)))
  <2> DEFINE s == Correct(executable)
  <2>1. IsList(s)
    BY <1>1
  <2> HIDE DEF s
  <2>2. IsList(Reverse(s))
    BY <2>1 DEF Reverse
  <2> QED
    BY <2>2 DEF s
<1>3. ASSUME Asked # {}
      PROVE  /\ IsList(Tail(all)) /\ \A x : IsList(Append(all, x))
             /\ \A x : IsList([all EXCEPT ![1] = x])
  <2> DEFINE s == Correct(Asked)
             V == {s[i] : i \in 1 .. Len(check.request)}
  <2>1. s = [i \in 1 .. Len(check.request) |-> s[i]] /\ Len(check.request) \in Nat
    BY <1>1 DEF RequestFits
  <2> HIDE DEF s
  <2>2. s \in Seq(V) /\ s # << >>
    BY <1>3, <2>1 DEF Asked, RequestFits
  <2> HIDE DEF V
  <2>3. IsList(Tail(s))
    BY <2>2
  <2>4. ASSUME NEW x PROVE IsList(Append(s, x)) /\ IsList([s EXCEPT ![1] = x])
    <3>1. s \in Seq(V \cup {x})
      BY <2>2
    <3> DEFINE t == [s EXCEPT ![1] = x]
    <3>2. Append(s, x) \in Seq(V \cup {x})
      BY <3>1
    <3>3. DOMAIN t = 1 .. Len(check.request) /\ t = [i \in 1 .. Len(check.request) |-> t[i]]
      BY <2>1
    <3>4. Len(t) = Len(check.request)
      <4> HIDE DEF t
      <4> QED
        BY <2>1, <3>3
    <3> QED
      BY <2>1, <3>2, <3>3, <3>4
  <2> QED
    BY <2>3, <2>4 DEF s
<1>4. \/ \E executable : document = Correct(executable)
      \/ \E executable : document = Reverse(Correct(executable))
      \/ Asked # {} /\ document \in Botched(all)
  BY DEF Documents, Honest
<1>5. document \in Botched(all) =>
         \/ document \in {Tail(all), Append(all, Head(all))}
         \/ \E x : document = [all EXCEPT ![1] = x]
  <2> HIDE DEF all
  <2> QED
    BY DEF Botched
<1> HIDE DEF all, IsList
<1>6. IsList(document)
  BY <1>1, <1>2, <1>3, <1>4, <1>5
<1> QED
  BY <1>6 DEF IsList

LEMMA InitAnswerInv == CheckInit => AnswerInv
  BY DEF CheckInit, AnswerInv, RequestFits, DocumentFits, ToolsFit, PlanFits, Used,
         Successful, NotChecked, Asking

(* A check that is given up knows no request and uses no answer.           *)
LEMMA FailAnswerInv ==
    ASSUME NEW code \in CheckCodes, CheckFail(code) PROVE AnswerInv'
<1>1. /\ check'.step = "done" /\ check'.outcome = code
      /\ check'.request = << >> /\ check'.document = << >>
  BY DEF CheckFail, NotChecked
<1>2. RequestFits' /\ DocumentFits'
  BY <1>1 DEF RequestFits, DocumentFits
<1>3. ~Successful' /\ check'.step \notin Asking /\ ~Used'
  BY <1>1 DEF Successful, Used, Asking, CheckCodes
<1> QED
  BY <1>2, <1>3 DEF AnswerInv, ToolsFit, PlanFits

(* What the parts of the invariant speak of.                               *)
SameAnswer ==
    /\ check'.request = check.request /\ check'.document = check.document
    /\ check'.plan = check.plan /\ check'.first = check.first
    /\ check'.model = check.model

LEMMA KeepAnswerInv ==
    ASSUME AnswerInv, SameAnswer,
           session # "Unresolved" => session' # "Unresolved" /\ profile' = profile,
           check'.step \in Asking \/ Successful' => check.step \in Asking \/ Successful,
           Used' => Used,
           Used' /\ check'.outcome = "unchanged" => check.outcome = "unchanged"
    PROVE  AnswerInv'
<1>1. RequestFits' /\ DocumentFits'
  BY DEF AnswerInv, RequestFits, DocumentFits, SameAnswer
<1>2. ToolsFit'
  BY DEF AnswerInv, ToolsFit, SameAnswer
<1>3. PlanFits'
  BY DEF AnswerInv, PlanFits, SameAnswer
<1> QED
  BY <1>1, <1>2, <1>3 DEF AnswerInv

LEMMA PrepareAnswerInv == IInv /\ CheckInv /\ AnswerInv /\ PrepareCheck => AnswerInv'
<1> SUFFICES ASSUME CheckInv, AnswerInv, PrepareCheck PROVE AnswerInv'
  OBVIOUS
<1>1. PICK recipe \in Recipes, n \in 0 .. Cardinality(Workpieces) :
      \E who \in [1 .. n -> DOMAIN store.priority] :
         /\ RequestErrors(profile, Listed(recipe, who)) = {}
         /\ check' = [check EXCEPT !.step = "prepared",
                                   !.request = Request(Listed(recipe, who))]
  BY DEF PrepareCheck
<1>2. PICK who \in [1 .. n -> DOMAIN store.priority] :
         /\ RequestErrors(profile, Listed(recipe, who)) = {}
         /\ check' = [check EXCEPT !.step = "prepared",
                                   !.request = Request(Listed(recipe, who))]
  BY <1>1
<1>3. n \in Nat
  BY CheckAssumption, FS_CardinalityType
<1> DEFINE list == Listed(recipe, who)
<1>4. /\ DOMAIN list = 1 .. n /\ Len(list) = n
      /\ \A i \in 1 .. n : DOMAIN list[i] = {"id", "priority", "instructions"}
  BY <1>3 DEF Listed
<1>5. DOMAIN check = DOMAIN NotChecked
  BY DEF CheckInv, CheckTypes
<1> HIDE DEF list
<1>6. /\ check'.step = "prepared" /\ check'.request = Request(list)
      /\ check'.document = check.document
  BY <1>2, <1>5 DEF NotChecked, list
<1>7. RequestFits'
  <2>1. RequestErrors(profile, list) = {}
    BY <1>2 DEF list
  <2>2. /\ Len(Request(list)) = n /\ DOMAIN Request(list) = 1 .. n
        /\ \A p \in 1 .. n : Request(list)[p].priority = p
    BY <1>3, <1>4, <2>1, RequestByPriority
  <2> QED
    BY <1>3, <1>6, <2>2 DEF RequestFits
<1>8. DocumentFits'
  BY <1>6 DEF AnswerInv, DocumentFits
<1>9. ToolsFit' /\ PlanFits'
  BY <1>6 DEF ToolsFit, PlanFits, Used, Successful, Asking
<1> QED
  BY <1>7, <1>8, <1>9 DEF AnswerInv

(* The steps that leave request, answer and plan alone.                    *)
LEMMA StepsGoOn ==
    ASSUME IInv,
           \/ SubmitCheck \/ CheckRequireProfile \/ CheckValidate
           \/ GatewayConfirmBefore \/ GatewayConfirmAfter \/ GatewayParse
           \/ GatewayConfirmReturn \/ CheckRecheckProfile
    PROVE  \/ \E code \in CheckCodes : CheckFail(code)
           \/ check' = [check EXCEPT !.step = "submitted", !.version = store.version]
           \/ check.step = "validating" /\
              check' = [check EXCEPT !.step = "serializing", !.queue = store.priority]
           \/ check.step = "submitted" /\ CheckProceed("validating")
           \/ check.step = "planned" /\ CheckProceed("writing")
           \/ check.step \in Asking /\
              \E step \in {"calling", "parsing", "parsed", "planning"} : CheckProceed(step)
<1>1. CASE SubmitCheck
  BY <1>1 DEF SubmitCheck
<1>2. CASE CheckRequireProfile \/ CheckRecheckProfile
  BY <1>2, ProfileIsThere
     DEF CheckRequireProfile, CheckRecheckProfile, WithProfile, CheckCodes
<1>3. CASE CheckValidate
  <2>1. SnapshotError \in CheckCodes \cup {"none"}
    BY DEF SnapshotError, CheckCodes
  <2> QED
    BY <1>3, <2>1 DEF CheckValidate
<1>4. CASE GatewayConfirmBefore \/ GatewayConfirmAfter \/ GatewayConfirmReturn
  BY <1>4, ProfileIsThere
     DEF GatewayConfirmBefore, GatewayConfirmAfter, GatewayConfirmReturn,
         ConfirmAt, CheckCodes, Asking
<1>5. CASE GatewayParse
  BY <1>5 DEF GatewayParse, CheckCodes, Asking
<1> QED
  BY <1>1, <1>2, <1>3, <1>4, <1>5

LEMMA StepsOnAnswerInv ==
    ASSUME IInv, CheckInv, AnswerInv,
           \/ SubmitCheck \/ CheckRequireProfile \/ CheckValidate
           \/ GatewayConfirmBefore \/ GatewayConfirmAfter \/ GatewayParse
           \/ GatewayConfirmReturn \/ CheckRecheckProfile
    PROVE  AnswerInv'
<1>1. UNCHANGED <<session, profile>> /\ DOMAIN check = DOMAIN NotChecked
  BY DEF SubmitCheck, CheckRequireProfile, CheckValidate, GatewayConfirmBefore,
         GatewayConfirmAfter, GatewayParse, GatewayConfirmReturn, ConfirmAt,
         CheckRecheckProfile, vars, sessionVars, CheckInv, CheckTypes
<1>2. \/ \E code \in CheckCodes : CheckFail(code)
      \/ check' = [check EXCEPT !.step = "submitted", !.version = store.version]
      \/ check.step = "validating" /\
         check' = [check EXCEPT !.step = "serializing", !.queue = store.priority]
      \/ check.step = "submitted" /\ CheckProceed("validating")
      \/ check.step = "planned" /\ CheckProceed("writing")
      \/ check.step \in Asking /\
         \E step \in {"calling", "parsing", "parsed", "planning"} : CheckProceed(step)
  BY StepsGoOn
<1>3. CASE \E code \in CheckCodes : CheckFail(code)
  BY <1>3, FailAnswerInv
<1>4. CASE ~\E code \in CheckCodes : CheckFail(code)
  <2>1. /\ SameAnswer /\ check'.outcome = check.outcome
        /\ check'.step \in {"submitted", "serializing", "validating", "writing",
                             "calling", "parsing", "parsed", "planning"}
        /\ check'.step \in {"calling", "parsing", "parsed", "planning"} =>
              check.step \in Asking
        /\ check'.step = "writing" => check.step = "planned"
    BY <1>1, <1>2, <1>4 DEF CheckProceed, NotChecked, SameAnswer
  <2>2. /\ ~Successful' /\ check'.step \in Asking => check.step \in Asking
        /\ Used' => Used
    BY <2>1 DEF Asking, Used, Successful
  <2>3. session # "Unresolved" => session' # "Unresolved" /\ profile' = profile
    BY <1>1
  <2>4. check'.step \in Asking \/ Successful' => check.step \in Asking \/ Successful
    BY <2>1, <2>2 DEF Successful
  <2>5. Used' /\ check'.outcome = "unchanged" => check.outcome = "unchanged"
    BY <2>1
  <2> QED
    BY <2>1, <2>2, <2>3, <2>4, <2>5, KeepAnswerInv
<1> QED
  BY <1>3, <1>4

(* The request is serialized: its tools are tools of the profile.          *)
LEMMA SerializeAnswerInv ==
    ASSUME IInv, CheckInv, AnswerInv, GatewaySerialize PROVE AnswerInv'
<1>1. UNCHANGED <<session, profile>> /\ DOMAIN check = DOMAIN NotChecked
  BY DEF GatewaySerialize, vars, sessionVars, CheckInv, CheckTypes
<1>2. \/ \E code \in CheckCodes : CheckFail(code)
      \/ /\ session = "Resolved" /\ RequestErrors(profile, check.request) = {}
         /\ check' = [check EXCEPT !.step = "sending", !.model = profile]
  <2>1. SerializeErrors(profile, check.request) \subseteq CheckCodes
    BY DEF SerializeErrors, RequestErrors, CheckCodes
  <2> QED
    BY <2>1, ProfileIsThere DEF GatewaySerialize, SerializeErrors, CheckCodes
<1>3. CASE \E code \in CheckCodes : CheckFail(code)
  BY <1>3, FailAnswerInv
<1>4. CASE ~\E code \in CheckCodes : CheckFail(code)
  <2>1. /\ session = "Resolved" /\ RequestErrors(profile, check.request) = {}
        /\ check'.step = "sending" /\ check'.model = profile
        /\ check'.request = check.request /\ check'.document = check.document
    BY <1>1, <1>2, <1>4 DEF NotChecked
  <2>2. \A p \in DOMAIN check.request :
           ToolsOf(check.request[p]) \subseteq UsableTools[profile]
    <3>1. "UnsupportedData" \notin RequestErrors(profile, check.request)
      BY <2>1
    <3> QED
      BY <3>1 DEF RequestErrors
  <2>3. ToolsFit'
    BY <1>1, <2>1, <2>2 DEF ToolsFit
  <2>4. RequestFits' /\ DocumentFits' /\ PlanFits'
    BY <2>1 DEF AnswerInv, RequestFits, DocumentFits, PlanFits, Used, Successful
  <2> QED
    BY <2>3, <2>4 DEF AnswerInv
<1> QED
  BY <1>3, <1>4

(* The answer comes in.                                                    *)
LEMMA CallAnswerInv ==
    ASSUME IInv, CheckInv, AnswerInv, GatewayCall PROVE AnswerInv'
<1>1. UNCHANGED <<session, profile>> /\ DOMAIN check = DOMAIN NotChecked
      /\ check.step = "calling"
  BY DEF GatewayCall, vars, sessionVars, CheckInv, CheckTypes
<1>2. CASE \E code \in CheckCodes : CheckFail(code)
  BY <1>2, FailAnswerInv
<1>3. CASE ~\E code \in CheckCodes : CheckFail(code)
  <2>1. PICK document \in Documents :
           check' = [check EXCEPT !.step = "answered", !.document = document]
    BY <1>3 DEF GatewayCall, CheckCodes
  <2>2. /\ check'.step = "answered" /\ check'.document = document
        /\ check'.request = check.request /\ check'.model = check.model
    BY <1>1, <2>1 DEF NotChecked
  <2>3. DocumentFits'
    BY <2>2, DocumentsAreSequences DEF AnswerInv, DocumentFits
  <2>4. ToolsFit'
    BY <1>1, <2>2 DEF AnswerInv, ToolsFit, Asking
  <2>5. RequestFits' /\ PlanFits'
    BY <2>2 DEF AnswerInv, RequestFits, PlanFits, Used, Successful
  <2> QED
    BY <2>3, <2>4, <2>5 DEF AnswerInv
<1> QED
  BY <1>2, <1>3

(* The plan is made.                                                       *)
LEMMA PlanAnswerInv ==
    ASSUME IInv, CheckInv, AnswerInv, CheckPlan PROVE AnswerInv'
<1> DEFINE error == IF store.version # check.version THEN "Conflict"
                    ELSE PlanErrorOf(check.queue, check.request, check.document)
           new == Assignments(Reordered(check.request, check.document))
           offered == FirstOf(check.request, check.document)
<1>1. UNCHANGED <<session, profile>> /\ DOMAIN check = DOMAIN NotChecked
      /\ check.step = "planning"
  BY DEF CheckPlan, vars, sessionVars, CheckInv, CheckTypes
<1>2. /\ error \in CheckCodes \cup {"none"}
      /\ error = "none" => ContractError(check.request, check.document) = "none"
  BY DEF PlanErrorOf, ContractError, CheckCodes
<1>3. \/ error # "none" /\ CheckFail(error)
      \/ error = "none" /\
         check' = [check EXCEPT !.plan = new, !.first = offered,
                      !.step = IF new = {} THEN "done" ELSE "planned",
                      !.outcome = IF new = {} THEN "unchanged" ELSE "none"]
  BY DEF CheckPlan, FirstOf
<1> HIDE DEF error, new, offered
<1>4. CASE error # "none" /\ CheckFail(error)
  BY <1>2, <1>4, FailAnswerInv
<1>5. CASE ~(error # "none" /\ CheckFail(error))
  <2>1. /\ check'.request = check.request /\ check'.document = check.document
        /\ check'.model = check.model
        /\ check'.plan = new /\ check'.first = offered
        /\ check'.outcome = "unchanged" => new = {}
    BY <1>1, <1>3, <1>5 DEF NotChecked
  <2>2. ContractError(check.request, check.document) = "none"
    BY <1>2, <1>3, <1>5
  <2>3. RequestFits' /\ DocumentFits'
    BY <2>1 DEF AnswerInv, RequestFits, DocumentFits
  <2>4. ToolsFit'
    BY <1>1, <2>1 DEF AnswerInv, ToolsFit, Asking
  <2>5. PlanFits'
    BY <2>1, <2>2 DEF PlanFits, new, offered
  <2> QED
    BY <2>3, <2>4, <2>5 DEF AnswerInv
<1> QED
  BY <1>4, <1>5

(* The write and the read back.                                            *)
LEMMA WriteAnswerInv ==
    ASSUME IInv, CheckInv, AnswerInv, CheckWrite \/ CheckReadBack PROVE AnswerInv'
<1>1. UNCHANGED <<session, profile>> /\ DOMAIN check = DOMAIN NotChecked
      /\ check.step \in {"writing", "reading"}
  BY DEF CheckWrite, CheckReadBack, vars, sessionVars, CheckInv, CheckTypes
<1>2. PriorityError(CheckOperation, check.plan)
         \in {"none", "Conflict", "Unavailable", "Rejected"}
  BY GatewayErrors
<1>3. \/ \E code \in CheckCodes : CheckFail(code)
      \/ check' = [check EXCEPT !.step = "reading", !.writes = @ + 1]
      \/ check' = [check EXCEPT !.step = "done", !.outcome = "changed"]
  BY <1>2 DEF CheckWrite, CheckReadBack, CheckCodes
<1>4. CASE \E code \in CheckCodes : CheckFail(code)
  BY <1>4, FailAnswerInv
<1>5. CASE ~\E code \in CheckCodes : CheckFail(code)
  <2>1. /\ SameAnswer
        /\ check'.outcome = "unchanged" => check.outcome = "unchanged"
    BY <1>1, <1>3, <1>5 DEF NotChecked, SameAnswer
  <2>2. Used /\ check.step \in Asking
    BY <1>1 DEF Used, Asking
  <2> QED
    BY <1>1, <2>1, <2>2, KeepAnswerInv
<1> QED
  BY <1>4, <1>5

LEMMA NextAnswerInv ==
    IInv /\ CheckInv /\ AnswerInv /\ [CheckNext]_checkedVars => AnswerInv'
<1> SUFFICES ASSUME IInv, CheckInv, AnswerInv, [CheckNext]_checkedVars
             PROVE  AnswerInv'
  OBVIOUS
<1>1. CASE Others \/ UNCHANGED checkedVars
  <2>1. check' = check /\
        (session # "Unresolved" => session' # "Unresolved" /\ profile' = profile)
    BY <1>1, OthersKeep DEF checkedVars, vars, sessionVars
  <2> QED
    BY <2>1, KeepAnswerInv DEF SameAnswer, Used, Successful
<1>2. CASE PrepareCheck
  BY <1>2, PrepareAnswerInv
<1>3. CASE SubmitCheck \/ Check
  BY <1>3, StepsOnAnswerInv, SerializeAnswerInv, CallAnswerInv, PlanAnswerInv,
     WriteAnswerInv DEF Check
<1> QED
  BY <1>1, <1>2, <1>3 DEF CheckNext

-----------------------------------------------------------------------------
(* The answer used and the plan made belong to the request made.           *)
THEOREM AnswerInvariance == CheckSpec => []AnswerInv
<1>1. CheckInit => AnswerInv
  BY InitAnswerInv
<1>2. IInv /\ CheckInv /\ AnswerInv /\ [CheckNext]_checkedVars => AnswerInv'
  BY NextAnswerInv
<1> QED
  BY <1>1, <1>2, CheckedInvariance, PTL DEF CheckSpec

(* An answer is used only if it is about what was asked, in whatever order *)
(* it comes: each workpiece once at its priority, its tools, their totals  *)
(* within the range (Validate 71-144, Parse 376-515, Create 16-107).       *)
THEOREM AnswerCorrect == CheckSpec => []AnswerIsAboutRequest
<1>1. ASSUME AnswerInv PROVE AnswerIsAboutRequest
  <2> SUFFICES ASSUME Used
               PROVE  /\ {<<e.id, e.priority, TotalsOf(e)>> : e \in ToSet(check.request)}
                          = {<<r.id, r.priority, Told(r)>> : r \in ToSet(check.document)}
                      /\ Len(check.document) = Len(check.request)
                      /\ \A e \in ToSet(check.request) : \A t \in ToolsOf(e) :
                            Total(e, t) <= MaxUsage /\ t \in UsableTools[profile]
    BY DEF AnswerIsAboutRequest, Used, TotalsOf, Told
  <2> DEFINE About(e) == <<e.id, e.priority, TotalsOf(e)>>
             Claimed(r) == <<r.id, r.priority, Told(r)>>
  <2>1. /\ ContractError(check.request, check.document) = "none"
        /\ Len(check.request) \in Nat /\ DOMAIN check.request = 1 .. Len(check.request)
        /\ DOMAIN check.document = 1 .. Len(check.document)
    BY <1>1 DEF AnswerInv, PlanFits, RequestFits, DocumentFits
  <2>2. /\ Len(check.document) = Len(check.request)
        /\ \A i \in DOMAIN check.request :
              /\ WellFormed(check.request[i])
              /\ \E j \in DOMAIN check.document :
                    ResultFits(check.request[i], check.document[j])
    BY <2>1, ContractMeans
  <2>3. \A j \in DOMAIN check.document : \E i \in DOMAIN check.request :
           ResultFits(check.request[i], check.document[j])
    BY <2>1, EveryResultWasAskedFor
  <2>4. \A i \in DOMAIN check.request : \A j \in DOMAIN check.document :
           ResultFits(check.request[i], check.document[j]) =>
              Claimed(check.document[j]) = About(check.request[i])
    BY ToldIsAsked
  <2> HIDE DEF About, Claimed
  <2>5. \A i \in DOMAIN check.request : \E j \in DOMAIN check.document :
           Claimed(check.document[j]) = About(check.request[i])
    BY <2>2, <2>4
  <2>6. \A j \in DOMAIN check.document : \E i \in DOMAIN check.request :
           Claimed(check.document[j]) = About(check.request[i])
    BY <2>3, <2>4
  <2>7. {About(e) : e \in ToSet(check.request)}
           = {Claimed(r) : r \in ToSet(check.document)}
    BY <2>5, <2>6 DEF ToSet
  <2>8. ASSUME NEW e \in ToSet(check.request), NEW t \in ToolsOf(e)
        PROVE  Total(e, t) <= MaxUsage /\ t \in UsableTools[profile]
    <3>1. PICK p \in DOMAIN check.request : e = check.request[p]
      BY DEF ToSet
    <3>2. WellFormed(e)
      BY <2>2, <3>1
    <3>3. ToolsOf(e) \subseteq UsableTools[profile]
      BY <1>1, <3>1 DEF AnswerInv, ToolsFit, Used, Asking
    <3> QED
      BY <3>2, <3>3 DEF WellFormed
  <2> QED
    BY <2>2, <2>7, <2>8 DEF About, Claimed
<1> QED
  BY <1>1, AnswerInvariance, PTL

(* What the check reports is what it did.  An order reported unchanged was *)
(* rightly so: each workpiece has the position that the answer asks for;   *)
(* and the workpiece offered for transport is the first of those that can  *)
(* be executed (Execute 30-148, Plan 68-127).                              *)
THEOREM CheckedReportCorrect == CheckSpec => []CheckReportMatchesEffect
<1>1. ASSUME CheckInv, AnswerInv PROVE CheckReportMatchesEffect
  <2>1. CheckTypes /\ CheckWritesFit /\ RequestFits
    BY <1>1 DEF CheckInv, AnswerInv
  <2>2. ASSUME Successful
        PROVE  /\ ContractError(check.request, check.document) = "none"
               /\ check.plan = Assignments(Reordered(check.request, check.document))
               /\ check.first = FirstOf(check.request, check.document)
               /\ check.outcome = "unchanged" => check.plan = {}
    BY <1>1, <2>2 DEF AnswerInv, PlanFits, Used
  <2>3. ASSUME Successful, check.outcome = "unchanged", NEW w \in Asked
        PROVE  Position(w) = AskedAt(w)
    <3>1. PICK p \in DOMAIN check.request : w = check.request[p].id
      BY DEF Asked
    <3>2. AskedAt(check.request[p].id) = p
      BY <2>1, <2>2, <2>3, AskedAtPosition
    <3>3. Position(check.request[p].id) # p =>
             Entry(p) \in Assignments(Reordered(check.request, check.document))
      BY <2>1, <2>2, <2>3, PlanEntries
    <3>4. Assignments(Reordered(check.request, check.document)) = {}
      BY <2>2, <2>3
    <3> QED
      BY <3>1, <3>2, <3>3, <3>4
  <2>4. ASSUME Successful
        PROVE  IF \E w \in Asked : Says(w)
               THEN Says(check.first) /\ Position(check.first) = 1
               ELSE check.first = "none"
    BY <2>1, <2>2, <2>4, FirstIsExecutable
  <2>5. /\ check.writes \in {0, 1}
        /\ check.step = "done" =>
              /\ check.outcome = "changed" => check.writes = 1
              /\ check.outcome = "unchanged" => check.writes = 0
              /\ check.writes = 1 => check.outcome \in {"changed", "InvalidResponse"}
    BY <2>1 DEF CheckTypes, CheckWritesFit
  <2>6. check.step = "done" /\ check.outcome = "unchanged" =>
           \A w \in Asked : Position(w) = AskedAt(w)
    BY <2>3 DEF Successful
  <2> QED
    BY <2>4, <2>5, <2>6 DEF CheckReportMatchesEffect
<1> QED
  BY <1>1, CheckedInvariance, AnswerInvariance, PTL

(* Only the write writes, and only the read back reports a change.         *)
LEMMA OnlyWriteWrites ==
    ASSUME IInv, CheckInv, [CheckNext]_checkedVars
    PROVE  /\ check'.writes # check.writes => CheckWrite
           /\ check'.outcome = "changed" /\ check.outcome = "none" => CheckReadBack
<1> DEFINE Quiet == /\ check'.writes = check.writes
                    /\ check'.outcome = "changed" => check.outcome # "none"
<1>0. DOMAIN check = DOMAIN NotChecked
  BY DEF CheckInv, CheckTypes
<1>1. ASSUME NEW code \in CheckCodes, CheckFail(code) PROVE Quiet
  BY <1>1 DEF CheckFail, NotChecked, CheckCodes
<1>2. CASE Others \/ UNCHANGED checkedVars
  BY <1>2 DEF Others, checkedVars
<1>3. CASE PrepareCheck
  <2>1. \E request : check' = [check EXCEPT !.step = "prepared", !.request = request]
    BY <1>3 DEF PrepareCheck
  <2> QED
    BY <1>0, <2>1 DEF NotChecked
<1>4. CASE \/ SubmitCheck \/ CheckRequireProfile \/ CheckValidate
           \/ GatewayConfirmBefore \/ GatewayConfirmAfter \/ GatewayParse
           \/ GatewayConfirmReturn \/ CheckRecheckProfile
  <2>1. \/ \E code \in CheckCodes : CheckFail(code)
        \/ check'.writes = check.writes /\ check'.outcome = check.outcome
    BY <1>0, <1>4, StepsGoOn DEF CheckProceed, NotChecked
  <2> QED
    BY <1>1, <2>1
<1>5. CASE GatewaySerialize \/ GatewayCall
  <2>1. SerializeErrors(profile, check.request) \subseteq CheckCodes
    BY DEF SerializeErrors, RequestErrors, CheckCodes
  <2>2. \/ \E code \in CheckCodes : CheckFail(code)
        \/ check' = [check EXCEPT !.step = "sending", !.model = profile]
        \/ \E document : check' = [check EXCEPT !.step = "answered", !.document = document]
    BY <1>5, <2>1, ProfileIsThere DEF GatewaySerialize, GatewayCall, CheckCodes
  <2>3. \/ \E code \in CheckCodes : CheckFail(code)
        \/ check'.writes = check.writes /\ check'.outcome = check.outcome
    BY <1>0, <2>2 DEF NotChecked
  <2> QED
    BY <1>1, <2>3
<1>6. CASE CheckPlan
  <2> DEFINE error == IF store.version # check.version THEN "Conflict"
                      ELSE PlanErrorOf(check.queue, check.request, check.document)
             plan == Assignments(Reordered(check.request, check.document))
  <2>1. error \in CheckCodes \cup {"none"}
    BY DEF PlanErrorOf, ContractError, CheckCodes
  <2>2. \/ error # "none" /\ CheckFail(error)
        \/ \E first :
              check' = [check EXCEPT !.plan = plan, !.first = first,
                          !.step = IF plan = {} THEN "done" ELSE "planned",
                          !.outcome = IF plan = {} THEN "unchanged" ELSE "none"]
    BY <1>6 DEF CheckPlan
  <2> HIDE DEF error, plan
  <2>3. \/ \E code \in CheckCodes : CheckFail(code)
        \/ check'.writes = check.writes /\ check'.outcome \in {"unchanged", "none"}
    BY <1>0, <2>1, <2>2 DEF NotChecked
  <2> QED
    BY <1>1, <2>3
<1>7. CASE CheckWrite
  <2>1. PriorityError(CheckOperation, check.plan)
           \in {"none", "Conflict", "Unavailable", "Rejected"}
    BY GatewayErrors
  <2>2. \/ \E code \in CheckCodes : CheckFail(code)
        \/ check' = [check EXCEPT !.step = "reading", !.writes = @ + 1]
    BY <1>7, <2>1 DEF CheckWrite, CheckCodes
  <2>3. check'.outcome = "changed" => check.outcome # "none"
    BY <1>0, <1>1, <2>2 DEF NotChecked
  <2> QED
    BY <1>7, <2>3
<1>8. CASE CheckReadBack
  <2>1. \/ \E code \in CheckCodes : CheckFail(code)
        \/ check' = [check EXCEPT !.step = "done", !.outcome = "changed"]
    BY <1>8 DEF CheckReadBack, CheckCodes
  <2>2. check'.writes = check.writes
    BY <1>0, <1>1, <2>1 DEF NotChecked
  <2> QED
    BY <1>8, <2>2
<1> QED
  BY <1>2, <1>3, <1>4, <1>5, <1>6, <1>7, <1>8 DEF CheckNext, Check

(* Of one workpiece a plan says one thing.                                 *)
LEMMA PlanIsAboutPlaces ==
    ASSUME RequestFits, ContractError(check.request, check.document) = "none",
           NEW w
    PROVE  LET plan == Assignments(Reordered(check.request, check.document))
           IN  IF w \in Asked /\ Position(w) # AskedAt(w)
               THEN /\ \E a \in plan : a.workpiece = w
                    /\ \A a \in plan : a.workpiece = w =>
                          a.expected = AskedAt(w) /\ a.desired = Position(w)
               ELSE ~\E a \in plan : a.workpiece = w
<1> DEFINE plan == Assignments(Reordered(check.request, check.document))
<1>1. /\ \A a \in plan : \E p \in DOMAIN check.request :
            a = Entry(p) /\ Position(check.request[p].id) # p
      /\ \A p \in DOMAIN check.request :
            Position(check.request[p].id) # p => Entry(p) \in plan
  BY PlanEntries
<1>2. \A p \in DOMAIN check.request : AskedAt(check.request[p].id) = p
  BY AskedAtPosition
<1>3. \A p : /\ Entry(p).workpiece = check.request[p].id
             /\ Entry(p).expected = p
             /\ Entry(p).desired = Position(check.request[p].id)
  BY DEF Entry
<1> HIDE DEF plan
<1>4. ASSUME NEW a \in plan, a.workpiece = w
      PROVE  /\ w \in Asked /\ Position(w) # AskedAt(w)
             /\ a.expected = AskedAt(w) /\ a.desired = Position(w)
  <2>1. PICK p \in DOMAIN check.request :
           a = Entry(p) /\ Position(check.request[p].id) # p
    BY <1>1
  <2>2. w = check.request[p].id
    BY <1>3, <1>4, <2>1
  <2> QED
    BY <1>2, <1>3, <2>1, <2>2 DEF Asked
<1>5. ASSUME w \in Asked, Position(w) # AskedAt(w)
      PROVE  \E a \in plan : a.workpiece = w
  <2>1. PICK p \in DOMAIN check.request : w = check.request[p].id
    BY <1>5 DEF Asked
  <2> QED
    BY <1>1, <1>2, <1>3, <1>5, <2>1
<1> QED
  BY <1>4, <1>5 DEF plan

(* The new order is the one the answer asks for: a workpiece that moves    *)
(* was where the request said and goes where the answer puts it, the       *)
(* others stay; and when the change is reported, the machine shows it      *)
(* (Plan 68-127, ApplyPriorityChange, VerifyReadback).                     *)
THEOREM QueueCorrect == CheckSpec => QueueFollowsAnswer
<1>1. ASSUME IInv, CheckInv, AnswerInv, CheckWrite, check'.writes # check.writes,
             NEW w \in DOMAIN machine.priority \cup Asked
      PROVE  IF w \in Asked /\ Position(w) # AskedAt(w)
             THEN /\ w \in DOMAIN machine.priority
                  /\ machine.priority[w] = AskedAt(w)
                  /\ machine'.priority[w] = Position(w)
             ELSE w \in DOMAIN machine.priority =>
                     machine'.priority[w] = machine.priority[w]
  <2>1. /\ RequestFits /\ ContractError(check.request, check.document) = "none"
        /\ check.plan = Assignments(Reordered(check.request, check.document))
    BY <1>1 DEF AnswerInv, PlanFits, Used, CheckWrite
  <2>2. /\ machine' = Written(CheckOperation, check.plan)
        /\ PriorityError(CheckOperation, check.plan) = "none"
    BY <1>1 DEF CheckWrite, CheckFail, NotChecked
  <2>3. Expected(check.plan)
    BY <2>2, GatewayErrors
  <2>4. machine'.priority = Assigned(check.plan)
    <3>1. machine = Frame(machine, machine.version, machine.number)
      BY <1>1 DEF IInv, TypeOK
    <3> QED
      BY <2>2, <3>1 DEF Written, CheckOperation, Frame
  <2>5. IF w \in Asked /\ Position(w) # AskedAt(w)
        THEN /\ \E a \in check.plan : a.workpiece = w
             /\ \A a \in check.plan : a.workpiece = w =>
                   a.expected = AskedAt(w) /\ a.desired = Position(w)
        ELSE ~\E a \in check.plan : a.workpiece = w
    BY <2>1, PlanIsAboutPlaces
  <2>6. CASE w \in Asked /\ Position(w) # AskedAt(w)
    <3> DEFINE a == CHOOSE b \in check.plan : b.workpiece = w
    <3>1. /\ a \in check.plan /\ a.workpiece = w
          /\ a.expected = AskedAt(w) /\ a.desired = Position(w)
      BY <2>5, <2>6
    <3>2. w \in DOMAIN machine.priority /\ machine.priority[w] = AskedAt(w)
      BY <2>3, <3>1 DEF Expected
    <3>3. machine'.priority[w] = a.desired
      BY <2>4, <3>1, <3>2 DEF Assigned
    <3> QED
      BY <2>6, <3>1, <3>2, <3>3
  <2>7. CASE ~(w \in Asked /\ Position(w) # AskedAt(w))
    BY <2>4, <2>5, <2>7 DEF Assigned
  <2> QED
    BY <2>6, <2>7
<1>2. ASSUME CheckInv, AnswerInv, CheckReadBack, check'.outcome = "changed"
      PROVE  /\ IsFresh(machine.health)
             /\ \A w \in Asked : Position(w) # AskedAt(w) =>
                   w \in DOMAIN machine.priority /\ machine.priority[w] = Position(w)
  <2>1. /\ RequestFits /\ ContractError(check.request, check.document) = "none"
        /\ check.plan = Assignments(Reordered(check.request, check.document))
    BY <1>2 DEF AnswerInv, PlanFits, Used, CheckReadBack
  <2>2. Confirmed(CheckOperation, check.plan)
    BY <1>2 DEF CheckReadBack, CheckFail, NotChecked
  <2>3. /\ IsFresh(machine.health)
        /\ \A a \in check.plan : /\ a.workpiece \in DOMAIN machine.priority
                                  /\ machine.priority[a.workpiece] = a.desired
    BY <2>2 DEF Confirmed, CheckOperation
  <2>4. ASSUME NEW w \in Asked, Position(w) # AskedAt(w)
        PROVE  w \in DOMAIN machine.priority /\ machine.priority[w] = Position(w)
    <3>1. /\ \E a \in check.plan : a.workpiece = w
          /\ \A a \in check.plan : a.workpiece = w => a.desired = Position(w)
      BY <2>1, <2>4, PlanIsAboutPlaces
    <3> QED
      BY <2>3, <3>1
  <2> QED
    BY <2>3, <2>4
<1>3. IInv /\ CheckInv /\ AnswerInv /\ [CheckNext]_checkedVars =>
         /\ check'.writes # check.writes =>
               \A w \in DOMAIN machine.priority \cup Asked :
                  IF w \in Asked /\ Position(w) # AskedAt(w)
                  THEN /\ w \in DOMAIN machine.priority
                       /\ machine.priority[w] = AskedAt(w)
                       /\ machine'.priority[w] = Position(w)
                  ELSE w \in DOMAIN machine.priority =>
                          machine'.priority[w] = machine.priority[w]
         /\ check'.outcome = "changed" /\ check.outcome = "none" =>
               /\ IsFresh(machine.health)
               /\ \A w \in Asked : Position(w) # AskedAt(w) =>
                     w \in DOMAIN machine.priority /\ machine.priority[w] = Position(w)
  BY <1>1, <1>2, OnlyWriteWrites
<1> QED
  BY <1>3, CheckedInvariance, AnswerInvariance, PTL DEF CheckSpec, QueueFollowsAnswer
=============================================================================
