-------------------------- MODULE EmbedEngineProofs --------------------------
(***************************************************************************)
(* The safety of the embedding engine slot, for any number of passes and   *)
(* drains, any set of caps and any capacity. First what the operations of  *)
(* the rung cache preserve, for sequences of any length; then the          *)
(* inductive invariant IInv of EmbedEngine is shown to hold initially and  *)
(* to be preserved, one lemma per conjunct; every safety property follows  *)
(* from it.                                                                *)
(***************************************************************************)
EXTENDS EmbedEngine, SequenceTheorems, FiniteSetTheorems, TLAPS

(***************************************************************************)
(* The rung cache.                                                         *)
(***************************************************************************)

\* Vec::remove: one entry leaves, the entries behind it move up by one.
LEMMA RemoveAtProperties ==
    ASSUME NEW S, NEW s \in Seq(S), NEW i \in 1..Len(s)
    PROVE  /\ RemoveAt(s, i) \in Seq(S)
           /\ Len(RemoveAt(s, i)) = Len(s) - 1
           /\ \A j \in 1..(Len(s) - 1) :
                RemoveAt(s, i)[j] = IF j < i THEN s[j] ELSE s[j + 1]
<1> DEFINE a == SubSeq(s, 1, i - 1)
           b == SubSeq(s, i + 1, Len(s))
<1>0. Len(s) \in Nat /\ \A j \in 1..Len(s) : s[j] \in S
  BY LenProperties, ElementOfSeq
<1>1. /\ a \in Seq(S) /\ Len(a) = i - 1
      /\ \A j \in 1..(i - 1) : a[j] = s[j]
  <2>1. \A j \in 1..(i - 1) : s[j] \in S
    BY <1>0
  <2> HIDE DEF a
  <2>2. QED
    BY <1>0, <2>1, SubSeqProperties DEF a
<1>2. /\ b \in Seq(S) /\ Len(b) = Len(s) - i
      /\ \A j \in 1..(Len(s) - i) : b[j] = s[j + i]
  <2>1. \A j \in (i + 1)..Len(s) : s[j] \in S
    BY <1>0
  <2> HIDE DEF b
  <2>2. QED
    BY <1>0, <2>1, SubSeqProperties DEF b
<1> HIDE DEF a, b
<1>3. /\ a \o b \in Seq(S) /\ Len(a \o b) = Len(s) - 1
      /\ \A j \in 1..(Len(s) - 1) : (a \o b)[j] = IF j <= i - 1 THEN a[j] ELSE b[j - (i - 1)]
  <2>1. /\ a \o b \in Seq(S) /\ Len(a \o b) = Len(a) + Len(b)
        /\ \A j \in 1..(Len(a) + Len(b)) :
             (a \o b)[j] = IF j <= Len(a) THEN a[j] ELSE b[j - Len(a)]
    BY <1>1, <1>2, ConcatProperties
  <2> DEFINE w == a \o b
  <2> HIDE DEF w
  <2>2. Len(a) + Len(b) = Len(s) - 1
    BY <1>0, <1>1, <1>2
  <2>3. w \in Seq(S) /\ Len(w) = Len(s) - 1
    BY <2>1, <2>2 DEF w
  <2>4. \A j \in 1..(Len(s) - 1) : w[j] = IF j <= i - 1 THEN a[j] ELSE b[j - (i - 1)]
    BY <1>1, <2>1, <2>2 DEF w
  <2>5. QED
    BY <2>3, <2>4 DEF w
<1>4. RemoveAt(s, i) = a \o b
  BY DEF RemoveAt, a, b
<1>5. QED
  BY <1>0, <1>1, <1>2, <1>3, <1>4

\* position() of a resident cap is an index of that cap.
LEMMA PositionOfResident ==
    ASSUME NEW S, NEW s \in Seq(S), NEW c, Resident(s, c)
    PROVE  /\ Position(s, c) \in 1..Len(s)
           /\ s[Position(s, c)] = c
BY LenProperties DEF Resident, Position

\* remove() and retain(): the cap is gone, everything else is still there, the
\* order and the absence of duplicates survive.
LEMMA WithoutProperties ==
    ASSUME NEW S, NEW s \in Seq(S), NEW c, Distinct(s)
    PROVE  /\ Without(s, c) \in Seq(S)
           /\ Distinct(Without(s, c))
           /\ Len(Without(s, c)) = IF Resident(s, c) THEN Len(s) - 1 ELSE Len(s)
           /\ ~Resident(Without(s, c), c)
           /\ \A d : d # c => (Resident(Without(s, c), d) <=> Resident(s, d))
<1>1. CASE ~Resident(s, c)
  BY <1>1, LenProperties DEF Without, Resident
<1>2. CASE Resident(s, c)
  <2> DEFINE p == Position(s, c)
             t == RemoveAt(s, p)
  <2>1. p \in 1..Len(s) /\ s[p] = c
    BY <1>2, PositionOfResident
  <2>2. /\ t \in Seq(S) /\ Len(t) = Len(s) - 1
        /\ \A j \in 1..(Len(s) - 1) : t[j] = IF j < p THEN s[j] ELSE s[j + 1]
    <3> HIDE DEF p
    <3>1. QED
      BY <2>1, RemoveAtProperties
  <2>3. Without(s, c) = t
    BY <1>2 DEF Without
  <2> HIDE DEF p, t
  <2>4. Len(s) \in Nat /\ DOMAIN s = 1..Len(s) /\ DOMAIN t = 1..(Len(s) - 1)
    BY <2>2, LenProperties
  <2>5. Distinct(t)
    <3>1. SUFFICES ASSUME NEW i \in DOMAIN t, NEW j \in DOMAIN t, t[i] = t[j]
                   PROVE  i = j
      BY DEF Distinct
    <3>2. i \in 1..(Len(s) - 1) /\ j \in 1..(Len(s) - 1) /\ p \in 1..Len(s)
      BY <2>1, <2>4, <3>1
    <3> DEFINE u == IF i < p THEN i ELSE i + 1
               v == IF j < p THEN j ELSE j + 1
    <3>3. u \in DOMAIN s /\ v \in DOMAIN s
      BY <2>4, <3>2
    <3>4. t[i] = s[u] /\ t[j] = s[v]
      BY <2>2, <3>2
    <3>5. u = v
      <4> HIDE DEF u, v
      <4>1. QED
        BY <3>1, <3>3, <3>4 DEF Distinct
    <3>6. QED
      BY <2>4, <3>2, <3>5
  <2>6. ~Resident(t, c)
    BY <2>1, <2>2, <2>4 DEF Distinct, Resident
  <2>7. ASSUME NEW d, d # c
        PROVE  Resident(t, d) <=> Resident(s, d)
    <3>1. ASSUME NEW j \in DOMAIN s, s[j] = d
          PROVE  Resident(t, d)
      <4>1. CASE j < p
        BY <2>1, <2>2, <2>4, <3>1, <4>1 DEF Resident
      <4>2. CASE j > p
        <5>1. j - 1 \in DOMAIN t /\ t[j - 1] = d
          BY <2>1, <2>2, <2>4, <3>1, <4>2
        <5>2. QED
          BY <5>1 DEF Resident
      <4>3. CASE j = p
        BY <2>1, <3>1, <4>3, <2>7
      <4>4. QED
        BY <2>1, <2>4, <4>1, <4>2, <4>3
    <3>2. ASSUME NEW j \in DOMAIN t, t[j] = d
          PROVE  Resident(s, d)
      BY <2>1, <2>2, <2>4, <3>2 DEF Resident
    <3>3. QED
      BY <3>1, <3>2 DEF Resident
  <2>8. QED
    BY <1>2, <2>2, <2>3, <2>5, <2>6, <2>7
<1>3. QED
  BY <1>1, <1>2

\* push() of a cap that is not filed: it becomes the most recently used rung.
LEMMA FileProperties ==
    ASSUME NEW S, NEW s \in Seq(S), NEW c \in S, Distinct(s), ~Resident(s, c)
    PROVE  /\ Append(s, c) \in Seq(S)
           /\ Distinct(Append(s, c))
           /\ Len(Append(s, c)) = Len(s) + 1
           /\ MostRecent(Append(s, c)) = c
           /\ \A d : Resident(Append(s, c), d) <=> Resident(s, d) \/ d = c
<1> DEFINE t == Append(s, c)
<1>1. /\ t \in Seq(S) /\ t # <<>> /\ Len(t) = Len(s) + 1
      /\ \A i \in 1..Len(s) : t[i] = s[i]
      /\ t[Len(s) + 1] = c
  BY AppendProperties
<1> HIDE DEF t
<1>2. Len(s) \in Nat /\ DOMAIN s = 1..Len(s) /\ DOMAIN t = 1..(Len(s) + 1)
  BY <1>1, LenProperties
<1>3. Distinct(t)
  BY <1>1, <1>2 DEF Distinct, Resident
<1>4. MostRecent(t) = c
  BY <1>1 DEF MostRecent
<1>5. \A d : Resident(t, d) <=> Resident(s, d) \/ d = c
  BY <1>1, <1>2 DEF Resident
<1>6. QED
  BY <1>1, <1>3, <1>4, <1>5 DEF t

\* get_mut() on a hit: the same rungs in another order, the cap now the newest.
LEMMA PromoteProperties ==
    ASSUME NEW S, NEW s \in Seq(S), NEW c, Distinct(s), Resident(s, c)
    PROVE  /\ Promote(s, c) \in Seq(S)
           /\ Distinct(Promote(s, c))
           /\ Len(Promote(s, c)) = Len(s)
           /\ MostRecent(Promote(s, c)) = c
           /\ \A d : Resident(Promote(s, c), d) <=> Resident(s, d)
<1> DEFINE t == Without(s, c)
<1>1. c \in S
  BY PositionOfResident, ElementOfSeq
<1>2. /\ t \in Seq(S) /\ Distinct(t) /\ ~Resident(t, c)
      /\ Len(t) = Len(s) - 1
      /\ \A d : d # c => (Resident(t, d) <=> Resident(s, d))
  BY WithoutProperties
<1>3. Promote(s, c) = Append(t, c)
  BY DEF Promote, Without
<1>4. Len(s) \in Nat
  BY LenProperties
<1> HIDE DEF t
<1>5. QED
  BY <1>1, <1>2, <1>3, <1>4, FileProperties

\* insert(): the cap is filed as the newest rung, nothing is filed twice, and
\* the capacity that held before still holds.
LEMMA InsertProperties ==
    ASSUME NEW S, NEW s \in Seq(S), NEW c \in S, Distinct(s),
           NEW capacity \in Nat \ {0}, Len(s) <= capacity
    PROVE  /\ Insert(s, c, capacity) \in Seq(S)
           /\ Distinct(Insert(s, c, capacity))
           /\ Len(Insert(s, c, capacity)) <= capacity
           /\ MostRecent(Insert(s, c, capacity)) = c
<1> DEFINE w == Without(s, c)
           t == Append(w, c)
<1>1. /\ w \in Seq(S) /\ Distinct(w) /\ ~Resident(w, c)
      /\ Len(w) <= Len(s)
  BY WithoutProperties, LenProperties
<1> HIDE DEF w
<1>2. t \in Seq(S) /\ Distinct(t) /\ Len(t) = Len(w) + 1 /\ MostRecent(t) = c
  BY <1>1, FileProperties
<1>3. Insert(s, c, capacity) = IF Len(t) > capacity THEN Tail(t) ELSE t
  BY DEF Insert, w
<1> HIDE DEF t
<1>4. Len(s) \in Nat /\ Len(w) \in Nat /\ DOMAIN t = 1..Len(t) /\ t # <<>>
  BY <1>1, <1>2, LenProperties, EmptySeq
<1>5. CASE Len(t) <= capacity
  BY <1>2, <1>3, <1>4, <1>5
<1>6. CASE Len(t) > capacity
  <2> DEFINE v == Tail(t)
  <2>1. /\ v \in Seq(S) /\ Len(v) = Len(t) - 1
        /\ \A i \in 1..Len(v) : v[i] = t[i + 1]
    BY <1>2, <1>4, HeadTailProperties
  <2> HIDE DEF v
  <2>2. Len(v) <= capacity /\ Len(v) \in Nat \ {0} /\ DOMAIN v = 1..Len(v)
    BY <1>1, <1>2, <1>4, <1>6, <2>1, LenProperties
  <2>3. Distinct(v)
    <3>1. SUFFICES ASSUME NEW i \in DOMAIN v, NEW j \in DOMAIN v, v[i] = v[j]
                   PROVE  i = j
      BY DEF Distinct
    <3>2. i + 1 \in DOMAIN t /\ j + 1 \in DOMAIN t
      BY <1>4, <2>1, <2>2, <3>1
    <3>3. t[i + 1] = t[j + 1]
      BY <2>1, <2>2, <3>1
    <3>4. i + 1 = j + 1
      BY <1>2, <3>2, <3>3 DEF Distinct
    <3>5. QED
      BY <2>2, <3>1, <3>4
  <2>4. MostRecent(v) = c
    BY <1>2, <1>4, <2>1, <2>2 DEF MostRecent
  <2>5. QED
    BY <1>3, <1>6, <2>1, <2>2, <2>3, <2>4 DEF v
<1>7. QED
  BY <1>2, <1>4, <1>5, <1>6

\* insert() again, as a set: the cap comes and at most one rung goes.
LEMMA InsertMakesRoom ==
    ASSUME NEW S, NEW s \in Seq(S), NEW c \in S, Distinct(s),
           NEW capacity \in Nat \ {0}, Len(s) <= capacity
    PROVE  \E out \in SUBSET Range(s) :
              /\ Cardinality(out) <= 1
              /\ Range(Insert(s, c, capacity)) = (Range(s) \ out) \cup {c}
<1> DEFINE w == Without(s, c)
           t == Append(w, c)
<1>1. /\ w \in Seq(S) /\ Distinct(w) /\ ~Resident(w, c)
      /\ \A d : d # c => (Resident(w, d) <=> Resident(s, d))
  BY WithoutProperties
<1> HIDE DEF w
<1>2. /\ t \in Seq(S) /\ Distinct(t) /\ Len(t) = Len(w) + 1
      /\ \A d : Resident(t, d) <=> Resident(w, d) \/ d = c
      /\ t # <<>> /\ \A i \in 1..Len(w) : t[i] = w[i]
  BY <1>1, FileProperties, AppendProperties
<1>3. Insert(s, c, capacity) = IF Len(t) > capacity THEN Tail(t) ELSE t
  BY DEF Insert, w
<1> HIDE DEF t
<1>4. Len(w) \in Nat /\ DOMAIN w = 1..Len(w) /\ DOMAIN t = 1..Len(t)
  BY <1>1, <1>2, LenProperties
<1>5. /\ \A d : d \in Range(s) <=> Resident(s, d)
      /\ \A d : d \in Range(t) <=> Resident(t, d)
  BY DEF Range, Resident
<1>6. Range(t) = Range(s) \cup {c}
  BY <1>1, <1>2, <1>5
<1>7. CASE Len(t) <= capacity
  <2>1. Range(Insert(s, c, capacity)) = (Range(s) \ {}) \cup {c}
    BY <1>2, <1>3, <1>4, <1>6, <1>7
  <2>2. Cardinality({}) <= 1
    BY FS_EmptySet
  <2>3. QED
    BY <2>1, <2>2
<1>8. CASE Len(t) > capacity
  <2> DEFINE v == Tail(t)
  <2>1. /\ v \in Seq(S) /\ Len(v) = Len(t) - 1
        /\ \A i \in 1..Len(v) : v[i] = t[i + 1]
    BY <1>2, HeadTailProperties
  <2>2. DOMAIN v = 1..Len(v)
    BY <2>1, LenProperties
  <2> HIDE DEF v
  <2>3. t[1] = w[1] /\ 1 \in DOMAIN w /\ 1 \in DOMAIN t
    BY <1>2, <1>4, <1>8
  <2>4. t[1] # c /\ t[1] \in Range(s)
    BY <1>1, <1>5, <2>3 DEF Resident
  <2>5. ASSUME NEW d \in Range(v)
        PROVE  d \in Range(t) /\ d # t[1]
    <3>1. PICK i \in 1..Len(v) : d = t[i + 1]
      BY <2>1, <2>2, <2>5 DEF Range
    <3>2. i + 1 \in DOMAIN t /\ i + 1 # 1
      BY <1>2, <1>4, <2>1, <3>1
    <3>3. QED
      BY <1>2, <2>3, <3>1, <3>2 DEF Distinct, Range
  <2>6. ASSUME NEW d \in Range(t), d # t[1]
        PROVE  d \in Range(v)
    <3>1. PICK j \in 1..Len(t) : d = t[j]
      BY <1>4, <2>6 DEF Range
    <3>2. j - 1 \in DOMAIN v /\ v[j - 1] = t[j]
      BY <1>2, <1>4, <2>1, <2>2, <2>6, <3>1
    <3>3. QED
      BY <3>1, <3>2 DEF Range
  <2>7. Range(v) = (Range(s) \ {t[1]}) \cup {c}
    BY <1>6, <2>4, <2>5, <2>6
  <2>8. Cardinality({t[1]}) <= 1
    <3>1. Cardinality({t[1]}) = 1
      BY FS_Singleton
    <3>2. QED
      BY <3>1
  <2>9. QED
    BY <1>3, <1>8, <2>4, <2>7, <2>8 DEF v
<1>9. QED
  BY <1>2, <1>4, <1>7, <1>8

\* As many engines as entries at most.
LEMMA EnginesAreEntries ==
    ASSUME NEW S, NEW s \in Seq(S)
    PROVE  /\ Cardinality(Range(s)) \in Nat
           /\ Cardinality(Range(s)) <= Len(s)
<1>1. Len(s) \in Nat /\ DOMAIN s = 1..Len(s)
  BY LenProperties
<1>2. s \in Surjection(1..Len(s), Range(s))
  BY <1>1 DEF Surjection, Range
<1>3. IsFiniteSet(1..Len(s))
  BY <1>1, FS_Interval
<1>4. IsFiniteSet(Range(s))
  BY <1>2, <1>3, FS_Surjection
<1>5. QED
  BY <1>1, <1>2, <1>4, FS_CardinalityType, FS_SurjCardinalityBound DEF ExistsSurjection
-----------------------------------------------------------------------------
(***************************************************************************)
(* The engine slot.                                                        *)
(***************************************************************************)

\* The most recently used cap is a cap, or 0 when nothing is resident.
LEMMA MostRecentType ==
    ASSUME NEW S, NEW s \in Seq(S)
    PROVE  /\ MostRecent(s) \in S \cup {0}
           /\ MostRecent(s) # 0 => Resident(s, MostRecent(s))
<1>1. CASE s = <<>>
  BY <1>1 DEF MostRecent
<1>2. CASE s # <<>>
  <2>1. Len(s) \in DOMAIN s /\ s[Len(s)] \in S
    BY <1>2, LenProperties, ElementOfSeq, EmptySeq
  <2>2. MostRecent(s) = s[Len(s)]
    BY <1>2 DEF MostRecent
  <2>3. QED
    BY <2>1, <2>2 DEF Resident
<1>3. QED
  BY <1>1, <1>2

\* The rerank engine touches the cache path and nothing of this engine.
LEMMA RivalsStayOutside ==
    Rival \/ RivalsAgain \/ UNCHANGED vars => UNCHANGED engine
BY DEF Rival, RivalTakes, RivalGives, RivalHangs, RivalsAgain, vars

\* What the cache operations leave behind is a sequence of caps within the
\* capacity, without duplicates.
LEMMA RungsStep ==
    ASSUME TypeOK, CallsStateLimits, RungsWithinCapacity, [Next]_vars
    PROVE  rungs' \in Seq(Caps) /\ RungsWithinCapacity'
<1> USE DEF At, Goto
<1>1. ASSUME NEW r \in Requests, Hit(r)
      PROVE  rungs' \in Seq(Caps) /\ RungsWithinCapacity'
  BY <1>1, PromoteProperties DEF Hit, TypeOK, RungsWithinCapacity
<1>2. ASSUME NEW r \in Requests, BuildOk(r)
      PROVE  rungs' \in Seq(Caps) /\ RungsWithinCapacity'
  <2>1. cap[r] \in Caps /\ Capacity \in Nat \ {0}
    BY <1>2, EmbedAssumption DEF BuildOk, CallsStateLimits
  <2>2. rungs' = Insert(rungs, cap[r], Capacity)
    BY <1>2 DEF BuildOk
  <2>3. QED
    BY <2>1, <2>2, InsertProperties DEF TypeOK, RungsWithinCapacity
<1>3. ASSUME NEW u \in Unloaders, RemoveNamed(u)
      PROVE  rungs' \in Seq(Caps) /\ RungsWithinCapacity'
  <2>1. PICK c \in scope[u] : rungs' = Without(rungs, c)
    BY <1>3 DEF RemoveNamed
  <2>2. /\ Without(rungs, c) \in Seq(Caps)
        /\ Distinct(Without(rungs, c))
        /\ Len(Without(rungs, c)) <= Len(rungs)
    BY WithoutProperties, LenProperties DEF TypeOK, RungsWithinCapacity
  <2>3. Len(rungs) \in Nat /\ Len(Without(rungs, c)) \in Nat /\ Capacity \in Nat
    BY <2>2, LenProperties, EmbedAssumption DEF TypeOK
  <2>4. QED
    BY <2>1, <2>2, <2>3 DEF RungsWithinCapacity
<1>4. CASE rungs' = <<>>
  BY <1>4, EmptySeq, EmbedAssumption DEF RungsWithinCapacity, Distinct
<1>5. CASE UNCHANGED rungs
  BY <1>5 DEF TypeOK, RungsWithinCapacity
<1>6. \/ \E r \in Requests : Hit(r) \/ BuildOk(r)
      \/ \E u \in Unloaders : RemoveNamed(u)
      \/ rungs' = <<>>
      \/ UNCHANGED rungs
  <2>1. CASE UNCHANGED engine
    BY <2>1 DEF engine, slot
  <2>2. ASSUME NEW t \in Threads, Acquire(t) \/ Heal(t) \/ Refuse(t) \/ Release(t) \/ Recycle(t)
        PROVE  rungs' = <<>> \/ UNCHANGED rungs
    BY <2>2 DEF Acquire, Heal, Refuse, Release, Recycle, slot
  <2>3. ASSUME NEW r \in Requests, Pass(r), ~Hit(r), ~BuildOk(r)
        PROVE  UNCHANGED rungs
    BY <2>3 DEF Pass, Decide, Miss, Commit, BuildErr, EnterRunning, PassEnds, ClearStamp, slot
  <2>4. ASSUME NEW r \in Requests, NEW k \in Kinds, NEW c \in Caps, NEW b \in Batches,
               Arrive(r, k, c, b)
        PROVE  UNCHANGED rungs
    BY <2>4 DEF Arrive, slot
  <2>5. ASSUME NEW r \in Requests, Panic(r) \/ Hang(r)
        PROVE  UNCHANGED rungs
    BY <2>5 DEF Panic, Hang, slot
  <2>6. ASSUME NEW u \in Unloaders, Draining(u), ~RemoveNamed(u)
        PROVE  rungs' = <<>> \/ UNCHANGED rungs
    BY <2>6 DEF Draining, DrainAll, SettleDrain, Drop, slot
  <2>7. ASSUME NEW u \in Unloaders, NEW everything \in BOOLEAN, NEW caps \in SUBSET Caps,
               AskToDrain(u, everything, caps)
        PROVE  UNCHANGED rungs
    BY <2>7 DEF AskToDrain, slot
  <2>8. CASE TornDown
    BY <2>8 DEF TornDown, slot
  <2>9. QED
    BY <2>1, <2>2, <2>3, <2>4, <2>5, <2>6, <2>7, <2>8, RivalsStayOutside DEF Next, BurstNext
<1>7. QED
  BY <1>1, <1>2, <1>3, <1>4, <1>5, <1>6

CallsTyped ==
    /\ kind \in [Requests -> Kinds]
    /\ cap \in [Requests -> Caps \cup {0}]
    /\ batch \in [Requests -> Batches \cup {0}]

DrainsTyped ==
    /\ full \in [Unloaders -> BOOLEAN]
    /\ scope \in [Unloaders -> SUBSET Caps]

\* Every step takes a thread from a program point to a program point.
LEMMA PointsStep ==
    ASSUME TypeOK, [Next]_vars
    PROVE  pc' \in [Threads -> Points]
<1> USE EmbedAssumption DEF At, Goto, Threads, Points, Holding, InPass
<1>0. pc \in [Threads -> Points]
  BY DEF TypeOK
<1>1. ASSUME NEW t \in Threads,
             Acquire(t) \/ Heal(t) \/ Refuse(t) \/ Release(t)
      PROVE  pc' \in [Threads -> Points]
  BY <1>1, <1>0 DEF Acquire, Heal, Refuse, Release
<1>2. ASSUME NEW t \in Threads, Recycle(t)
      PROVE  pc' \in [Threads -> Points]
  BY <1>2, <1>0 DEF Recycle
<1>3. ASSUME NEW r \in Requests, Decide(r)
      PROVE  pc' \in [Threads -> Points]
  BY <1>3, <1>0 DEF Decide
<1>4. ASSUME NEW r \in Requests,
             Hit(r) \/ Miss(r) \/ Commit(r) \/ BuildOk(r) \/
             BuildErr(r) \/ EnterRunning(r) \/ PassEnds(r) \/
             Panic(r) \/ Hang(r) \/ ClearStamp(r)
      PROVE  pc' \in [Threads -> Points]
  BY <1>4, <1>0 DEF Hit, Miss, Commit, BuildOk, BuildErr, EnterRunning, PassEnds,
         Panic, Hang, ClearStamp
<1>5. ASSUME NEW u \in Unloaders,
             DrainAll(u) \/ RemoveNamed(u) \/ SettleDrain(u) \/
             Drop(u)
      PROVE  pc' \in [Threads -> Points]
  BY <1>5, <1>0 DEF DrainAll, RemoveNamed, SettleDrain, Drop
<1>6. ASSUME NEW r \in Requests, NEW k \in Kinds, NEW c \in Caps, NEW b \in Batches,
             Arrive(r, k, c, b)
      PROVE  pc' \in [Threads -> Points]
  BY <1>6, <1>0 DEF Arrive
<1>7. ASSUME NEW u \in Unloaders, NEW everything \in BOOLEAN, NEW caps \in SUBSET Caps,
             AskToDrain(u, everything, caps)
      PROVE  pc' \in [Threads -> Points]
  BY <1>7, <1>0 DEF AskToDrain
<1>8. CASE TornDown
  BY <1>8, <1>0 DEF TornDown
<1>9. CASE UNCHANGED engine
  BY <1>9, <1>0 DEF engine
<1>10. QED
  BY <1>1, <1>2, <1>3, <1>4, <1>5, <1>6, <1>7, <1>8, <1>9, RivalsStayOutside
     DEF Next, BurstNext, Pass, Draining

\* A call keeps its kind, cap and batch typed, and stated while it is live.
LEMMA CallsStep ==
    ASSUME TypeOK, CallsStateLimits, [Next]_vars
    PROVE  CallsTyped' /\ CallsStateLimits'
<1> USE EmbedAssumption DEF At, Goto, Threads, request, CallsTyped, CallsStateLimits
<1>0. pc \in [Threads -> Points] /\ CallsTyped /\ committed \in Caps \cup {0}
  BY DEF TypeOK
<1>1. ASSUME NEW t \in Threads,
             Acquire(t) \/ Heal(t) \/ Refuse(t) \/ Release(t)
      PROVE  CallsTyped' /\ CallsStateLimits'
  BY <1>1, <1>0 DEF Acquire, Heal, Refuse, Release
<1>2. ASSUME NEW t \in Threads, Recycle(t)
      PROVE  CallsTyped' /\ CallsStateLimits'
  BY <1>2, <1>0 DEF Recycle, Kinds
<1>3. ASSUME NEW r \in Requests, Decide(r)
      PROVE  CallsTyped' /\ CallsStateLimits'
  BY <1>3, <1>0 DEF Decide, CapFor
<1>4. ASSUME NEW r \in Requests,
             Hit(r) \/ Miss(r) \/ Commit(r) \/ BuildOk(r) \/
             BuildErr(r) \/ EnterRunning(r) \/ PassEnds(r) \/
             Panic(r) \/ Hang(r) \/ ClearStamp(r)
      PROVE  CallsTyped' /\ CallsStateLimits'
  BY <1>4, <1>0 DEF Hit, Miss, Commit, BuildOk, BuildErr, EnterRunning, PassEnds,
         Panic, Hang, ClearStamp
<1>5. ASSUME NEW u \in Unloaders,
             DrainAll(u) \/ RemoveNamed(u) \/ SettleDrain(u) \/
             Drop(u)
      PROVE  CallsTyped' /\ CallsStateLimits'
  BY <1>5, <1>0 DEF DrainAll, RemoveNamed, SettleDrain, Drop
<1>6. ASSUME NEW r \in Requests, NEW k \in Kinds, NEW c \in Caps, NEW b \in Batches,
             Arrive(r, k, c, b)
      PROVE  CallsTyped' /\ CallsStateLimits'
  BY <1>6, <1>0 DEF Arrive, Kinds
<1>7. ASSUME NEW u \in Unloaders, NEW everything \in BOOLEAN, NEW caps \in SUBSET Caps,
             AskToDrain(u, everything, caps)
      PROVE  CallsTyped' /\ CallsStateLimits'
  BY <1>7, <1>0 DEF AskToDrain
<1>8. CASE TornDown
  BY <1>8, <1>0 DEF TornDown
<1>9. CASE UNCHANGED engine
  BY <1>9, <1>0 DEF engine
<1>10. QED
  BY <1>1, <1>2, <1>3, <1>4, <1>5, <1>6, <1>7, <1>8, <1>9, RivalsStayOutside
     DEF Next, BurstNext, Pass, Draining

\* A drain keeps what it has left to take typed.
LEMMA DrainsStep ==
    ASSUME TypeOK, [Next]_vars
    PROVE  DrainsTyped'
<1> USE EmbedAssumption DEF At, Goto, Threads, drain, DrainsTyped
<1>0. DrainsTyped
  BY DEF TypeOK
<1>1. ASSUME NEW t \in Threads,
             Acquire(t) \/ Heal(t) \/ Refuse(t) \/ Release(t)
      PROVE  DrainsTyped'
  BY <1>1, <1>0 DEF Acquire, Heal, Refuse, Release
<1>2. ASSUME NEW t \in Threads, Recycle(t)
      PROVE  DrainsTyped'
  BY <1>2, <1>0 DEF Recycle
<1>3. ASSUME NEW r \in Requests, Decide(r)
      PROVE  DrainsTyped'
  BY <1>3, <1>0 DEF Decide
<1>4. ASSUME NEW r \in Requests,
             Hit(r) \/ Miss(r) \/ Commit(r) \/ BuildOk(r) \/
             BuildErr(r) \/ EnterRunning(r) \/ PassEnds(r) \/
             Panic(r) \/ Hang(r) \/ ClearStamp(r)
      PROVE  DrainsTyped'
  BY <1>4, <1>0 DEF Hit, Miss, Commit, BuildOk, BuildErr, EnterRunning, PassEnds,
         Panic, Hang, ClearStamp
<1>5. ASSUME NEW u \in Unloaders,
             DrainAll(u) \/ RemoveNamed(u) \/ SettleDrain(u) \/
             Drop(u)
      PROVE  DrainsTyped'
  BY <1>5, <1>0 DEF DrainAll, RemoveNamed, SettleDrain, Drop
<1>6. ASSUME NEW r \in Requests, NEW k \in Kinds, NEW c \in Caps, NEW b \in Batches,
             Arrive(r, k, c, b)
      PROVE  DrainsTyped'
  BY <1>6, <1>0 DEF Arrive
<1>7. ASSUME NEW u \in Unloaders, NEW everything \in BOOLEAN, NEW caps \in SUBSET Caps,
             AskToDrain(u, everything, caps)
      PROVE  DrainsTyped'
  BY <1>7, <1>0 DEF AskToDrain
<1>8. CASE TornDown
  BY <1>8, <1>0 DEF TornDown
<1>9. CASE UNCHANGED engine
  BY <1>9, <1>0 DEF engine
<1>10. QED
  BY <1>1, <1>2, <1>3, <1>4, <1>5, <1>6, <1>7, <1>8, <1>9, RivalsStayOutside
     DEF Next, BurstNext, Pass, Draining

MirrorsTyped ==
    /\ owner \in Threads \cup {NoOne}
    /\ poisoned \in BOOLEAN
    /\ committed \in Caps \cup {0}
    /\ inflight \in Phases
    /\ loaded_max_batch \in Batches \cup {0}
    /\ teardowns \in 0..MaxTeardowns
    /\ suspect \subseteq Caps
    /\ stale \in BOOLEAN
    /\ ran \subseteq Batches

\* The lock, the mirrors and the history stay typed.
LEMMA MirrorsStep ==
    ASSUME TypeOK, CallsStateLimits, RungsWithinCapacity, [Next]_vars
    PROVE  MirrorsTyped'
<1> USE EmbedAssumption DEF At, Goto, Threads, mutex, slot, mirror, report, MirrorsTyped, Settle, Phases
<1>0. /\ pc \in [Threads -> Points] /\ MirrorsTyped
      /\ cap \in [Requests -> Caps \cup {0}] /\ batch \in [Requests -> Batches \cup {0}]
      /\ \A r \in Requests : pc[r] # "idle" => cap[r] \in Caps /\ batch[r] \in Batches
      /\ MostRecent(rungs) \in Caps \cup {0} /\ MostRecent(rungs') \in Caps \cup {0}
      /\ Range(rungs) \subseteq Caps
  <2>1. rungs \in Seq(Caps) /\ rungs' \in Seq(Caps)
    BY RungsStep DEF TypeOK
  <2>2. Range(rungs) \subseteq Caps
    BY <2>1, LenProperties, ElementOfSeq DEF Range
  <2>3. QED
    BY <2>1, <2>2, MostRecentType DEF TypeOK, CallsStateLimits
<1>1. ASSUME NEW t \in Threads,
             Acquire(t) \/ Heal(t) \/ Refuse(t) \/ Release(t)
      PROVE  MirrorsTyped'
  BY <1>1, <1>0 DEF Acquire, Heal, Refuse, Release
<1>2. ASSUME NEW t \in Threads, Recycle(t)
      PROVE  MirrorsTyped'
  BY <1>2, <1>0 DEF Recycle
<1>3. ASSUME NEW r \in Requests, Decide(r)
      PROVE  MirrorsTyped'
  BY <1>3, <1>0 DEF Decide
<1>4. ASSUME NEW r \in Requests, Hit(r)
      PROVE  MirrorsTyped'
  BY <1>4, <1>0 DEF Hit
<1>5. ASSUME NEW r \in Requests, Miss(r)
      PROVE  MirrorsTyped'
  BY <1>5, <1>0 DEF Miss
<1>6. ASSUME NEW r \in Requests, Commit(r)
      PROVE  MirrorsTyped'
  BY <1>6, <1>0 DEF Commit
<1>7. ASSUME NEW r \in Requests, BuildOk(r)
      PROVE  MirrorsTyped'
  <2>1. \/ teardowns < MaxTeardowns /\ teardowns' = teardowns + 1
        \/ UNCHANGED teardowns
    BY <1>7, Zenon DEF BuildOk
  <2>2. teardowns' \in 0..MaxTeardowns
    <3>1. teardowns \in 0..MaxTeardowns /\ MaxTeardowns \in Nat
      BY <1>0
    <3>2. QED
      BY <2>1, <3>1
  <2>3. /\ suspect' = suspect \ {cap[r]} /\ committed' = MostRecent(rungs')
        /\ stale' = FALSE
        /\ UNCHANGED <<owner, poisoned, inflight, loaded_max_batch, ran>>
    BY <1>7 DEF BuildOk
  <2>4. QED
    BY <2>2, <2>3, <1>0
<1>8. ASSUME NEW r \in Requests, BuildErr(r)
      PROVE  MirrorsTyped'
  BY <1>8, <1>0 DEF BuildErr
<1>9. ASSUME NEW r \in Requests, EnterRunning(r)
      PROVE  MirrorsTyped'
  BY <1>9, <1>0 DEF EnterRunning
<1>10. ASSUME NEW r \in Requests, PassEnds(r)
      PROVE  MirrorsTyped'
  BY <1>10, <1>0 DEF PassEnds
<1>11. ASSUME NEW r \in Requests, Panic(r)
      PROVE  MirrorsTyped'
  BY <1>11, <1>0 DEF Panic
<1>12. ASSUME NEW r \in Requests, Hang(r)
      PROVE  MirrorsTyped'
  BY <1>12, <1>0 DEF Hang
<1>13. ASSUME NEW r \in Requests, ClearStamp(r)
      PROVE  MirrorsTyped'
  BY <1>13, <1>0 DEF ClearStamp
<1>14. ASSUME NEW u \in Unloaders,
             DrainAll(u) \/ RemoveNamed(u) \/ SettleDrain(u) \/
             Drop(u)
      PROVE  MirrorsTyped'
  BY <1>14, <1>0 DEF DrainAll, RemoveNamed, SettleDrain, Drop
<1>15. ASSUME NEW r \in Requests, NEW k \in Kinds, NEW c \in Caps, NEW b \in Batches,
             Arrive(r, k, c, b)
      PROVE  MirrorsTyped'
  BY <1>15, <1>0 DEF Arrive
<1>16. ASSUME NEW u \in Unloaders, NEW everything \in BOOLEAN, NEW caps \in SUBSET Caps,
             AskToDrain(u, everything, caps)
      PROVE  MirrorsTyped'
  BY <1>16, <1>0 DEF AskToDrain
<1>17. CASE TornDown
  BY <1>17, <1>0 DEF TornDown
<1>18. CASE UNCHANGED engine
  BY <1>18, <1>0 DEF engine
<1>19. QED
  BY <1>1, <1>2, <1>3, <1>4, <1>5, <1>6, <1>7, <1>8, <1>9, <1>10,
         <1>11, <1>12, <1>13, <1>14, <1>15, <1>16, <1>17, <1>18, RivalsStayOutside
     DEF Next, BurstNext, Pass, Draining

PathTyped ==
    /\ lease \in {"free", "ours", "theirs", "lost"}
    /\ rivals \in 0..MaxRivals

\* The cache path changes hands between the two engines and stays typed.
LEMMA PathStep ==
    ASSUME TypeOK, [Next]_vars
    PROVE  PathTyped'
<1> USE DEF path, PathTyped
<1>0. PathTyped
  BY DEF TypeOK
<1>1. ASSUME NEW t \in Threads,
             Acquire(t) \/ Heal(t) \/ Refuse(t) \/ Release(t) \/ Recycle(t)
      PROVE  PathTyped'
  BY <1>1, <1>0 DEF Acquire, Heal, Refuse, Release, Recycle
<1>2. ASSUME NEW r \in Requests,
             Decide(r) \/ Hit(r) \/ Miss(r) \/ BuildOk(r) \/
             EnterRunning(r) \/ Hang(r) \/ ClearStamp(r)
      PROVE  PathTyped'
  BY <1>2, <1>0 DEF Decide, Hit, Miss, BuildOk, EnterRunning, Hang, ClearStamp
<1>3. ASSUME NEW r \in Requests,
             Commit(r) \/ BuildErr(r) \/ PassEnds(r) \/ Panic(r)
      PROVE  PathTyped'
  BY <1>3, <1>0 DEF Commit, BuildErr, PassEnds, Panic, LetGo
<1>4. ASSUME NEW u \in Unloaders, Draining(u)
      PROVE  PathTyped'
  BY <1>4, <1>0 DEF Draining, DrainAll, RemoveNamed, SettleDrain, Drop
<1>5. ASSUME NEW r \in Requests, NEW k \in Kinds, NEW c \in Caps, NEW b \in Batches,
             Arrive(r, k, c, b)
      PROVE  PathTyped'
  BY <1>5, <1>0 DEF Arrive
<1>6. ASSUME NEW u \in Unloaders, NEW everything \in BOOLEAN, NEW caps \in SUBSET Caps,
             AskToDrain(u, everything, caps)
      PROVE  PathTyped'
  BY <1>6, <1>0 DEF AskToDrain
<1>7. CASE TornDown \/ UNCHANGED vars
  BY <1>7, <1>0 DEF TornDown, vars
<1>8. CASE Rival \/ RivalsAgain
  BY <1>8, <1>0, EmbedAssumption DEF Rival, RivalTakes, RivalGives, RivalHangs, RivalsAgain
<1>9. QED
  BY <1>1, <1>2, <1>3, <1>4, <1>5, <1>6, <1>7, <1>8 DEF Next, BurstNext, Pass

\* The lock excludes: only its owner stands between acquiring and releasing.
LEMMA LockStep ==
    ASSUME TypeOK, LockDiscipline, [Next]_vars
    PROVE  LockDiscipline'
<1> USE EmbedAssumption DEF At, Goto, Threads, mutex, LockDiscipline, OneHolder, Holding, InPass
<1>0. pc \in [Threads -> Points] /\ LockDiscipline
  BY DEF TypeOK
<1>1. ASSUME NEW t \in Threads, Acquire(t)
      PROVE  LockDiscipline'
  BY <1>1, <1>0 DEF Acquire
<1>2. ASSUME NEW t \in Threads, Heal(t)
      PROVE  LockDiscipline'
  BY <1>2, <1>0 DEF Heal
<1>3. ASSUME NEW t \in Threads, Refuse(t)
      PROVE  LockDiscipline'
  BY <1>3, <1>0 DEF Refuse
<1>4. ASSUME NEW t \in Threads, Release(t)
      PROVE  LockDiscipline'
  BY <1>4, <1>0 DEF Release
<1>5. ASSUME NEW t \in Threads, Recycle(t)
      PROVE  LockDiscipline'
  BY <1>5, <1>0 DEF Recycle
<1>6. ASSUME NEW r \in Requests, Decide(r)
      PROVE  LockDiscipline'
  BY <1>6, <1>0 DEF Decide
<1>7. ASSUME NEW r \in Requests, Hit(r)
      PROVE  LockDiscipline'
  BY <1>7, <1>0 DEF Hit
<1>8. ASSUME NEW r \in Requests, Miss(r)
      PROVE  LockDiscipline'
  BY <1>8, <1>0 DEF Miss
<1>9. ASSUME NEW r \in Requests, Commit(r)
      PROVE  LockDiscipline'
  BY <1>9, <1>0 DEF Commit
<1>10. ASSUME NEW r \in Requests, BuildOk(r)
      PROVE  LockDiscipline'
  BY <1>10, <1>0 DEF BuildOk
<1>11. ASSUME NEW r \in Requests, BuildErr(r)
      PROVE  LockDiscipline'
  BY <1>11, <1>0 DEF BuildErr
<1>12. ASSUME NEW r \in Requests, EnterRunning(r)
      PROVE  LockDiscipline'
  BY <1>12, <1>0 DEF EnterRunning
<1>13. ASSUME NEW r \in Requests, PassEnds(r)
      PROVE  LockDiscipline'
  BY <1>13, <1>0 DEF PassEnds
<1>14. ASSUME NEW r \in Requests, Panic(r)
      PROVE  LockDiscipline'
  BY <1>14, <1>0 DEF Panic
<1>15. ASSUME NEW r \in Requests, Hang(r)
      PROVE  LockDiscipline'
  BY <1>15, <1>0 DEF Hang
<1>16. ASSUME NEW r \in Requests, ClearStamp(r)
      PROVE  LockDiscipline'
  BY <1>16, <1>0 DEF ClearStamp
<1>17. ASSUME NEW u \in Unloaders, DrainAll(u)
      PROVE  LockDiscipline'
  BY <1>17, <1>0 DEF DrainAll
<1>18. ASSUME NEW u \in Unloaders, RemoveNamed(u)
      PROVE  LockDiscipline'
  BY <1>18, <1>0 DEF RemoveNamed
<1>19. ASSUME NEW u \in Unloaders, SettleDrain(u)
      PROVE  LockDiscipline'
  BY <1>19, <1>0 DEF SettleDrain
<1>20. ASSUME NEW u \in Unloaders, Drop(u)
      PROVE  LockDiscipline'
  BY <1>20, <1>0 DEF Drop
<1>21. ASSUME NEW r \in Requests, NEW k \in Kinds, NEW c \in Caps, NEW b \in Batches,
             Arrive(r, k, c, b)
      PROVE  LockDiscipline'
  BY <1>21, <1>0 DEF Arrive
<1>22. ASSUME NEW u \in Unloaders, NEW everything \in BOOLEAN, NEW caps \in SUBSET Caps,
             AskToDrain(u, everything, caps)
      PROVE  LockDiscipline'
  BY <1>22, <1>0 DEF AskToDrain
<1>23. CASE TornDown
  BY <1>23, <1>0 DEF TornDown
<1>24. CASE UNCHANGED engine
  BY <1>24, <1>0 DEF engine
<1>25. QED
  BY <1>1, <1>2, <1>3, <1>4, <1>5, <1>6, <1>7, <1>8, <1>9, <1>10,
         <1>11, <1>12, <1>13, <1>14, <1>15, <1>16, <1>17, <1>18,
         <1>19, <1>20, <1>21, <1>22, <1>23, <1>24, RivalsStayOutside
     DEF Next, BurstNext, Pass, Draining

\* The in-flight stamp follows the holder through every step.
LEMMA StampStep ==
    ASSUME TypeOK, LockDiscipline, StampFollowsHolder, [Next]_vars
    PROVE  StampFollowsHolder'
<1> USE EmbedAssumption DEF At, Goto, Threads, mutex, StampFollowsHolder
<1>0. /\ pc \in [Threads -> Points]
      /\ StampFollowsHolder
      /\ \A t \in Threads : pc[t] \in Holding <=> owner = t
  BY DEF TypeOK, LockDiscipline, OneHolder
<1> USE DEF Holding, InPass
<1>1. ASSUME NEW t \in Threads, Acquire(t)
      PROVE  StampFollowsHolder'
  BY <1>1, <1>0 DEF Acquire
<1>2. ASSUME NEW t \in Threads, Heal(t)
      PROVE  StampFollowsHolder'
  BY <1>2, <1>0 DEF Heal
<1>3. ASSUME NEW t \in Threads, Refuse(t)
      PROVE  StampFollowsHolder'
  BY <1>3, <1>0 DEF Refuse
<1>4. ASSUME NEW t \in Threads, Release(t)
      PROVE  StampFollowsHolder'
  BY <1>4, <1>0 DEF Release
<1>5. ASSUME NEW t \in Threads, Recycle(t)
      PROVE  StampFollowsHolder'
  BY <1>5, <1>0 DEF Recycle
<1>6. ASSUME NEW r \in Requests, Decide(r)
      PROVE  StampFollowsHolder'
  BY <1>6, <1>0 DEF Decide
<1>7. ASSUME NEW r \in Requests, Hit(r)
      PROVE  StampFollowsHolder'
  BY <1>7, <1>0 DEF Hit
<1>8. ASSUME NEW r \in Requests, Miss(r)
      PROVE  StampFollowsHolder'
  BY <1>8, <1>0 DEF Miss
<1>9. ASSUME NEW r \in Requests, Commit(r)
      PROVE  StampFollowsHolder'
  BY <1>9, <1>0 DEF Commit
<1>10. ASSUME NEW r \in Requests, BuildOk(r)
      PROVE  StampFollowsHolder'
  BY <1>10, <1>0 DEF BuildOk
<1>11. ASSUME NEW r \in Requests, BuildErr(r)
      PROVE  StampFollowsHolder'
  BY <1>11, <1>0 DEF BuildErr
<1>12. ASSUME NEW r \in Requests, EnterRunning(r)
      PROVE  StampFollowsHolder'
  BY <1>12, <1>0 DEF EnterRunning
<1>13. ASSUME NEW r \in Requests, PassEnds(r)
      PROVE  StampFollowsHolder'
  BY <1>13, <1>0 DEF PassEnds
<1>14. ASSUME NEW r \in Requests, Panic(r)
      PROVE  StampFollowsHolder'
  BY <1>14, <1>0 DEF Panic
<1>15. ASSUME NEW r \in Requests, Hang(r)
      PROVE  StampFollowsHolder'
  BY <1>15, <1>0 DEF Hang
<1>16. ASSUME NEW r \in Requests, ClearStamp(r)
      PROVE  StampFollowsHolder'
  BY <1>16, <1>0 DEF ClearStamp
<1>17. ASSUME NEW u \in Unloaders, DrainAll(u)
      PROVE  StampFollowsHolder'
  BY <1>17, <1>0 DEF DrainAll
<1>18. ASSUME NEW u \in Unloaders, RemoveNamed(u)
      PROVE  StampFollowsHolder'
  BY <1>18, <1>0 DEF RemoveNamed
<1>19. ASSUME NEW u \in Unloaders, SettleDrain(u)
      PROVE  StampFollowsHolder'
  BY <1>19, <1>0 DEF SettleDrain
<1>20. ASSUME NEW u \in Unloaders, Drop(u)
      PROVE  StampFollowsHolder'
  BY <1>20, <1>0 DEF Drop
<1>21. ASSUME NEW r \in Requests, NEW k \in Kinds, NEW c \in Caps, NEW b \in Batches,
             Arrive(r, k, c, b)
      PROVE  StampFollowsHolder'
  BY <1>21, <1>0 DEF Arrive
<1>22. ASSUME NEW u \in Unloaders, NEW everything \in BOOLEAN, NEW caps \in SUBSET Caps,
             AskToDrain(u, everything, caps)
      PROVE  StampFollowsHolder'
  BY <1>22, <1>0 DEF AskToDrain
<1>23. CASE TornDown
  BY <1>23, <1>0 DEF TornDown
<1>24. CASE UNCHANGED engine
  BY <1>24, <1>0 DEF engine
<1>25. QED
  BY <1>1, <1>2, <1>3, <1>4, <1>5, <1>6, <1>7, <1>8, <1>9, <1>10,
         <1>11, <1>12, <1>13, <1>14, <1>15, <1>16, <1>17, <1>18,
         <1>19, <1>20, <1>21, <1>22, <1>23, <1>24, RivalsStayOutside
     DEF Next, BurstNext, Pass, Draining

\* The commitment follows the holder: every path settles what it unsettled
\* before it lets the lock go, and a panic leaves its mark until the heal.
LEMMA MirrorStep ==
    ASSUME TypeOK, CallsStateLimits, LockDiscipline, RungsWithinCapacity,
           MirrorFollowsHolder, [Next]_vars
    PROVE  MirrorFollowsHolder'
<1> USE EmbedAssumption DEF At, Goto, Threads, mutex, mirror, slot, MirrorFollowsHolder, Settled, Settle
<1>0. /\ pc \in [Threads -> Points]
      /\ MirrorFollowsHolder
      /\ poisoned \in BOOLEAN /\ stale \in BOOLEAN
      /\ poisoned => owner = NoOne
      /\ \A u \in Unloaders : pc[u] \in Holding => pc[u] \in {"draining", "releasing"}
      /\ \A t \in Threads : pc[t] \in Holding <=> owner = t
  BY DEF TypeOK, LockDiscipline, OneHolder
<1>a. ASSUME NEW r \in Requests, Hit(r)
      PROVE  MostRecent(rungs') = cap[r]
  BY <1>a, PromoteProperties DEF Hit, TypeOK, RungsWithinCapacity
<1>b. ASSUME NEW r \in Requests, BuildOk(r)
      PROVE  MostRecent(rungs') = cap[r]
  <2>1. cap[r] \in Caps /\ Capacity \in Nat \ {0}
    BY <1>b DEF BuildOk, CallsStateLimits
  <2>2. rungs' = Insert(rungs, cap[r], Capacity)
    BY <1>b DEF BuildOk
  <2>3. QED
    BY <2>1, <2>2, InsertProperties DEF TypeOK, RungsWithinCapacity
<1> USE DEF Holding, InPass, request
<1>1. ASSUME NEW t \in Threads, Acquire(t)
      PROVE  MirrorFollowsHolder'
  BY <1>1, <1>0 DEF Acquire
<1>2. ASSUME NEW t \in Threads, Heal(t)
      PROVE  MirrorFollowsHolder'
  BY <1>2, <1>0 DEF Heal
<1>3. ASSUME NEW t \in Threads, Refuse(t)
      PROVE  MirrorFollowsHolder'
  BY <1>3, <1>0 DEF Refuse
<1>4. ASSUME NEW t \in Threads, Release(t)
      PROVE  MirrorFollowsHolder'
  BY <1>4, <1>0 DEF Release
<1>5. ASSUME NEW t \in Threads, Recycle(t)
      PROVE  MirrorFollowsHolder'
  BY <1>5, <1>0 DEF Recycle
<1>6. ASSUME NEW r \in Requests, Decide(r)
      PROVE  MirrorFollowsHolder'
  BY <1>6, <1>0 DEF Decide
<1>7. ASSUME NEW r \in Requests, Hit(r)
      PROVE  MirrorFollowsHolder'
  BY <1>7, <1>0, <1>a DEF Hit
<1>8. ASSUME NEW r \in Requests, Miss(r)
      PROVE  MirrorFollowsHolder'
  BY <1>8, <1>0 DEF Miss
<1>9. ASSUME NEW r \in Requests, Commit(r)
      PROVE  MirrorFollowsHolder'
  BY <1>9, <1>0 DEF Commit
<1>10. ASSUME NEW r \in Requests, BuildOk(r)
      PROVE  MirrorFollowsHolder'
  BY <1>10, <1>0, <1>b DEF BuildOk
<1>11. ASSUME NEW r \in Requests, BuildErr(r)
      PROVE  MirrorFollowsHolder'
  BY <1>11, <1>0 DEF BuildErr
<1>12. ASSUME NEW r \in Requests, EnterRunning(r)
      PROVE  MirrorFollowsHolder'
  BY <1>12, <1>0 DEF EnterRunning
<1>13. ASSUME NEW r \in Requests, PassEnds(r)
      PROVE  MirrorFollowsHolder'
  BY <1>13, <1>0 DEF PassEnds
<1>14. ASSUME NEW r \in Requests, Panic(r)
      PROVE  MirrorFollowsHolder'
  BY <1>14, <1>0 DEF Panic
<1>15. ASSUME NEW r \in Requests, Hang(r)
      PROVE  MirrorFollowsHolder'
  BY <1>15, <1>0 DEF Hang
<1>16. ASSUME NEW r \in Requests, ClearStamp(r)
      PROVE  MirrorFollowsHolder'
  BY <1>16, <1>0 DEF ClearStamp
<1>17. ASSUME NEW u \in Unloaders, DrainAll(u)
      PROVE  MirrorFollowsHolder'
  BY <1>17, <1>0 DEF DrainAll
<1>18. ASSUME NEW u \in Unloaders, RemoveNamed(u)
      PROVE  MirrorFollowsHolder'
  BY <1>18, <1>0 DEF RemoveNamed
<1>19. ASSUME NEW u \in Unloaders, SettleDrain(u)
      PROVE  MirrorFollowsHolder'
  BY <1>19, <1>0 DEF SettleDrain
<1>20. ASSUME NEW u \in Unloaders, Drop(u)
      PROVE  MirrorFollowsHolder'
  BY <1>20, <1>0 DEF Drop
<1>21. ASSUME NEW r \in Requests, NEW k \in Kinds, NEW c \in Caps, NEW b \in Batches,
             Arrive(r, k, c, b)
      PROVE  MirrorFollowsHolder'
  BY <1>21, <1>0 DEF Arrive
<1>22. ASSUME NEW u \in Unloaders, NEW everything \in BOOLEAN, NEW caps \in SUBSET Caps,
             AskToDrain(u, everything, caps)
      PROVE  MirrorFollowsHolder'
  BY <1>22, <1>0 DEF AskToDrain
<1>23. CASE TornDown
  BY <1>23, <1>0 DEF TornDown
<1>24. CASE UNCHANGED engine
  BY <1>24, <1>0 DEF engine
<1>25. QED
  BY <1>1, <1>2, <1>3, <1>4, <1>5, <1>6, <1>7, <1>8, <1>9, <1>10,
         <1>11, <1>12, <1>13, <1>14, <1>15, <1>16, <1>17, <1>18,
         <1>19, <1>20, <1>21, <1>22, <1>23, <1>24, RivalsStayOutside
     DEF Next, BurstNext, Pass, Draining

\* Suspect engines are gone before anybody may serve from them.
LEMMA SuspectStep ==
    ASSUME TypeOK, LockDiscipline, SuspectsAwaitHealing, [Next]_vars
    PROVE  SuspectsAwaitHealing'
<1> USE EmbedAssumption DEF At, Goto, Threads, mutex, slot, SuspectsAwaitHealing
<1>0. /\ pc \in [Threads -> Points]
      /\ SuspectsAwaitHealing
      /\ poisoned => owner = NoOne
      /\ \A t \in Threads : pc[t] \in Holding <=> owner = t
  BY DEF TypeOK, LockDiscipline, OneHolder
<1> USE DEF Holding, InPass
<1>1. ASSUME NEW t \in Threads, Acquire(t)
      PROVE  SuspectsAwaitHealing'
  BY <1>1, <1>0 DEF Acquire
<1>2. ASSUME NEW t \in Threads, Heal(t)
      PROVE  SuspectsAwaitHealing'
  BY <1>2, <1>0 DEF Heal
<1>3. ASSUME NEW t \in Threads, Refuse(t)
      PROVE  SuspectsAwaitHealing'
  BY <1>3, <1>0 DEF Refuse
<1>4. ASSUME NEW t \in Threads, Release(t)
      PROVE  SuspectsAwaitHealing'
  BY <1>4, <1>0 DEF Release
<1>5. ASSUME NEW t \in Threads, Recycle(t)
      PROVE  SuspectsAwaitHealing'
  BY <1>5, <1>0 DEF Recycle
<1>6. ASSUME NEW r \in Requests, Decide(r)
      PROVE  SuspectsAwaitHealing'
  BY <1>6, <1>0 DEF Decide
<1>7. ASSUME NEW r \in Requests, Hit(r)
      PROVE  SuspectsAwaitHealing'
  BY <1>7, <1>0 DEF Hit
<1>8. ASSUME NEW r \in Requests, Miss(r)
      PROVE  SuspectsAwaitHealing'
  BY <1>8, <1>0 DEF Miss
<1>9. ASSUME NEW r \in Requests, Commit(r)
      PROVE  SuspectsAwaitHealing'
  BY <1>9, <1>0 DEF Commit
<1>10. ASSUME NEW r \in Requests, BuildOk(r)
      PROVE  SuspectsAwaitHealing'
  BY <1>10, <1>0 DEF BuildOk
<1>11. ASSUME NEW r \in Requests, BuildErr(r)
      PROVE  SuspectsAwaitHealing'
  BY <1>11, <1>0 DEF BuildErr
<1>12. ASSUME NEW r \in Requests, EnterRunning(r)
      PROVE  SuspectsAwaitHealing'
  BY <1>12, <1>0 DEF EnterRunning
<1>13. ASSUME NEW r \in Requests, PassEnds(r)
      PROVE  SuspectsAwaitHealing'
  BY <1>13, <1>0 DEF PassEnds
<1>14. ASSUME NEW r \in Requests, Panic(r)
      PROVE  SuspectsAwaitHealing'
  BY <1>14, <1>0 DEF Panic
<1>15. ASSUME NEW r \in Requests, Hang(r)
      PROVE  SuspectsAwaitHealing'
  BY <1>15, <1>0 DEF Hang
<1>16. ASSUME NEW r \in Requests, ClearStamp(r)
      PROVE  SuspectsAwaitHealing'
  BY <1>16, <1>0 DEF ClearStamp
<1>17. ASSUME NEW u \in Unloaders, DrainAll(u)
      PROVE  SuspectsAwaitHealing'
  BY <1>17, <1>0 DEF DrainAll
<1>18. ASSUME NEW u \in Unloaders, RemoveNamed(u)
      PROVE  SuspectsAwaitHealing'
  BY <1>18, <1>0 DEF RemoveNamed
<1>19. ASSUME NEW u \in Unloaders, SettleDrain(u)
      PROVE  SuspectsAwaitHealing'
  BY <1>19, <1>0 DEF SettleDrain
<1>20. ASSUME NEW u \in Unloaders, Drop(u)
      PROVE  SuspectsAwaitHealing'
  BY <1>20, <1>0 DEF Drop
<1>21. ASSUME NEW r \in Requests, NEW k \in Kinds, NEW c \in Caps, NEW b \in Batches,
             Arrive(r, k, c, b)
      PROVE  SuspectsAwaitHealing'
  BY <1>21, <1>0 DEF Arrive
<1>22. ASSUME NEW u \in Unloaders, NEW everything \in BOOLEAN, NEW caps \in SUBSET Caps,
             AskToDrain(u, everything, caps)
      PROVE  SuspectsAwaitHealing'
  BY <1>22, <1>0 DEF AskToDrain
<1>23. CASE TornDown
  BY <1>23, <1>0 DEF TornDown
<1>24. CASE UNCHANGED engine
  BY <1>24, <1>0 DEF engine
<1>25. QED
  BY <1>1, <1>2, <1>3, <1>4, <1>5, <1>6, <1>7, <1>8, <1>9, <1>10,
         <1>11, <1>12, <1>13, <1>14, <1>15, <1>16, <1>17, <1>18,
         <1>19, <1>20, <1>21, <1>22, <1>23, <1>24, RivalsStayOutside
     DEF Next, BurstNext, Pass, Draining

\* The one way into a build is a miss.
LEMMA OnlyMissClaims ==
    ASSUME TypeOK, NEW q \in Requests, At(q, "held"), pc'[q] = "claiming", [Next]_vars
    PROVE  ~Resident(rungs, cap[q])
<1> USE EmbedAssumption DEF At, Goto, Threads
<1>0. pc \in [Threads -> Points] /\ pc[q] = "held" /\ pc'[q] = "claiming"
  BY DEF TypeOK
<1>1. ASSUME NEW t \in Threads,
             Acquire(t) \/ Heal(t) \/ Refuse(t) \/ Release(t)
      PROVE  ~Resident(rungs, cap[q])
  BY <1>1, <1>0 DEF Acquire, Heal, Refuse, Release
<1>2. ASSUME NEW t \in Threads, Recycle(t)
      PROVE  ~Resident(rungs, cap[q])
  BY <1>2, <1>0 DEF Recycle
<1>3. ASSUME NEW r \in Requests,
             Decide(r) \/ Hit(r) \/ Commit(r) \/ BuildOk(r) \/
             BuildErr(r) \/ EnterRunning(r) \/ PassEnds(r) \/
             Panic(r) \/ Hang(r) \/ ClearStamp(r)
      PROVE  ~Resident(rungs, cap[q])
  BY <1>3, <1>0 DEF Decide, Hit, Commit, BuildOk, BuildErr, EnterRunning,
         PassEnds, Panic, Hang, ClearStamp
<1>4. ASSUME NEW r \in Requests, Miss(r)
      PROVE  ~Resident(rungs, cap[q])
  BY <1>4, <1>0 DEF Miss
<1>5. ASSUME NEW u \in Unloaders,
             DrainAll(u) \/ RemoveNamed(u) \/ SettleDrain(u) \/
             Drop(u)
      PROVE  ~Resident(rungs, cap[q])
  BY <1>5, <1>0 DEF DrainAll, RemoveNamed, SettleDrain, Drop
<1>6. ASSUME NEW r \in Requests, NEW k \in Kinds, NEW c \in Caps, NEW b \in Batches,
             Arrive(r, k, c, b)
      PROVE  ~Resident(rungs, cap[q])
  BY <1>6, <1>0 DEF Arrive
<1>7. ASSUME NEW u \in Unloaders, NEW everything \in BOOLEAN, NEW caps \in SUBSET Caps,
             AskToDrain(u, everything, caps)
      PROVE  ~Resident(rungs, cap[q])
  BY <1>7, <1>0 DEF AskToDrain
<1>8. CASE TornDown
  BY <1>8, <1>0 DEF TornDown
<1>9. CASE UNCHANGED engine
  BY <1>9, <1>0 DEF engine
<1>10. QED
  BY <1>1, <1>2, <1>3, <1>4, <1>5, <1>6, <1>7, <1>8, <1>9, RivalsStayOutside
     DEF Next, BurstNext, Pass, Draining
-----------------------------------------------------------------------------
\* A freshly started process: nothing resident, nobody inside, nothing committed.
LEMMA InitEstablishes == Init => IInv
<1>1. SUFFICES ASSUME Init PROVE IInv
  OBVIOUS
<1>2. MostRecent(rungs) = 0 /\ rungs \in Seq(Caps) /\ RungsWithinCapacity
  <2>1. rungs = <<>> /\ Len(rungs) = 0 /\ DOMAIN rungs = {} /\ rungs \in Seq(Caps)
    BY <1>1, EmptySeq DEF Init
  <2>2. QED
    BY <2>1, EmbedAssumption DEF MostRecent, RungsWithinCapacity, Distinct
<1>3. TypeOK
  <2>1. /\ pc \in [Threads -> Points]
        /\ CallsTyped /\ DrainsTyped
    BY <1>1 DEF Init, Points, Kinds, CallsTyped, DrainsTyped
  <2>2. MirrorsTyped
    <3>1. MaxTeardowns \in Nat /\ 0 \in 0..MaxTeardowns
      BY EmbedAssumption
    <3>2. QED
      BY <1>1, <3>1 DEF Init, MirrorsTyped, Phases
  <2>3. PathTyped
    BY <1>1, EmbedAssumption DEF Init, PathTyped
  <2>4. QED
    BY <1>2, <2>1, <2>2, <2>3 DEF TypeOK, CallsTyped, DrainsTyped, MirrorsTyped, PathTyped
<1>4. CallsStateLimits /\ StampFollowsHolder
  <2>1. \A r \in Requests : pc[r] = "idle"
    BY <1>1 DEF Init, Threads
  <2>2. owner = NoOne /\ inflight = "none"
    BY <1>1 DEF Init
  <2>3. QED
    BY <2>1, <2>2 DEF CallsStateLimits, StampFollowsHolder, At
<1>5. LockDiscipline /\ SuspectsAwaitHealing
  <2>1. \A t \in Threads : pc[t] = "idle" /\ t # NoOne
    BY <1>1, EmbedAssumption DEF Init, Threads
  <2>2. owner = NoOne /\ ~poisoned /\ suspect = {}
    BY <1>1 DEF Init
  <2>3. QED
    BY <2>1, <2>2
       DEF LockDiscipline, OneHolder, SuspectsAwaitHealing, Holding, InPass, Threads, At
<1>6. MirrorFollowsHolder
  BY <1>1, <1>2 DEF Init, MirrorFollowsHolder, Settled, At, Threads
<1>7. QED
  BY <1>2, <1>3, <1>4, <1>5, <1>6 DEF IInv

\* Every step preserves the inductive invariant, conjunct by conjunct.
LEMMA StepPreserves == IInv /\ [Next]_vars => IInv'
<1>1. SUFFICES ASSUME IInv, [Next]_vars PROVE IInv'
  OBVIOUS
<1>2. /\ TypeOK /\ CallsStateLimits /\ LockDiscipline /\ RungsWithinCapacity
      /\ StampFollowsHolder /\ MirrorFollowsHolder /\ SuspectsAwaitHealing
  BY <1>1 DEF IInv
<1>3. TypeOK'
  BY <1>1, <1>2, PointsStep, CallsStep, DrainsStep, MirrorsStep, PathStep, RungsStep
     DEF TypeOK, CallsTyped, DrainsTyped, MirrorsTyped, PathTyped
<1>4. CallsStateLimits' /\ LockDiscipline' /\ RungsWithinCapacity'
  BY <1>1, <1>2, CallsStep, LockStep, RungsStep
<1>5. StampFollowsHolder' /\ MirrorFollowsHolder' /\ SuspectsAwaitHealing'
  BY <1>1, <1>2, StampStep, MirrorStep, SuspectStep
<1>6. QED
  BY <1>3, <1>4, <1>5 DEF IInv

\* The inductive invariant holds in every reachable state.
THEOREM Inductive == Spec => []IInv
BY InitEstablishes, StepPreserves, PTL DEF Spec

\* Type correctness: no step of a pass, a drain or a teardown leaves the types.
THEOREM TypeCorrect == Spec => []TypeOK
<1>1. IInv => TypeOK
  BY DEF IInv
<1>2. QED
  BY <1>1, Inductive, PTL

\* RungCache::insert keeps the cache within EMBED_ENGINE_CACHE_RUNGS and files
\* no cap twice, however hits, builds, partial drains and heals follow.
THEOREM CapacityHolds == Spec => []RungsWithinCapacity
<1>1. IInv => RungsWithinCapacity
  BY DEF IInv
<1>2. QED
  BY <1>1, Inductive, PTL

\* The engine mutex excludes, poisoned or not.
THEOREM MutualExclusion == Spec => []OneHolder
<1>1. IInv => OneHolder
  BY DEF IInv, LockDiscipline
<1>2. QED
  BY <1>1, Inductive, PTL

\* settle_cap on every path: a free, unpoisoned lock means the lock-free
\* commitment is exactly the most recently used rung.
THEOREM MirrorIsExact == Spec => []CommitmentMirrorsResidency
<1>1. IInv => CommitmentMirrorsResidency
  BY DEF IInv, MirrorFollowsHolder, Settled, CommitmentMirrorsResidency
<1>2. QED
  BY <1>1, Inductive, PTL

\* The cap a query would inherit at this moment is resident or being built,
\* except after a panic and in the middle of a drain.
THEOREM CommitmentBacked == Spec => []CommitmentIsBacked
<1>1. ASSUME IInv, committed # 0, ~stale
      PROVE  \/ Resident(rungs, committed)
             \/ \E r \in Requests :
                   owner = r /\ cap[r] = committed /\ pc[r] \in {"building", "stuck"}
             \/ \E u \in Unloaders : At(u, "draining")
  <2>1. Settled => Resident(rungs, committed)
    BY <1>1, MostRecentType DEF IInv, TypeOK, Settled
  <2>2. CASE owner = NoOne
    BY <1>1, <2>1, <2>2 DEF IInv, TypeOK, MirrorFollowsHolder
  <2>3. ASSUME NEW u \in Unloaders, owner = u
        PROVE  \/ Resident(rungs, committed)
               \/ At(u, "draining")
    <3>1. pc[u] \in {"draining", "releasing"}
      BY <1>1, <2>3 DEF IInv, LockDiscipline, OneHolder, Threads
    <3>2. QED
      BY <1>1, <2>1, <3>1 DEF IInv, MirrorFollowsHolder, At
  <2>4. ASSUME NEW r \in Requests, owner = r
        PROVE  \/ Resident(rungs, committed)
               \/ cap[r] = committed /\ pc[r] \in {"building", "stuck"}
    <3>1. pc[r] \in Holding
      BY <1>1, <2>4 DEF IInv, LockDiscipline, OneHolder, Threads
    <3>2. pc[r] # "draining"
      BY <1>1 DEF IInv, LockDiscipline, At
    <3>3. QED
      BY <1>1, <2>1, <3>1, <3>2 DEF IInv, MirrorFollowsHolder, Holding, InPass
  <2>5. QED
    BY <1>1, <2>2, <2>3, <2>4 DEF IInv, TypeOK, Threads
<1>2. IInv => CommitmentIsBacked
  BY <1>1 DEF CommitmentIsBacked
<1>3. QED
  BY <1>2, Inductive, PTL

\* No phantom: a stamp is there only while a pass holds the engine.
THEOREM NoPhantom == Spec => []NoPhantomStamp
<1>1. ASSUME IInv, inflight # "none"
      PROVE  \E r \in Requests : owner = r /\ pc[r] \in InPass
  <2>1. PICK r \in Requests : owner = r
    BY <1>1 DEF IInv, StampFollowsHolder
  <2>2. pc[r] \in Holding
    BY <1>1, <2>1 DEF IInv, LockDiscipline, OneHolder, Threads
  <2>3. pc[r] \notin {"draining", "releasing", "poisoning"}
    BY <1>1, <2>1 DEF IInv, LockDiscipline, StampFollowsHolder, At
  <2>4. QED
    BY <2>1, <2>2, <2>3 DEF Holding
<1>2. IInv => NoPhantomStamp
  BY <1>1 DEF NoPhantomStamp
<1>3. QED
  BY <1>2, Inductive, PTL

\* Native code runs under the stamp of its own phase, so a hang in it is
\* visible to /health and measured against the right ceiling.
THEOREM StampedNativeCalls == Spec => []NativeCallIsStamped
<1>1. IInv => NativeCallIsStamped
  BY DEF IInv, StampFollowsHolder, NativeCallIsStamped, At
<1>2. QED
  BY <1>1, Inductive, PTL

\* embed_natural's expect() cannot fire: a pass finds the rung it settled on.
THEOREM RungIsFound == Spec => []PassFindsItsRung
<1>1. IInv => PassFindsItsRung
  BY DEF IInv, MirrorFollowsHolder, Settled, PassFindsItsRung
<1>2. QED
  BY <1>1, Inductive, PTL

\* An engine resident during a panic is discarded before anybody serves from it.
THEOREM SuspectsNeverServe == Spec => []SuspectEngineNeverServes
<1>1. ASSUME IInv, NEW r \in Requests, pc[r] \in {"settled", "running"}
      PROVE  suspect = {}
  <2>1. owner = r /\ ~poisoned
    BY <1>1, EmbedAssumption DEF IInv, LockDiscipline, OneHolder, Holding, InPass, Threads
  <2>2. ASSUME NEW q \in Requests, pc[q] \in {"panicking", "poisoning"}
        PROVE  FALSE
    <3>1. owner = q
      BY <1>1, <2>2 DEF IInv, LockDiscipline, OneHolder, Holding, InPass, Threads
    <3>2. QED
      BY <1>1, <2>1, <2>2, <3>1
  <2>3. QED
    BY <1>1, <2>1, <2>2 DEF IInv, SuspectsAwaitHealing
<1>2. IInv => SuspectEngineNeverServes
  BY <1>1 DEF SuspectEngineNeverServes
<1>3. QED
  BY <1>2, Inductive, PTL

\* A query builds a rung only when the commitment it settled on has moved on
\* while it waited, or a panic left the commitment stale.
THEOREM QueryBuilds == Spec => QueryBuildsOnlyAfterTheCommitmentMoved
<1>1. ASSUME IInv, [Next]_vars, NEW r \in Requests, At(r, "held"), pc'[r] = "claiming"
      PROVE  committed # cap[r] \/ stale
  <2>1. ~Resident(rungs, cap[r])
    BY <1>1, OnlyMissClaims DEF IInv
  <2>2. cap[r] \in Caps /\ cap[r] # 0
    BY <1>1, EmbedAssumption DEF IInv, CallsStateLimits, At
  <2>3. stale \/ committed = MostRecent(rungs)
    BY <1>1 DEF IInv, MirrorFollowsHolder, Settled, At
  <2>4. MostRecent(rungs) # 0 => Resident(rungs, MostRecent(rungs))
    BY <1>1, MostRecentType DEF IInv, TypeOK
  <2>5. QED
    BY <2>1, <2>2, <2>3, <2>4
<1>2. IInv /\ [Next]_vars =>
        [\A r \in Requests :
            kind[r] = "query" /\ At(r, "held") /\ pc'[r] = "claiming"
                => committed # cap[r] \/ stale]_vars
  BY <1>1
<1>3. QED
  BY <1>2, Inductive, PTL DEF Spec, QueryBuildsOnlyAfterTheCommitmentMoved
(***************************************************************************)
(* EmbedEngine implements EngineService.  Every step of the slot is a step *)
(* of the service or leaves the service as it was; most leave it.          *)
(***************************************************************************)
StageMap == [x \in Threads |-> StageOf(pc[x])]
Engines == Range(rungs)

\* A thread that goes to another point moves the stage of that point's name.
LEMMA StageMoves ==
    ASSUME TypeOK, NEW t \in Threads, NEW point \in Points, Goto(t, point)
    PROVE  /\ StageMap' = [StageMap EXCEPT ![t] = StageOf(point)]
           /\ StageOf(pc[t]) = StageOf(point) => UNCHANGED StageMap
<1>1. pc \in [Threads -> Points] /\ pc' = [pc EXCEPT ![t] = point]
  BY DEF TypeOK, Goto
<1>2. \A x \in Threads : pc'[x] = IF x = t THEN point ELSE pc[x]
  BY <1>1
<1>3. QED
  BY <1>1, <1>2 DEF StageMap

\* What the points of a pass and of a drain are to a caller.
LEMMA StageNames ==
    /\ StageOf("idle") = "idle"
    /\ StageOf("asked") = "waiting" /\ StageOf("waiting") = "waiting"
    /\ \A p \in Holding : StageOf(p) = "inside"
    /\ StageOf("dropping") = "answered" /\ StageOf("done") = "answered"
BY DEF StageOf, Holding, InPass

\* Whether the slot is broken follows from the owner and its point.
LEMMA BrokenWhenFree ==
    ASSUME IInv
    PROVE  /\ owner = NoOne => Broken = poisoned
           /\ \A t \in Threads : owner = t =>
                Broken = (t \in Requests /\ pc[t] \in {"panicking", "poisoning"})
<1>1. \A r \in Requests : pc[r] \in {"panicking", "poisoning"} => owner = r
  BY DEF IInv, LockDiscipline, OneHolder, Holding, InPass, Threads
<1>2. \A t \in Threads : t # NoOne
  BY EmbedAssumption DEF Threads
<1>3. poisoned => owner = NoOne
  BY DEF IInv, LockDiscipline
<1>4. poisoned \in BOOLEAN
  BY DEF IInv, TypeOK
<1>5. ASSUME owner = NoOne PROVE Broken = poisoned
  BY <1>1, <1>2, <1>4, <1>5 DEF Broken, Threads
<1>6. ASSUME NEW t \in Threads, owner = t
      PROVE  Broken = (t \in Requests /\ pc[t] \in {"panicking", "poisoning"})
  BY <1>1, <1>2, <1>3, <1>4, <1>6 DEF Broken, Threads
<1>7. QED
  BY <1>5, <1>6

\* Steps of the lock.
LEMMA LockRefines ==
    ASSUME IInv, IInv', NEW t \in Threads
    PROVE  /\ Acquire(t) \/ Heal(t) => Service!Enter(t)
           /\ Refuse(t) => Service!TurnAway(t)
           /\ Release(t) => Service!Leave(t)
           /\ Recycle(t) => Service!Forget(t)
<1> DEFINE inside == IF t \in Requests THEN "held" ELSE "draining"
<1>0. /\ TypeOK /\ t # NoOne
      /\ inside \in Points /\ StageOf(inside) = "inside"
      /\ "done" \in Points /\ "dropping" \in Points
  BY EmbedAssumption, StageNames DEF IInv, Threads, Points, Holding, InPass
<1>1. ASSUME Acquire(t) \/ Heal(t) PROVE Service!Enter(t)
  <2>1. /\ Goto(t, inside) /\ StageOf(pc[t]) = "waiting"
        /\ owner = NoOne /\ owner' = t /\ ~poisoned'
        /\ rungs' = IF poisoned THEN <<>> ELSE rungs
        /\ UNCHANGED <<committed, inflight>>
    BY <1>1, StageNames DEF Acquire, Heal, At, mirror, slot, mutex
  <2>2. StageMap' = [StageMap EXCEPT ![t] = "inside"] /\ StageMap[t] = "waiting"
    BY <1>0, <2>1, StageMoves DEF StageMap
  <2>3. Engines' = IF Broken THEN {} ELSE Engines
    <3>1. Broken = poisoned
      BY <2>1, BrokenWhenFree
    <3>2. Range(<<>>) = {}
      BY DEF Range
    <3>3. QED
      BY <2>1, <3>1, <3>2 DEF Engines
  <2>4. ~Broken'
    <3>1. t \in Requests => pc'[t] = "held"
      BY <1>0, <2>1 DEF Goto, TypeOK
    <3>2. Broken' = (t \in Requests /\ pc'[t] \in {"panicking", "poisoning"})
      BY <2>1, BrokenWhenFree, <3>1 DEF IInv, LockDiscipline, OneHolder, Broken, Holding, InPass, Threads
    <3>3. QED
      BY <3>1, <3>2
  <2>5. InUse = 0 /\ InUse' = 0
    <3>1. inflight = "none"
      BY <1>0, <2>1, EmbedAssumption DEF IInv, StampFollowsHolder, Threads
    <3>2. QED
      BY <2>1, <3>1 DEF InUse
  <2>6. Broken' = FALSE
    BY <2>4 DEF Broken
  <2>7. QED
    BY <2>1, <2>2, <2>3, <2>5, <2>6 DEF Service!Enter, Service!To, StageMap, Engines
<1>2. ASSUME Refuse(t) PROVE Service!TurnAway(t)
  <2>1. /\ Goto(t, "done") /\ StageOf(pc[t]) = "waiting" /\ owner # NoOne
        /\ UNCHANGED <<rungs, committed, inflight, owner, poisoned, cap>>
    BY <1>2, StageNames DEF Refuse, At, mirror, slot, mutex, request
  <2>2. StageMap' = [StageMap EXCEPT ![t] = "answered"] /\ StageMap[t] = "waiting"
    BY <1>0, <2>1, StageMoves, StageNames DEF StageMap
  <2>3. UNCHANGED InUse
    BY <2>1 DEF InUse
  <2>4. UNCHANGED Broken
    <3>1. \A r \in Requests : pc[r] \in {"panicking", "poisoning"}
                                <=> pc'[r] \in {"panicking", "poisoning"}
      BY <1>0, <1>2, <2>1 DEF Refuse, At, Goto, TypeOK, Threads
    <3>2. QED
      BY <2>1, <3>1 DEF Broken
  <2>5. QED
    BY <2>1, <2>2, <2>3, <2>4 DEF Service!TurnAway, Service!To, StageMap
<1>3. ASSUME Release(t) PROVE Service!Leave(t)
  <2> DEFINE out == IF t \in Requests THEN "done" ELSE "dropping"
  <2>1. /\ Goto(t, out) /\ pc[t] \in {"releasing", "poisoning"}
        /\ owner' = NoOne /\ poisoned' = At(t, "poisoning")
        /\ UNCHANGED <<rungs, committed, inflight, cap>>
    BY <1>3 DEF Release, mirror, slot, request
  <2>2. StageMap' = [StageMap EXCEPT ![t] = "answered"]
    BY <1>0, <2>1, StageMoves, StageNames
  <2>3. owner = t /\ ~poisoned
    BY <1>0, <2>1 DEF IInv, LockDiscipline, OneHolder, Holding, InPass
  <2>4. InUse = 0 /\ InUse' = 0
    <3>1. inflight = "none" \/ t \notin Requests
      BY <2>1 DEF IInv, StampFollowsHolder
    <3>2. NoOne \notin Requests
      BY EmbedAssumption
    <3>3. QED
      BY <2>1, <2>3, <3>1, <3>2 DEF InUse
  <2>5. Broken = At(t, "poisoning")
    <3>1. At(t, "poisoning") => t \in Requests
      BY <2>3 DEF IInv, LockDiscipline, Threads, At, Holding
    <3>2. Broken = (t \in Requests /\ pc[t] \in {"panicking", "poisoning"})
      BY <2>3, BrokenWhenFree
    <3>3. QED
      BY <2>1, <3>1, <3>2 DEF At
  <2>6. Broken' = poisoned'
    <3>1. ASSUME NEW r \in Requests PROVE pc'[r] \notin {"panicking", "poisoning"}
      <4>1. CASE r = t
        BY <1>0, <2>1, <4>1 DEF TypeOK, Goto
      <4>2. CASE r # t
        <5>1. pc'[r] = pc[r]
          BY <1>0, <2>1, <4>2 DEF TypeOK, Goto
        <5>2. pc[r] \notin Holding
          BY <2>3, <4>2 DEF IInv, LockDiscipline, OneHolder, Threads
        <5>3. QED
          BY <5>1, <5>2 DEF Holding, InPass
      <4>3. QED
        BY <4>1, <4>2
    <3>2. poisoned' \in BOOLEAN
      BY <2>1 DEF At
    <3>3. QED
      BY <3>1, <3>2 DEF Broken
  <2>7. Broken \/ committed \in Engines \/ (committed = 0 /\ Engines = {})
    <3>1. At(t, "releasing") => Settled
      BY <1>0, <2>3 DEF IInv, MirrorFollowsHolder, At, Threads
    <3>2. rungs = <<>> => Engines = {} /\ MostRecent(rungs) = 0
      BY DEF Engines, Range, MostRecent
    <3>3. rungs # <<>> => MostRecent(rungs) \in Engines
      <4>1. rungs \in Seq(Caps)
        BY <1>0 DEF TypeOK
      <4>2. rungs # <<>> => Len(rungs) \in DOMAIN rungs
        BY <4>1, LenProperties, EmptySeq
      <4>3. QED
        BY <4>2 DEF Engines, Range, MostRecent
    <3>4. QED
      BY <2>1, <2>5, <3>1, <3>2, <3>3 DEF Settled, At
  <2>8. QED
    BY <2>1, <2>2, <2>3, <2>4, <2>5, <2>6, <2>7 DEF Service!Leave, Service!To, StageMap, Engines
<1>4. ASSUME Recycle(t) PROVE Service!Forget(t)
  <2>1. /\ Goto(t, "idle") /\ StageOf(pc[t]) = "answered" /\ pc[t] = "done"
        /\ UNCHANGED <<rungs, committed, inflight, owner, poisoned>>
        /\ \A r \in Requests : r # t => cap'[r] = cap[r]
    BY <1>4, StageNames DEF Recycle, At, mirror, slot, mutex
  <2>2. StageMap' = [StageMap EXCEPT ![t] = "idle"] /\ StageMap[t] = "answered"
    BY <1>0, <2>1, StageMoves, StageNames DEF StageMap, Points
  <2>3. UNCHANGED InUse
    <3>1. owner # t
      BY <1>0, <2>1 DEF IInv, LockDiscipline, OneHolder, Holding, InPass
    <3>2. QED
      BY <2>1, <3>1 DEF InUse
  <2>4. UNCHANGED Broken
    <3>1. \A r \in Requests : pc[r] \in {"panicking", "poisoning"}
                                <=> pc'[r] \in {"panicking", "poisoning"}
      BY <1>0, <2>1 DEF Goto, TypeOK, Threads
    <3>2. QED
      BY <2>1, <3>1 DEF Broken
  <2>5. QED
    BY <2>1, <2>2, <2>3, <2>4 DEF Service!Forget, Service!To, StageMap
<1>5. QED
  BY <1>1, <1>2, <1>3, <1>4

\* The service counts its engines the way the slot does.
LEMMA SameCount == \A S : Service!Cardinality(S) = Cardinality(S)
BY DEF Service!Cardinality, Cardinality, Service!IsFiniteSet, IsFiniteSet

\* Steps of a pass.  Most of them a caller cannot tell from waiting.
LEMMA PassRefines ==
    ASSUME IInv, IInv', NEW r \in Requests
    PROVE  /\ BuildOk(r) => Service!Load(r, cap[r])
           /\ EnterRunning(r) => Service!Use(r, cap[r])
           /\ ClearStamp(r) /\ InUse # 0 => Service!Finish(r)
           /\ ClearStamp(r) /\ InUse = 0 => UNCHANGED Service!vars
           /\ Panic(r) => Service!Crash(r)
           /\ Hit(r) \/ Commit(r) \/ BuildErr(r) => Service!Advertise(r)
           /\ Decide(r) \/ Miss(r) \/ PassEnds(r) \/ Hang(r) => UNCHANGED Service!vars
<1>0. TypeOK /\ r \in Threads /\ RungsWithinCapacity
  BY DEF IInv, Threads
<1>1. ASSUME NEW point \in Holding, pc[r] \in Holding, Goto(r, point)
      PROVE  /\ UNCHANGED StageMap
             /\ owner = r
             /\ Broken = (pc[r] \in {"panicking", "poisoning"})
             /\ owner' = owner => Broken' = (point \in {"panicking", "poisoning"})
  <2>1. StageOf(pc[r]) = "inside" /\ StageOf(point) = "inside" /\ point \in Points
    BY <1>1, StageNames DEF Points
  <2>2. owner = r
    BY <1>0, <1>1 DEF IInv, LockDiscipline, OneHolder
  <2>3. \A q \in Requests \ {r} : pc'[q] \notin {"panicking", "poisoning"} /\ pc'[q] = pc[q]
    <3>1. \A q \in Requests \ {r} : pc[q] \notin Holding /\ pc'[q] = pc[q]
      BY <1>0, <1>1, <2>2 DEF IInv, LockDiscipline, OneHolder, Threads, Goto, TypeOK
    <3>2. QED
      BY <3>1 DEF Holding, InPass
  <2>4. pc'[r] = point
    BY <1>0, <1>1 DEF Goto, TypeOK
  <2>5. owner' = owner => ~poisoned'
    <3>1. r # NoOne
      BY EmbedAssumption
    <3>2. QED
      BY <2>2, <3>1 DEF IInv, LockDiscipline
  <2>6. Broken = (pc[r] \in {"panicking", "poisoning"})
    BY <1>0, <2>2, BrokenWhenFree
  <2>7. ASSUME owner' = owner PROVE Broken' = (point \in {"panicking", "poisoning"})
    BY <2>3, <2>4, <2>5, <2>7 DEF Broken
  <2>8. QED
    BY <1>0, <1>1, <2>1, <2>2, <2>6, <2>7, StageMoves
<1>2. ASSUME BuildOk(r) PROVE Service!Load(r, cap[r])
  <2>1. /\ pc[r] = "building" /\ Goto(r, "settled")
        /\ rungs' = Insert(rungs, cap[r], Capacity)
        /\ committed' = MostRecent(rungs')
        /\ UNCHANGED <<owner, inflight, cap>>
    BY <1>2 DEF BuildOk, Settle, At, mutex, request
  <2>2. UNCHANGED <<StageMap, Broken>> /\ owner = r
    BY <1>1, <2>1 DEF Holding, InPass
  <2>3. inflight = "Building"
    BY <2>1 DEF IInv, StampFollowsHolder
  <2>4. InUse = 0 /\ InUse' = 0
    BY <2>1, <2>3 DEF InUse
  <2>5. cap[r] \in Caps /\ rungs \in Seq(Caps) /\ Distinct(rungs)
        /\ Capacity \in Nat \ {0} /\ Len(rungs) <= Capacity
    BY <1>0, <2>1, EmbedAssumption DEF IInv, CallsStateLimits, At, TypeOK, RungsWithinCapacity
  <2>6. \E out \in SUBSET Engines :
            Cardinality(out) <= 1 /\ Engines' = (Engines \ out) \cup {cap[r]}
    BY <2>1, <2>5, InsertMakesRoom DEF Engines
  <2>7. committed' = cap[r]
    BY <2>1, <2>5, InsertProperties
  <2>8. Cardinality(Engines') <= Capacity
    <3>1. rungs' \in Seq(Caps) /\ Len(rungs') <= Capacity
      BY <2>1, <2>5, InsertProperties
    <3>2. /\ Cardinality(Range(rungs')) <= Len(rungs')
          /\ Cardinality(Range(rungs')) \in Nat
      BY <3>1, EnginesAreEntries
    <3>3. Len(rungs') \in Nat
      BY <3>1, LenProperties
    <3>4. QED
      BY <2>5, <3>1, <3>2, <3>3 DEF Engines
  <2>9. /\ owner = r /\ InUse = 0
        /\ UNCHANGED <<StageMap, owner, InUse, Broken>>
    BY <2>1, <2>2, <2>4
  <2>10. QED
    <3>1. PICK out \in SUBSET Engines :
              Cardinality(out) <= 1 /\ Engines' = (Engines \ out) \cup {cap[r]}
      BY <2>6
    <3>2. QED
      BY <2>7, <2>8, <2>9, <3>1, SameCount DEF Service!Load, StageMap, Engines
<1>3. ASSUME EnterRunning(r) PROVE Service!Use(r, cap[r])
  <2>1. /\ pc[r] = "settled" /\ Goto(r, "running") /\ inflight' = "Running"
        /\ UNCHANGED <<owner, rungs, committed, cap>>
    BY <1>3 DEF EnterRunning, At, mutex, request, slot, mirror
  <2>2. UNCHANGED <<StageMap, Broken>> /\ owner = r
    BY <1>1, <2>1 DEF Holding, InPass
  <2>3. cap[r] \in Engines
    <3>1. committed = MostRecent(rungs) /\ committed = cap[r] /\ cap[r] # 0
      BY <1>0, <2>1, EmbedAssumption
         DEF IInv, MirrorFollowsHolder, Settled, CallsStateLimits, At
    <3>2. Resident(rungs, cap[r])
      BY <1>0, <3>1, MostRecentType DEF TypeOK
    <3>3. QED
      BY <3>2 DEF Resident, Engines, Range
  <2>4. InUse = 0
    <3>1. inflight # "Running"
      BY <1>3 DEF EnterRunning, At, IInv, StampFollowsHolder
    <3>2. QED
      BY <3>1 DEF InUse
  <2>5. InUse' = cap[r]
    BY <2>1, <2>2 DEF InUse
  <2>6. QED
    BY <2>1, <2>2, <2>3, <2>4, <2>5 DEF Service!Use, StageMap, Engines
<1>4. ASSUME ClearStamp(r)
      PROVE  /\ UNCHANGED <<StageMap, Broken, Engines, owner, committed>>
             /\ owner = r /\ InUse' = 0
  <2> DEFINE point == IF At(r, "panicking") THEN "poisoning" ELSE "releasing"
  <2>1. /\ pc[r] \in {"unwinding", "panicking"} /\ Goto(r, point) /\ inflight' = "none"
        /\ UNCHANGED <<owner, rungs, committed>>
    BY <1>4 DEF ClearStamp, mutex, slot, mirror
  <2>2. point \in Holding /\ pc[r] \in Holding
    BY <2>1 DEF Holding, InPass
  <2>3. (pc[r] \in {"panicking", "poisoning"}) = (point \in {"panicking", "poisoning"})
    BY <2>1 DEF At
  <2> HIDE DEF point
  <2>4. UNCHANGED <<StageMap, Broken>> /\ owner = r
    BY <1>1, <2>1, <2>2, <2>3
  <2>5. QED
    BY <2>1, <2>4 DEF InUse, Engines
<1>5. ASSUME Panic(r) PROVE Service!Crash(r)
  <2>1. /\ pc[r] \in {"building", "running"} /\ Goto(r, "panicking")
        /\ UNCHANGED <<owner, rungs, committed, inflight, cap>>
    BY <1>5 DEF Panic, mutex, request
  <2>2. UNCHANGED StageMap /\ Broken' /\ owner = r
    BY <1>1, <2>1 DEF Holding, InPass
  <2>3. Broken' = TRUE /\ UNCHANGED InUse
    BY <2>1, <2>2 DEF Broken, InUse
  <2>4. QED
    BY <2>1, <2>2, <2>3 DEF Service!Crash, StageMap, Engines
<1>6. ASSUME Hit(r) \/ Commit(r) \/ BuildErr(r) PROVE Service!Advertise(r)
  <2>1. /\ UNCHANGED <<owner, inflight, cap>>
        /\ \E point \in {"settled", "building", "unwinding"} : Goto(r, point)
        /\ pc[r] \in {"held", "claiming", "building"}
    BY <1>6 DEF Hit, Commit, BuildErr, At, mutex, request
  <2>2. UNCHANGED <<StageMap, Broken>> /\ owner = r
    BY <1>1, <2>1 DEF Holding, InPass
  <2>3. committed' \in Caps \cup {0}
    BY DEF IInv, TypeOK
  <2>4. UNCHANGED Engines
    <3>1. CASE Hit(r)
      <4>1. rungs' = Promote(rungs, cap[r]) /\ Resident(rungs, cap[r])
        BY <3>1 DEF Hit
      <4>2. \A d : Resident(rungs', d) <=> Resident(rungs, d)
        BY <1>0, <4>1, PromoteProperties DEF TypeOK, RungsWithinCapacity
      <4>3. /\ \A d : d \in Range(rungs) <=> Resident(rungs, d)
            /\ \A d : d \in Range(rungs') <=> Resident(rungs', d)
        BY DEF Range, Resident
      <4>4. QED
        BY <4>2, <4>3 DEF Engines
    <3>2. QED
      BY <1>6, <3>1 DEF Commit, BuildErr, slot, Engines
  <2>5. UNCHANGED InUse
    BY <2>1 DEF InUse
  <2>6. QED
    BY <2>1, <2>2, <2>3, <2>4, <2>5 DEF Service!Advertise, StageMap, Engines
<1>7. ASSUME Miss(r) \/ PassEnds(r) \/ Hang(r) PROVE UNCHANGED Service!vars
  <2>1. /\ UNCHANGED <<owner, rungs, committed, cap>>
        /\ \E point \in {"claiming", "unwinding", "stuck"} : Goto(r, point)
        /\ pc[r] \in {"held", "running", "building"}
    BY <1>7 DEF Miss, PassEnds, Hang, At, mutex, request, slot, mirror
  <2>2. UNCHANGED <<StageMap, Broken>> /\ owner = r
    BY <1>1, <2>1 DEF Holding, InPass
  <2>3. UNCHANGED InUse
    <3>1. CASE Miss(r)
      <4>1. inflight = "none" /\ inflight' = "Building"
        BY <3>1 DEF Miss, At, IInv, StampFollowsHolder
      <4>2. QED
        BY <4>1 DEF InUse
    <3>2. CASE UNCHANGED inflight
      BY <2>1, <3>2 DEF InUse
    <3>3. QED
      BY <1>7, <3>1, <3>2 DEF PassEnds, Hang
  <2>4. QED
    BY <2>1, <2>2, <2>3 DEF Service!vars, StageMap, Engines
<1>8. ASSUME Decide(r) PROVE UNCHANGED Service!vars
  <2>1. /\ pc[r] = "asked" /\ Goto(r, "waiting")
        /\ \A q \in Requests : q # r => cap'[q] = cap[q]
        /\ UNCHANGED <<owner, poisoned, rungs, committed, inflight>>
    BY <1>0, <1>8 DEF Decide, At, mutex, slot, mirror, TypeOK
  <2>2. UNCHANGED StageMap
    BY <1>0, <2>1, StageMoves, StageNames DEF Points
  <2>3. owner # r
    BY <1>0, <2>1 DEF IInv, LockDiscipline, OneHolder, Holding, InPass
  <2>4. UNCHANGED <<InUse, Broken>>
    <3>1. \A q \in Requests : pc[q] \in {"panicking", "poisoning"}
                                <=> pc'[q] \in {"panicking", "poisoning"}
      BY <1>0, <2>1 DEF Goto, TypeOK, Threads
    <3>2. QED
      BY <2>1, <2>3, <3>1 DEF InUse, Broken
  <2>5. QED
    BY <2>1, <2>2, <2>4 DEF Service!vars, StageMap, Engines
<1>9. ASSUME ClearStamp(r), InUse # 0 PROVE Service!Finish(r)
  BY <1>4, <1>9 DEF Service!Finish, StageMap, Engines
<1>10. ASSUME ClearStamp(r), InUse = 0 PROVE UNCHANGED Service!vars
  BY <1>4, <1>10 DEF Service!vars, StageMap, Engines
<1>11. QED
  BY <1>2, <1>3, <1>5, <1>6, <1>7, <1>8, <1>9, <1>10
\* Calls and drains.
LEMMA CallRefines ==
    ASSUME IInv, IInv', NEW t \in Threads, pc[t] = "idle", Goto(t, "asked") \/ Goto(t, "waiting"),
           UNCHANGED <<mutex, slot, mirror, inflight>>,
           \A q \in Requests : q # t => cap'[q] = cap[q]
    PROVE  Service!Call(t)
<1>0. TypeOK
  BY DEF IInv
<1>1. StageMap' = [StageMap EXCEPT ![t] = "waiting"] /\ StageMap[t] = "idle"
  BY <1>0, StageMoves, StageNames DEF StageMap, Points
<1>2. owner # t
  BY <1>0 DEF IInv, LockDiscipline, OneHolder, Holding, InPass
<1>3. UNCHANGED InUse
  BY <1>2 DEF InUse, mutex
<1>4. UNCHANGED Broken
  <2>1. \A q \in Requests : pc[q] \in {"panicking", "poisoning"}
                              <=> pc'[q] \in {"panicking", "poisoning"}
    BY <1>0 DEF Goto, TypeOK, Threads
  <2>2. QED
    BY <2>1 DEF Broken, mutex
<1>5. QED
  BY <1>1, <1>3, <1>4 DEF Service!Call, Service!To, StageMap, mutex, slot, mirror

LEMMA DrainRefines ==
    ASSUME IInv, IInv', NEW u \in Unloaders
    PROVE  /\ DrainAll(u) => Service!Take(u, Engines)
           /\ RemoveNamed(u) => \E out \in SUBSET Engines : Service!Take(u, out)
           /\ SettleDrain(u) => Service!Advertise(u)
           /\ Drop(u) => UNCHANGED Service!vars
<1>0. TypeOK /\ u \in Threads /\ RungsWithinCapacity
  BY DEF IInv, Threads
<1>1. ASSUME pc[u] = "draining", Goto(u, "releasing") \/ UNCHANGED pc, UNCHANGED <<mutex, inflight, cap>>
      PROVE  /\ UNCHANGED <<StageMap, Broken, owner>>
             /\ owner = u /\ InUse = 0 /\ InUse' = 0
  <2>1. owner = u
    BY <1>0, <1>1 DEF IInv, LockDiscipline, OneHolder, Holding
  <2>2. u \notin Requests
    BY EmbedAssumption
  <2>3. InUse = 0 /\ InUse' = 0
    BY <1>1, <2>1, <2>2 DEF InUse, mutex
  <2>4. UNCHANGED StageMap
    <3>1. CASE Goto(u, "releasing")
      BY <1>0, <1>1, <3>1, StageMoves, StageNames DEF Points, Holding, InPass
    <3>2. QED
      BY <1>1, <3>1 DEF StageMap
  <2>5. \A q \in Requests : pc'[q] = pc[q]
    BY <1>0, <1>1, <2>2 DEF Goto, TypeOK, Threads
  <2>6. QED
    BY <1>1, <2>1, <2>3, <2>4, <2>5 DEF Broken, mutex
<1>2. \A c : \A d : d \in Range(Without(rungs, c)) <=> d \in Range(rungs) /\ d # c
  <2>1. \A s : \A d : d \in Range(s) <=> Resident(s, d)
    BY DEF Range, Resident
  <2>2. \A c : \A d : Resident(Without(rungs, c), d) <=> Resident(rungs, d) /\ d # c
    BY <1>0, WithoutProperties DEF TypeOK, RungsWithinCapacity
  <2>3. QED
    BY <2>1, <2>2
<1>3. ASSUME DrainAll(u) PROVE Service!Take(u, Engines)
  <2>1. /\ pc[u] = "draining" /\ Goto(u, "releasing") /\ UNCHANGED <<mutex, inflight, cap>>
        /\ rungs' = <<>> /\ committed' = MostRecent(rungs')
    BY <1>3 DEF DrainAll, Settle, At, request
  <2>2. Engines' = Engines \ Engines /\ committed' = 0
    BY <2>1 DEF Engines, Range, MostRecent
  <2>3. QED
    BY <1>1, <2>1, <2>2 DEF Service!Take, StageMap, Engines
<1>4. ASSUME RemoveNamed(u) PROVE \E out \in SUBSET Engines : Service!Take(u, out)
  <2>1. PICK c \in scope[u] : rungs' = Without(rungs, c)
    BY <1>4 DEF RemoveNamed
  <2>2. pc[u] = "draining" /\ UNCHANGED <<pc, mutex, inflight, cap, committed>>
    BY <1>4 DEF RemoveNamed, At, request, mirror
  <2>3. Engines' = Engines \ (Engines \cap {c})
    BY <1>2, <2>1 DEF Engines
  <2>4. Service!Take(u, Engines \cap {c})
    BY <1>1, <2>2, <2>3 DEF Service!Take, StageMap, Engines
  <2>5. QED
    BY <2>4
<1>5. ASSUME SettleDrain(u) PROVE Service!Advertise(u)
  <2>1. /\ pc[u] = "draining" /\ Goto(u, "releasing")
        /\ UNCHANGED <<mutex, inflight, cap, rungs>>
    BY <1>5 DEF SettleDrain, At, request, slot
  <2>2. committed' \in Caps \cup {0}
    BY DEF IInv, TypeOK
  <2>3. QED
    BY <1>1, <2>1, <2>2 DEF Service!Advertise, StageMap, Engines
<1>6. ASSUME Drop(u) PROVE UNCHANGED Service!vars
  <2>1. /\ pc[u] = "dropping" /\ Goto(u, "done")
        /\ UNCHANGED <<owner, poisoned, inflight, cap, rungs, committed>>
    BY <1>6 DEF Drop, At, request, slot, mutex, mirror
  <2>2. UNCHANGED StageMap
    BY <1>0, <2>1, StageMoves, StageNames DEF Points
  <2>3. UNCHANGED <<InUse, Broken>>
    <3>1. \A q \in Requests : pc'[q] = pc[q]
      BY <1>0, <2>1, EmbedAssumption DEF Goto, TypeOK, Threads
    <3>2. QED
      BY <2>1, <3>1 DEF InUse, Broken
  <2>4. QED
    BY <2>1, <2>2, <2>3 DEF Service!vars, StageMap, Engines
<1>7. QED
  BY <1>3, <1>4, <1>5, <1>6

\* The service as its callers see it: every behaviour of the slot is one of
\* EngineService, for any callers, caps and capacity.
THEOREM Implements == Spec => ImplementsService
<1>1. Init => Service!Init
  <2>1. ASSUME Init PROVE StageMap = [x \in Threads |-> "idle"]
    BY <2>1, StageNames DEF Init, StageMap
  <2>2. ASSUME Init PROVE Engines = {} /\ InUse = 0 /\ Broken = FALSE
    <3>1. Engines = {}
      BY <2>2 DEF Init, Engines, Range
    <3>2. \A r \in Requests : pc[r] = "idle"
      BY <2>2 DEF Init, Threads
    <3>3. QED
      BY <2>2, <3>1, <3>2 DEF Init, InUse, Broken
  <2>3. QED
    BY <2>1, <2>2 DEF Init, Service!Init, StageMap, Engines
<1>2. ASSUME IInv, IInv', [Next]_vars
      PROVE  [Service!Next]_(Service!vars)
  <2>1. CASE UNCHANGED engine
    BY <2>1 DEF engine, mutex, slot, mirror, request, Service!vars, InUse, Broken
  <2>2. ASSUME NEW t \in Threads, Acquire(t) \/ Heal(t) \/ Refuse(t) \/ Release(t) \/ Recycle(t)
        PROVE  Service!Next
    BY <1>2, <2>2, LockRefines DEF Service!Next
  <2>3. ASSUME NEW r \in Requests, NEW k \in Kinds, NEW c \in Caps, NEW b \in Batches,
               Arrive(r, k, c, b)
        PROVE  Service!Next
    <3>1. /\ r \in Threads /\ pc[r] = "idle" /\ Goto(r, "asked")
          /\ UNCHANGED <<mutex, slot, mirror, inflight>>
          /\ \A q \in Requests : q # r => cap'[q] = cap[q]
      BY <1>2, <2>3 DEF Arrive, At, Threads, IInv, TypeOK
    <3>2. Service!Call(r)
      BY <1>2, <3>1, CallRefines
    <3>3. QED
      BY <3>1, <3>2 DEF Service!Next
  <2>4. ASSUME NEW r \in Requests, Pass(r) \/ Panic(r) \/ Hang(r)
        PROVE  Service!Next \/ UNCHANGED Service!vars
    <3>1. r \in Threads
      BY DEF Threads
    <3>2. BuildOk(r) \/ EnterRunning(r) => cap[r] \in Caps
      BY <1>2 DEF IInv, CallsStateLimits, BuildOk, EnterRunning, At
    <3>3. CASE BuildOk(r) \/ EnterRunning(r)
      BY <1>2, <3>1, <3>2, <3>3, PassRefines DEF Service!Next
    <3>4. CASE Hit(r) \/ Commit(r) \/ BuildErr(r) \/ Panic(r) \/ ClearStamp(r)
      BY <1>2, <3>1, <3>4, PassRefines DEF Service!Next
    <3>5. CASE Decide(r) \/ Miss(r) \/ PassEnds(r) \/ Hang(r)
      BY <1>2, <3>5, PassRefines
    <3>6. QED
      BY <2>4, <3>3, <3>4, <3>5 DEF Pass
  <2>5. ASSUME NEW u \in Unloaders, NEW everything \in BOOLEAN, NEW caps \in SUBSET Caps,
               AskToDrain(u, everything, caps)
        PROVE  Service!Next
    <3>1. /\ u \in Threads /\ pc[u] = "idle" /\ Goto(u, "waiting")
          /\ UNCHANGED <<mutex, slot, mirror, inflight, cap>>
      BY <2>5 DEF AskToDrain, At, Threads, request
    <3>2. Service!Call(u)
      BY <1>2, <3>1, CallRefines
    <3>3. QED
      BY <3>1, <3>2 DEF Service!Next
  <2>6. ASSUME NEW u \in Unloaders, Draining(u)
        PROVE  Service!Next \/ UNCHANGED Service!vars
    <3>1. u \in Threads
      BY DEF Threads
    <3>2. DrainAll(u) => Service!Next
      BY <1>2, <3>1, DrainRefines DEF Service!Next, Engines
    <3>3. RemoveNamed(u) => Service!Next
      BY <1>2, <3>1, DrainRefines DEF Service!Next, Engines
    <3>4. QED
      BY <1>2, <2>6, <3>1, <3>2, <3>3, DrainRefines DEF Draining, Service!Next
  <2>7. CASE TornDown
    BY <2>7 DEF TornDown, mutex, slot, mirror, request, Service!vars, InUse, Broken
  <2>8. QED
    BY <1>2, <2>1, <2>2, <2>3, <2>4, <2>5, <2>6, <2>7, RivalsStayOutside DEF Next, BurstNext
<1>3. IInv /\ IInv' /\ [Next]_vars => [Service!Next]_(Service!vars)
  BY <1>2
<1>4. QED
  BY <1>1, <1>3, Inductive, PTL DEF Spec, ImplementsService, Service!Spec
=============================================================================
