---------------------------- MODULE AnswersProofs ----------------------------
(***************************************************************************)
(* What a caller is told.  A reply to /health or /models: the engines keep *)
(* to a few facts at every step, and each field that was read goes on      *)
(* meaning what the properties need of it until the reply is complete.  The*)
(* answer to an embed or rerank request: what is handed to the library is  *)
(* the layout of the texts, and its rows follow that layout one by one.    *)
(***************************************************************************)
EXTENDS HealthProbe, RequestShapes, SequenceTheorems, FiniteSetTheorems, TLAPS

(***************************************************************************)
(* The rung cache, as far as a reader of it can tell.                      *)
(***************************************************************************)

\* Only what was resident is left by a removal.
LEMMA RemoveAtShrinks ==
    ASSUME NEW S, NEW s \in Seq(S), NEW i \in 1..Len(s)
    PROVE  /\ RemoveAt(s, i) \in Seq(S)
           /\ \A d : Resident(RemoveAt(s, i), d) => Resident(s, d)
<1> DEFINE a == SubSeq(s, 1, i - 1)
           b == SubSeq(s, i + 1, Len(s))
           t == a \o b
<1>1. Len(s) \in Nat /\ \A j \in 1..Len(s) : s[j] \in S
  BY LenProperties, ElementOfSeq
<1>2. a \in Seq(S) /\ Len(a) = i - 1 /\ \A j \in 1..(i - 1) : a[j] = s[j]
  <2>1. \A j \in 1..(i - 1) : s[j] \in S
    BY <1>1
  <2> HIDE DEF a
  <2>2. QED
    BY <1>1, <2>1, SubSeqProperties DEF a
<1>3. b \in Seq(S) /\ Len(b) = Len(s) - i /\ \A j \in 1..(Len(s) - i) : b[j] = s[j + i]
  <2>1. \A j \in (i + 1)..Len(s) : s[j] \in S
    BY <1>1
  <2> HIDE DEF b
  <2>2. QED
    BY <1>1, <2>1, SubSeqProperties DEF b
<1> HIDE DEF a, b
<1>4. /\ t \in Seq(S) /\ Len(t) = Len(a) + Len(b)
      /\ \A j \in 1..Len(t) : t[j] = IF j <= Len(a) THEN a[j] ELSE b[j - Len(a)]
  <2>1. /\ t \in Seq(S) /\ Len(t) = Len(a) + Len(b)
        /\ \A j \in 1..(Len(a) + Len(b)) :
             t[j] = IF j <= Len(a) THEN a[j] ELSE b[j - Len(a)]
    BY <1>2, <1>3, ConcatProperties
  <2> HIDE DEF t
  <2>2. QED
    BY <2>1
<1>5. RemoveAt(s, i) = t
  BY DEF RemoveAt, a, b
<1> HIDE DEF t
<1>6. DOMAIN t = 1..Len(t) /\ DOMAIN s = 1..Len(s)
  BY <1>4, LenProperties
<1>7. ASSUME NEW j \in DOMAIN t PROVE \E k \in DOMAIN s : t[j] = s[k]
  <2>1. CASE j <= Len(a)
    BY <1>1, <1>2, <1>4, <1>6, <2>1
  <2>2. CASE j > Len(a)
    <3>1. j - (i - 1) \in 1..(Len(s) - i) /\ t[j] = b[j - (i - 1)]
      BY <1>1, <1>2, <1>3, <1>4, <1>6, <2>2
    <3>2. t[j] = s[j - (i - 1) + i] /\ j - (i - 1) + i \in 1..Len(s)
      BY <1>1, <1>3, <3>1
    <3>3. QED
      BY <1>6, <3>2
  <2>3. QED
    BY <1>1, <1>2, <1>6, <2>1, <2>2
<1>8. QED
  BY <1>4, <1>5, <1>7 DEF Resident

LEMMA PositionOfResident ==
    ASSUME NEW S, NEW s \in Seq(S), NEW c, Resident(s, c)
    PROVE  Position(s, c) \in 1..Len(s) /\ s[Position(s, c)] = c /\ c \in S
BY LenProperties, ElementOfSeq DEF Resident, Position

LEMMA WithoutShrinks ==
    ASSUME NEW S, NEW s \in Seq(S), NEW c
    PROVE  /\ Without(s, c) \in Seq(S)
           /\ \A d : Resident(Without(s, c), d) => Resident(s, d)
<1>1. CASE Resident(s, c)
  BY <1>1, PositionOfResident, RemoveAtShrinks DEF Without
<1>2. CASE ~Resident(s, c)
  BY <1>2 DEF Without
<1>3. QED
  BY <1>1, <1>2

LEMMA AppendFiles ==
    ASSUME NEW S, NEW s \in Seq(S), NEW c \in S
    PROVE  /\ Append(s, c) \in Seq(S) /\ Append(s, c) # <<>>
           /\ \A d : Resident(Append(s, c), d) => Resident(s, d) \/ d = c
<1> DEFINE t == Append(s, c)
<1>1. /\ t \in Seq(S) /\ t # <<>> /\ Len(t) = Len(s) + 1
      /\ \A i \in 1..Len(s) : t[i] = s[i]
      /\ t[Len(s) + 1] = c
  BY AppendProperties
<1> HIDE DEF t
<1>2. Len(s) \in Nat /\ DOMAIN s = 1..Len(s) /\ DOMAIN t = 1..(Len(s) + 1)
  BY <1>1, LenProperties
<1>3. QED
  BY <1>1, <1>2 DEF Resident, t

\* A promotion brings nothing that was not there.
LEMMA PromoteKeeps ==
    ASSUME NEW S, NEW s \in Seq(S), NEW c, Resident(s, c)
    PROVE  /\ Promote(s, c) \in Seq(S)
           /\ \A d : Resident(Promote(s, c), d) => Resident(s, d)
<1> DEFINE t == RemoveAt(s, Position(s, c))
<1>1. t \in Seq(S) /\ \A d : Resident(t, d) => Resident(s, d)
  BY PositionOfResident, RemoveAtShrinks
<1>2. c \in S
  BY PositionOfResident
<1>3. Promote(s, c) = Append(t, c)
  BY DEF Promote
<1> HIDE DEF t
<1>4. QED
  BY <1>1, <1>2, <1>3, AppendFiles

\* A filed engine is the only one that comes.
LEMMA InsertFiles ==
    ASSUME NEW S, NEW s \in Seq(S), NEW c \in S, NEW capacity
    PROVE  /\ Insert(s, c, capacity) \in Seq(S)
           /\ \A d : Resident(Insert(s, c, capacity), d) => Resident(s, d) \/ d = c
<1> DEFINE w == Without(s, c)
           t == Append(w, c)
<1>1. w \in Seq(S) /\ \A d : Resident(w, d) => Resident(s, d)
  BY WithoutShrinks
<1> HIDE DEF w
<1>2. t \in Seq(S) /\ t # <<>> /\ \A d : Resident(t, d) => Resident(w, d) \/ d = c
  BY <1>1, AppendFiles
<1>3. Insert(s, c, capacity) = Tail(t) \/ Insert(s, c, capacity) = t
  BY DEF Insert, w
<1> HIDE DEF t
<1>4. Tail(t) \in Seq(S) /\ \A d : Resident(Tail(t), d) => Resident(t, d)
  <2> DEFINE v == Tail(t)
  <2>1. /\ v \in Seq(S) /\ Len(v) = Len(t) - 1
        /\ \A i \in 1..Len(v) : v[i] = t[i + 1]
    BY <1>2, HeadTailProperties
  <2> HIDE DEF v
  <2>2. Len(t) \in Nat /\ DOMAIN t = 1..Len(t) /\ DOMAIN v = 1..Len(v)
    BY <1>2, <2>1, LenProperties
  <2>3. QED
    BY <2>1, <2>2 DEF Resident, v
<1>5. QED
  BY <1>1, <1>2, <1>3, <1>4

LEMMA NewestIsResident ==
    ASSUME NEW S, NEW s \in Seq(S)
    PROVE  /\ s # <<>> => Resident(s, MostRecent(s))
           /\ s = <<>> => MostRecent(s) = 0
           /\ MostRecent(s) \in S \cup {0}
           /\ \A d : Resident(s, d) => s # <<>> /\ d \in S
<1>1. Len(s) \in Nat /\ DOMAIN s = 1..Len(s) /\ \A i \in 1..Len(s) : s[i] \in S
  BY LenProperties, ElementOfSeq
<1>2. s # <<>> => Len(s) \in DOMAIN s
  BY <1>1, EmptySeq
<1>3. QED
  BY <1>1, <1>2 DEF MostRecent, Resident

\* Nothing is left of a cache that only lost rungs, unless something was there.
LEMMA EmptyStaysEmpty ==
    ASSUME NEW S, NEW s \in Seq(S), NEW t \in Seq(S),
           \A d : Resident(t, d) => Resident(s, d)
    PROVE  t # <<>> => s # <<>>
BY NewestIsResident

LEMMA NothingIsResident == \A S : <<>> \in Seq(S) /\ \A d : ~Resident(<<>>, d)
BY EmptySeq DEF Resident
-----------------------------------------------------------------------------
(***************************************************************************)
(* The engines. What they keep to does not depend on any probe.            *)
(***************************************************************************)
EngineInv == /\ EnginesTyped
             /\ HoldersWant /\ StampsAreUnderALock /\ HangsAreStamped
             /\ MirrorFollowsHolder /\ BuildsAreFiled /\ RungsAreVetted

\* The slot of e goes on with held, which has nothing the slot did not have.
Narrows(e, held) ==
    /\ held \in Seq(CapsOf(e))
    /\ rungs' = [rungs EXCEPT ![e] = held]
    /\ \A d : Resident(held, d) => Resident(rungs[e], d)

\* What the engine e may do in one step.
Steps(e) == \/ Engine(e)
            \/ e = "embed" /\ (Claim(e) \/ CanaryPasses(e) \/ CanaryFails(e))

LEMMA CapsOfEngines ==
    /\ CapsOf("embed") = Caps /\ CapsOf("rerank") = {RerankCap}
    /\ Engines = {"embed", "rerank"}
    /\ \A e \in Engines : CapsOf(e) \subseteq Caps \cup {RerankCap}
BY DEF CapsOf, Engines

\* Every step that touches a slot, but the filing of a build, takes from it.
LEMMA SlotsNarrow ==
    ASSUME EnginesTyped, NEW e \in Engines,
           Acquire(e) \/ Hit(e) \/ Drain(e) \/ RemoveNamed(e)
    PROVE  \E held : Narrows(e, held)
<1>1. rungs[e] \in Seq(CapsOf(e))
  BY DEF EnginesTyped
<1>2. Taken(e) \in Seq(CapsOf(e)) /\ \A d : Resident(Taken(e), d) => Resident(rungs[e], d)
  BY <1>1, NothingIsResident DEF Taken
<1>3. CASE Acquire(e)
  <2>1. Narrows(e, Taken(e))
    BY <1>2, <1>3 DEF Acquire, Hold, Narrows
  <2>2. QED
    BY <2>1
<1>4. CASE Hit(e)
  <2>1. Narrows(e, Promote(rungs[e], want[e]))
    BY <1>1, <1>4, PromoteKeeps DEF Hit, Hold, Narrows
  <2>2. QED
    BY <2>1
<1>5. CASE Drain(e)
  <2>1. Narrows(e, Taken(e)) \/ Narrows(e, <<>>)
    BY <1>2, <1>5, NothingIsResident DEF Drain, Hold, Narrows
  <2>2. QED
    BY <2>1
<1>6. CASE RemoveNamed(e)
  <2>1. PICK c : Hold(e, Without(rungs[e], c))
    BY <1>6 DEF RemoveNamed
  <2>2. Narrows(e, Without(rungs[e], c))
    BY <1>1, <2>1, WithoutShrinks DEF Hold, Narrows
  <2>3. QED
    BY <2>2
<1>7. QED
  BY <1>3, <1>4, <1>5, <1>6

\* Filing a build brings the cap it was built for, and no other.
LEMMA FilingBrings ==
    ASSUME EnginesTyped, HoldersWant, NEW e \in Engines, File(e)
    PROVE  \E held \in Seq(CapsOf(e)) :
              /\ rungs' = [rungs EXCEPT ![e] = held]
              /\ \A d : Resident(held, d) => Resident(rungs[e], d) \/ d = want[e]
<1>1. rungs[e] \in Seq(CapsOf(e)) /\ want[e] \in CapsOf(e)
  BY DEF EnginesTyped, HoldersWant, File, InBuild
<1>2. rungs' = [rungs EXCEPT ![e] = Insert(rungs[e], want[e], RoomOf(e))]
  BY DEF File, Hold
<1>3. /\ Insert(rungs[e], want[e], RoomOf(e)) \in Seq(CapsOf(e))
      /\ \A d : Resident(Insert(rungs[e], want[e], RoomOf(e)), d)
                   => Resident(rungs[e], d) \/ d = want[e]
  BY <1>1, InsertFiles
<1>4. QED
  BY <1>2, <1>3

\* Where a step leaves its engine, and what that place presupposes.
LEMMA StageMoves ==
    ASSUME EnginesTyped, NEW e \in Engines, Steps(e)
    PROVE  \E p \in Stages :
              /\ stage' = [stage EXCEPT ![e] = p]
              /\ p = "held" => Acquire(e) \/ stage[e] = "held"
              /\ p = "claiming" => Miss(e) \/ stage[e] = "claiming"
              /\ p \in InBuild => Miss(e) \/ stage[e] \in {"claiming"} \cup InBuild
              /\ p = "hung" => stage[e] \in InBuild \cup {"claiming", "running", "hung"}
<1> USE DEF Steps, EnginesTyped, Stages, InBuild, Goto
<1>1. CASE Acquire(e) \/ Hit(e) \/ Miss(e)
  BY <1>1 DEF Acquire, Hit, Miss
<1>2. CASE SessionBuilt(e) \/ Promoted(e) \/ BuildErr(e) \/ File(e)
  BY <1>2 DEF SessionBuilt, Promoted, BuildErr, File
<1>3. CASE Run(e) \/ PassEnds(e) \/ Panic(e) \/ Hang(e)
  BY <1>3 DEF Run, PassEnds, Panic, Hang
<1>4. CASE ClearStamp(e) \/ Release(e) \/ Drain(e) \/ SettleDrain(e)
  BY <1>4 DEF ClearStamp, Release, Drain, SettleDrain
<1>5. CASE RemoveNamed(e) \/ Overdue(e)
  BY <1>5 DEF RemoveNamed, Overdue, slots
<1>6. CASE Claim(e) \/ CanaryPasses(e) \/ CanaryFails(e)
  BY <1>6 DEF Claim, CanaryPasses, CanaryFails
<1>7. QED
  BY <1>1, <1>2, <1>3, <1>4, <1>5, <1>6 DEF Engine

LEMMA EngineTypesStep ==
    ASSUME EngineInv, NEW e \in Engines, Steps(e)
    PROVE  EnginesTyped'
<1> USE CapsOfEngines DEF EngineInv, Steps
<1>1. \A o \in Engines : rungs'[o] \in Seq(CapsOf(o))
  <2>1. CASE rungs' = rungs
    BY <2>1 DEF EnginesTyped
  <2>2. CASE Acquire(e) \/ Hit(e) \/ Drain(e) \/ RemoveNamed(e)
    BY <2>2, SlotsNarrow DEF EnginesTyped, Narrows
  <2>3. CASE File(e)
    BY <2>3, FilingBrings DEF EnginesTyped
  <2>4. QED
    BY <2>1, <2>2, <2>3
       DEF Engine, Miss, SessionBuilt, Promoted, BuildErr, Run, PassEnds, Panic, Hang,
           ClearStamp, Release, SettleDrain, Overdue, slots, Claim, CanaryPasses, CanaryFails
<1>2. DOMAIN rungs' = Engines
  BY DEF EnginesTyped, Engine, Acquire, Hit, Miss, SessionBuilt, Promoted, BuildErr, File, Run,
         PassEnds, Panic, Hang, ClearStamp, Release, Drain, RemoveNamed, SettleDrain, Overdue,
         slots, Claim, CanaryPasses, CanaryFails, Hold
<1>3. stage' \in [Engines -> Stages]
  BY StageMoves DEF EnginesTyped
<1>4. /\ want' \in [Engines -> Caps \cup {RerankCap, 0}]
      /\ poisoned' \in [Engines -> BOOLEAN]
  <2>1. CASE want' = want /\ poisoned' = poisoned
    BY <2>1 DEF EnginesTyped
  <2>2. CASE Acquire(e)
    <3>1. PICK c \in CapsOf(e) : want' = [want EXCEPT ![e] = c]
      BY <2>2 DEF Acquire
    <3>2. QED
      BY <2>2, <3>1 DEF EnginesTyped, Acquire
  <2>3. CASE Release(e) \/ Drain(e)
    BY <2>3 DEF EnginesTyped, Release, Drain
  <2>4. QED
    BY <2>1, <2>2, <2>3
       DEF Engine, Hit, Miss, SessionBuilt, Promoted, BuildErr, File, Run, PassEnds, Panic, Hang,
           ClearStamp, RemoveNamed, SettleDrain, Overdue, slots, Claim, CanaryPasses, CanaryFails
<1>5. /\ stamp' \in [Engines -> {"none", "Building", "Running"}]
      /\ late' \in [Engines -> BOOLEAN]
  BY DEF EnginesTyped, Engine, Acquire, Hit, Miss, SessionBuilt, Promoted, BuildErr, File, Run,
         PassEnds, Panic, Hang, ClearStamp, Release, Drain, RemoveNamed, SettleDrain, Overdue,
         stamps, Claim, CanaryPasses, CanaryFails, Enter
<1>6. committed' \in Caps \cup {0}
  <2>1. MostRecent(rungs'["embed"]) \in Caps \cup {0}
    BY <1>1, NewestIsResident
  <2>2. MostRecent(rungs["embed"]) \in Caps \cup {0}
    BY NewestIsResident DEF EnginesTyped
  <2>3. \/ committed' \in {committed, MostRecent(rungs["embed"]), MostRecent(rungs'["embed"])}
        \/ Claim(e) /\ e = "embed"
    <3>1. CASE committed' = committed
      BY <3>1
    <3>2. CASE Hit(e) \/ File(e) \/ BuildErr(e) \/ SettleDrain(e)
      BY <3>2 DEF Hit, File, BuildErr, SettleDrain, Settle
    <3>3. QED
      BY <3>1, <3>2
         DEF Engine, Acquire, Miss, SessionBuilt, Promoted, Run, PassEnds, Panic, Hang,
             ClearStamp, Release, Drain, RemoveNamed, Overdue, CanaryPasses, CanaryFails
  <2>4. QED
    BY <2>1, <2>2, <2>3 DEF EnginesTyped, HoldersWant, Claim
<1>7. healing' \in BOOLEAN /\ builds' \in 0..MaxBuilds
  <2>1. CASE SessionBuilt(e)
    BY <2>1, ProbeAssumption DEF EnginesTyped, SessionBuilt
  <2>2. CASE builds' = builds /\ healing' \in {TRUE, FALSE, healing}
    BY <2>2 DEF EnginesTyped
  <2>3. QED
    BY <2>1, <2>2
       DEF Engine, Acquire, Hit, Miss, Promoted, BuildErr, File, Run, PassEnds, Panic, Hang,
           ClearStamp, Release, Drain, RemoveNamed, SettleDrain, Overdue, Claim, CanaryPasses,
           CanaryFails
<1>8. ready' \in BOOLEAN /\ measured' \in BOOLEAN /\ filed' \subseteq Attributions
  BY DEF EnginesTyped, Engine, Acquire, Hit, Miss, SessionBuilt, Promoted, BuildErr, File, Run,
         PassEnds, Panic, Hang, ClearStamp, Release, Drain, RemoveNamed, SettleDrain, Overdue,
         records, Claim, CanaryPasses, CanaryFails
<1>9. selfCheck' \in Checks
  <2>1. CASE selfCheck' = selfCheck
    BY <2>1 DEF EnginesTyped
  <2>2. CASE e = "embed" /\ (CanaryPasses(e) \/ CanaryFails(e))
    <3>1. want[e] \in Caps
      BY <2>2 DEF HoldersWant, CanaryPasses, CanaryFails, InBuild
    <3>2. \/ selfCheck' = selfCheck
          \/ \E b \in BOOLEAN : selfCheck' = [serving |-> b, cap |-> want[e]]
      BY <2>2 DEF CanaryPasses, CanaryFails
    <3>3. QED
      BY <3>1, <3>2 DEF EnginesTyped, Checks
  <2>3. QED
    BY <2>1, <2>2
       DEF Engine, Acquire, Hit, Miss, SessionBuilt, Promoted, BuildErr, File, Run, PassEnds,
           Panic, Hang, ClearStamp, Release, Drain, RemoveNamed, SettleDrain, Overdue, records,
           Claim
<1>10. QED
  BY <1>1, <1>2, <1>3, <1>4, <1>5, <1>6, <1>7, <1>8, <1>9 DEF EnginesTyped

LEMMA HoldersStep ==
    ASSUME EngineInv, NEW e \in Engines, Steps(e)
    PROVE  HoldersWant'
<1> USE CapsOfEngines DEF EngineInv, Steps
<1>1. PICK p \in Stages : /\ stage' = [stage EXCEPT ![e] = p]
                          /\ p = "held" => Acquire(e) \/ stage[e] = "held"
                          /\ p = "claiming" => Miss(e) \/ stage[e] = "claiming"
                          /\ p \in InBuild => Miss(e) \/ stage[e] \in {"claiming"} \cup InBuild
  BY StageMoves
<1>2. CASE Acquire(e)
  <2>1. /\ \E c \in CapsOf(e) : want' = [want EXCEPT ![e] = c]
        /\ stage' = [stage EXCEPT ![e] = "held"]
        /\ \A o \in Engines \ {e} : rungs'[o] = rungs[o]
    BY <1>2 DEF EnginesTyped, Acquire, Goto, Hold
  <2>2. QED
    BY <2>1 DEF HoldersWant, EnginesTyped, InBuild
<1>3. CASE Hit(e) \/ Drain(e) \/ RemoveNamed(e) \/ File(e) \/ Release(e)
  <2>1. /\ stage'[e] \notin {"held", "claiming"} \cup InBuild
        /\ \A o \in Engines \ {e} :
              rungs'[o] = rungs[o] /\ want'[o] = want[o] /\ stage'[o] = stage[o]
    BY <1>3 DEF EnginesTyped, Hit, Drain, RemoveNamed, File, Release, Goto, Hold, InBuild
  <2>2. QED
    BY <2>1 DEF HoldersWant
<1>4. CASE Miss(e)
  BY <1>4 DEF HoldersWant, EnginesTyped, Miss, Goto, InBuild
<1>5. CASE rungs' = rungs /\ want' = want /\ ~Acquire(e) /\ ~Miss(e)
  BY <1>1, <1>5 DEF HoldersWant, EnginesTyped, InBuild
<1>6. QED
  BY <1>2, <1>3, <1>4, <1>5
     DEF Engine, SessionBuilt, Promoted, BuildErr, Run, PassEnds, Panic, Hang, ClearStamp,
         SettleDrain, Overdue, slots, Claim, CanaryPasses, CanaryFails

LEMMA StampsStep ==
    ASSUME EngineInv, NEW e \in Engines, Steps(e)
    PROVE  StampsAreUnderALock' /\ HangsAreStamped'
<1> USE CapsOfEngines DEF EngineInv, Steps
<1>1. CASE stamps' = stamps
  <2> USE DEF StampsAreUnderALock, HangsAreStamped, EnginesTyped, stamps, Goto, InBuild
  <2>1. CASE Acquire(e)
    BY <1>1, <2>1 DEF Acquire
  <2>2. CASE Hit(e)
    BY <1>1, <2>2 DEF Hit
  <2>3. CASE Release(e)
    BY <1>1, <2>3 DEF Release
  <2>4. CASE SessionBuilt(e)
    BY <1>1, <2>4 DEF SessionBuilt
  <2>5. CASE Promoted(e)
    BY <1>1, <2>5 DEF Promoted
  <2>6. CASE BuildErr(e)
    BY <1>1, <2>6 DEF BuildErr
  <2>7. CASE File(e)
    BY <1>1, <2>7 DEF File
  <2>8. CASE PassEnds(e)
    BY <1>1, <2>8 DEF PassEnds
  <2>9. CASE Panic(e)
    BY <1>1, <2>9 DEF Panic
  <2>10. CASE Hang(e)
    BY <1>1, <2>10 DEF Hang
  <2>11. CASE Drain(e)
    BY <1>1, <2>11 DEF Drain
  <2>12. CASE RemoveNamed(e)
    BY <1>1, <2>12 DEF RemoveNamed
  <2>13. CASE SettleDrain(e)
    BY <1>1, <2>13 DEF SettleDrain
  <2>14. CASE Claim(e)
    BY <1>1, <2>14 DEF Claim
  <2>15. CASE CanaryPasses(e)
    BY <1>1, <2>15 DEF CanaryPasses
  <2>16. CASE CanaryFails(e)
    BY <1>1, <2>16 DEF CanaryFails
  <2>17. CASE Miss(e) \/ Run(e) \/ ClearStamp(e) \/ Overdue(e)
    BY <1>1, <2>17 DEF Miss, Run, ClearStamp, Enter, Overdue, slots
  <2>18. QED
    BY <2>1, <2>2, <2>3, <2>4, <2>5, <2>6, <2>7, <2>8, <2>9,
       <2>10, <2>11, <2>12, <2>13, <2>14, <2>15, <2>16, <2>17 DEF Engine
<1>2. CASE Miss(e) \/ Run(e) \/ ClearStamp(e)
  BY <1>2 DEF StampsAreUnderALock, HangsAreStamped, EnginesTyped, Miss, Run, ClearStamp, Enter,
              Goto, InBuild
<1>3. CASE Overdue(e)
  BY <1>3 DEF StampsAreUnderALock, HangsAreStamped, Overdue, slots
<1>4. QED
  BY <1>1, <1>2, <1>3
     DEF Engine, Acquire, Hit, SessionBuilt, Promoted, BuildErr, File, PassEnds, Panic, Hang,
         Release, Drain, RemoveNamed, SettleDrain, Claim, CanaryPasses, CanaryFails

LEMMA MirrorStep ==
    ASSUME EngineInv, NEW e \in Engines, Steps(e)
    PROVE  MirrorFollowsHolder'
<1> USE CapsOfEngines DEF EngineInv, Steps
<1>1. CASE e = "rerank"
  <2>1. stage'["embed"] = stage["embed"] /\ rungs'["embed"] = rungs["embed"]
        /\ poisoned'["embed"] = poisoned["embed"] /\ committed' = committed
    BY <1>1
       DEF EnginesTyped, Engine, Acquire, Hit, Miss, SessionBuilt, Promoted, BuildErr, File, Run,
           PassEnds, Panic, Hang, ClearStamp, Release, Drain, RemoveNamed, SettleDrain, Overdue,
           slots, Settle, Hold, Goto
  <2>2. QED
    BY <2>1 DEF MirrorFollowsHolder
<1>2. CASE e = "embed" /\ (Hit(e) \/ File(e))
  BY <1>2 DEF MirrorFollowsHolder, EnginesTyped, Hit, File, Settle
<1>3. CASE e = "embed" /\ (BuildErr(e) \/ SettleDrain(e))
  BY <1>3 DEF MirrorFollowsHolder, EnginesTyped, BuildErr, SettleDrain, Settle
<1>4. CASE e = "embed" /\ (Acquire(e) \/ Drain(e) \/ RemoveNamed(e))
  BY <1>4 DEF MirrorFollowsHolder, EnginesTyped, Acquire, Drain, RemoveNamed, Goto
<1>5. CASE e = "embed" /\ Claim(e)
  BY <1>5 DEF MirrorFollowsHolder, EnginesTyped, Claim, Goto
<1>6. CASE e = "embed" /\ rungs' = rungs /\ committed' = committed
  <2> USE <1>6 DEF MirrorFollowsHolder, EnginesTyped, Goto
  <2>1. CASE Miss(e) \/ SessionBuilt(e) \/ Promoted(e)
    BY <2>1 DEF Miss, SessionBuilt, Promoted
  <2>2. CASE CanaryPasses(e) \/ CanaryFails(e)
    BY <2>2 DEF CanaryPasses, CanaryFails
  <2>3. CASE Run(e) \/ PassEnds(e)
    BY <2>3 DEF Run, PassEnds
  <2>4. CASE Panic(e) \/ Hang(e)
    BY <2>4 DEF Panic, Hang
  <2>5. CASE ClearStamp(e) \/ Release(e)
    BY <2>5 DEF ClearStamp, Release
  <2>6. CASE Overdue(e)
    BY <2>6 DEF Overdue, slots
  <2>7. QED
    BY <1>2, <1>3, <1>4, <1>5, <2>1, <2>2, <2>3, <2>4, <2>5, <2>6 DEF Engine
<1>7. QED
  BY <1>1, <1>2, <1>3, <1>4, <1>5, <1>6
     DEF Engine, Miss, SessionBuilt, Promoted, Run, PassEnds, Panic, Hang, ClearStamp, Release,
         Overdue, slots, CanaryPasses, CanaryFails

LEMMA BuildsStep ==
    ASSUME EngineInv, NEW e \in Engines, Steps(e)
    PROVE  /\ BuildsAreFiled'
           /\ filed \subseteq filed'
<1> USE CapsOfEngines DEF EngineInv, Steps
<1>1. CASE SessionBuilt(e)
  BY <1>1 DEF BuildsAreFiled, EnginesTyped, SessionBuilt, Goto
<1>2. CASE Promoted(e)
  BY <1>2 DEF BuildsAreFiled, EnginesTyped, Promoted, Goto
<1>3. CASE ready' = ready /\ filed' = filed
  <2> USE <1>3 DEF BuildsAreFiled, EnginesTyped, Goto
  <2>1. CASE Acquire(e) \/ Hit(e) \/ Miss(e) \/ Claim(e)
    BY <2>1 DEF Acquire, Hit, Miss, Claim
  <2>2. CASE BuildErr(e) \/ File(e)
    BY <2>2 DEF BuildErr, File
  <2>7. CASE CanaryPasses(e) \/ CanaryFails(e)
    BY <2>7 DEF CanaryPasses, CanaryFails
  <2>3. CASE Run(e) \/ PassEnds(e) \/ Panic(e) \/ Hang(e)
    BY <2>3 DEF Run, PassEnds, Panic, Hang
  <2>4. CASE ClearStamp(e) \/ Release(e)
    BY <2>4 DEF ClearStamp, Release
  <2>5. CASE Drain(e) \/ RemoveNamed(e) \/ SettleDrain(e) \/ Overdue(e)
    BY <2>5 DEF Drain, RemoveNamed, SettleDrain, Overdue, slots
  <2>6. QED
    BY <1>1, <1>2, <2>1, <2>2, <2>3, <2>4, <2>5, <2>7 DEF Engine
<1>4. QED
  BY <1>1, <1>2, <1>3
     DEF Engine, Acquire, Hit, Miss, BuildErr, File, Run, PassEnds, Panic, Hang, ClearStamp,
         Release, Drain, RemoveNamed, SettleDrain, Overdue, records, CanaryPasses, CanaryFails,
         Claim

LEMMA VettedStep ==
    ASSUME EngineInv, NEW e \in Engines, Steps(e)
    PROVE  RungsAreVetted'
<1> USE CapsOfEngines DEF EngineInv, Steps
<1>1. CASE e = "rerank"
  <2>1. /\ stage'["embed"] = stage["embed"] /\ rungs'["embed"] = rungs["embed"]
        /\ selfCheck' = selfCheck /\ (ready => ready')
    BY <1>1
       DEF EnginesTyped, Engine, Acquire, Hit, Miss, SessionBuilt, Promoted, BuildErr, File, Run,
           PassEnds, Panic, Hang, ClearStamp, Release, Drain, RemoveNamed, SettleDrain, Overdue,
           slots, records, Hold, Goto
  <2>2. QED
    BY <2>1 DEF RungsAreVetted
<1>2. CASE e = "embed" /\ (Acquire(e) \/ Hit(e) \/ Drain(e) \/ RemoveNamed(e))
  <2>1. PICK held : Narrows(e, held)
    BY <1>2, SlotsNarrow
  <2>2. rungs["embed"] \in Seq(Caps) /\ held \in Seq(Caps)
    BY <1>2, <2>1 DEF EnginesTyped, Narrows
  <2>3. held # <<>> => rungs["embed"] # <<>>
    BY <1>2, <2>1, <2>2, EmptyStaysEmpty DEF Narrows
  <2>4. rungs'["embed"] = held
    BY <1>2, <2>1 DEF EnginesTyped, Narrows
  <2>5. ready' = ready /\ selfCheck' = selfCheck /\ stage'["embed"] \notin {"checking", "filing"}
    BY <1>2 DEF EnginesTyped, Acquire, Hit, Drain, RemoveNamed, records, Goto
  <2>6. QED
    BY <1>2, <2>1, <2>3, <2>4, <2>5 DEF RungsAreVetted, Narrows
<1>3. CASE e = "embed" /\ File(e)
  <2>1. PICK held : /\ rungs' = [rungs EXCEPT ![e] = held]
                    /\ \A d : Resident(held, d) => Resident(rungs[e], d) \/ d = want[e]
    BY <1>3, FilingBrings
  <2>2. rungs'["embed"] = held
    BY <1>3, <2>1 DEF EnginesTyped
  <2>3. ready /\ selfCheck.serving /\ selfCheck' = selfCheck /\ ready' = ready
        /\ stage'["embed"] = "settled"
    BY <1>3 DEF RungsAreVetted, EnginesTyped, File, Goto, records
  <2>4. QED
    BY <2>3 DEF RungsAreVetted, NoCheck
<1>4. CASE e = "embed" /\ Promoted(e)
  BY <1>4 DEF RungsAreVetted, EnginesTyped, Promoted, Goto
<1>5. CASE e = "embed" /\ CanaryPasses(e)
  <2>1. selfCheck'.serving /\ selfCheck' # NoCheck /\ ready' /\ rungs' = rungs
    BY <1>5 DEF RungsAreVetted, EnginesTyped, CanaryPasses, NoCheck
  <2>2. QED
    BY <2>1 DEF RungsAreVetted
<1>6. CASE e = "embed" /\ CanaryFails(e)
  <2>1. /\ ready /\ ready' = ready /\ rungs' = rungs
        /\ stage'["embed"] \in {"building", "failing"}
    BY <1>6 DEF RungsAreVetted, EnginesTyped, CanaryFails, Goto
  <2>2. want[e] \in Caps /\ ~Resident(rungs[e], want[e])
    BY <1>6 DEF HoldersWant, CanaryFails, InBuild
  <2>3. \/ selfCheck' = selfCheck
        \/ selfCheck' = [serving |-> FALSE, cap |-> want[e]]
    BY <1>6 DEF CanaryFails
  <2>4. CASE selfCheck' = selfCheck
    BY <2>1, <2>4 DEF RungsAreVetted
  <2>5. CASE selfCheck' = [serving |-> FALSE, cap |-> want[e]]
    <3>1. selfCheck'.cap = want[e] /\ selfCheck' # NoCheck
      BY <2>2, <2>5, ProbeAssumption DEF NoCheck
    <3>2. QED
      BY <1>6, <2>1, <2>2, <3>1 DEF RungsAreVetted
  <2>6. QED
    BY <2>3, <2>4, <2>5
<1>7. CASE e = "embed" /\ rungs' = rungs /\ selfCheck' = selfCheck /\ ready' = ready
  <2>1. stage'["embed"] \in {"checking", "filing"}
           => stage["embed"] = stage'["embed"] \/ Promoted(e) \/ CanaryPasses(e)
    <3> USE DEF Steps, EnginesTyped, Goto
    <3>1. CASE Acquire(e) \/ Hit(e) \/ Miss(e) \/ SessionBuilt(e) \/ BuildErr(e) \/ File(e)
      BY <1>7, <3>1 DEF Acquire, Hit, Miss, SessionBuilt, BuildErr, File
    <3>2. CASE Run(e) \/ PassEnds(e) \/ Panic(e) \/ Hang(e) \/ ClearStamp(e) \/ Release(e)
      BY <1>7, <3>2 DEF Run, PassEnds, Panic, Hang, ClearStamp, Release
    <3>3. CASE Drain(e) \/ RemoveNamed(e) \/ SettleDrain(e) \/ Overdue(e) \/ Claim(e)
                 \/ CanaryFails(e)
      BY <1>7, <3>3 DEF Drain, RemoveNamed, SettleDrain, Overdue, slots, Claim, CanaryFails
    <3>4. QED
      BY <3>1, <3>2, <3>3 DEF Engine
  <2>2. CASE Promoted(e) \/ CanaryPasses(e)
    BY <1>4, <1>5, <1>7, <2>2
  <2>3. CASE ~Promoted(e) /\ ~CanaryPasses(e)
    BY <1>7, <2>1, <2>3 DEF RungsAreVetted
  <2>4. QED
    BY <2>2, <2>3
<1>8. QED
  BY <1>1, <1>2, <1>3, <1>4, <1>5, <1>6, <1>7
     DEF Engine, Miss, SessionBuilt, BuildErr, Run, PassEnds, Panic, Hang, ClearStamp, Release,
         SettleDrain, Overdue, slots, records, Claim

LEMMA EnginesKeepTheirFacts ==
    ASSUME EngineInv, NEW e \in Engines, Steps(e)
    PROVE  EngineInv'
BY EngineTypesStep, HoldersStep, StampsStep, MirrorStep, BuildsStep, VettedStep DEF EngineInv

\* Nothing brings an engine back from native code that never returns, and its
\* record stays past its ceiling.
LEMMA HungStays ==
    ASSUME EngineInv, NEW e \in Engines, Steps(e), NEW h \in Engines, Hung(h)
    PROVE  Hung(h)'
<1> USE DEF Hung, EngineInv, EnginesTyped, Steps, Goto, Enter, InBuild
<1>1. stamp[h] # "none"
  BY DEF HangsAreStamped
<1>2. CASE Acquire(e) \/ Hit(e) \/ Miss(e) \/ SessionBuilt(e)
  BY <1>2 DEF Acquire, Hit, Miss, SessionBuilt, stamps
<1>3. CASE Promoted(e) \/ BuildErr(e) \/ File(e) \/ Run(e)
  BY <1>3 DEF Promoted, BuildErr, File, Run, stamps
<1>4. CASE PassEnds(e) \/ Panic(e) \/ Hang(e) \/ ClearStamp(e)
  BY <1>4 DEF PassEnds, Panic, Hang, ClearStamp, stamps
<1>5. CASE Release(e) \/ Drain(e) \/ RemoveNamed(e) \/ SettleDrain(e)
  BY <1>5 DEF Release, Drain, RemoveNamed, SettleDrain, stamps
<1>6. CASE Overdue(e) \/ Claim(e) \/ CanaryPasses(e) \/ CanaryFails(e)
  BY <1>6 DEF Overdue, slots, Claim, CanaryPasses, CanaryFails, stamps
<1>7. QED
  BY <1>2, <1>3, <1>4, <1>5, <1>6 DEF Engine
-----------------------------------------------------------------------------
(***************************************************************************)
(* The probe.                                                              *)
(***************************************************************************)

\* What is read for a reply, and in which order.
LEMMA ScriptReads ==
    /\ DOMAIN Script = {"health", "models"}
    /\ Len(Script["health"]) = 10 /\ Len(Script["models"]) = 4
    /\ Script["health"][1] = "ready" /\ Script["health"][7] = "vram"
    /\ \A i \in 1..10 : i # 1 => Script["health"][i] # "ready"
    /\ \A i \in 1..10 : i # 7 => Script["health"][i] # "vram"
    /\ "none" \notin DOMAIN Script
BY DEF Script, HealthFields, ModelsFields

\* The fields of a complete reply.
LEMMA WholeReply ==
    ASSUME ProbeTyped, Answered
    PROVE  /\ asked = "health" =>
                DOMAIN reply = {"ready", "embed", "rerank", "dense", "sparse", "reranker",
                                "vram", "self_check", "loaded_cap", "resident_caps"}
           /\ asked = "models" => DOMAIN reply = {"dimension", "loaded_cap", "dense", "reranker"}
           /\ asked \in {"health", "models"}
<1>1. asked \in {"health", "models"} /\ DOMAIN reply = {Fields[i] : i \in 1..Len(Fields)}
  BY DEF ProbeTyped, Answered, Asked, Script, HealthFields, ModelsFields
<1>2. CASE asked = "health"
  <2>1. Fields = <<"ready", "embed", "rerank", "dense", "sparse", "reranker",
                   "vram", "self_check", "loaded_cap", "resident_caps">>
    BY <1>2 DEF Fields, Script, HealthFields, ModelsFields, Asked
  <2>2. QED
    BY <1>1, <1>2, <2>1
<1>3. CASE asked = "models"
  <2>1. Fields = <<"dimension", "loaded_cap", "dense", "reranker">>
    BY <1>3 DEF Fields, Script, HealthFields, ModelsFields, Asked
  <2>2. QED
    BY <1>1, <1>3, <2>1
<1>4. QED
  BY <1>1, <1>2, <1>3

\* A field is answered once, "ready" before the figures.
LEMMA AnswerAdds ==
    ASSUME ProbeTyped, Asked, ~Answered, NEW v, Answer(v)
    PROVE  /\ read' \in 0..Len(Fields) /\ asked' = asked
           /\ DOMAIN reply' = {Fields[i] : i \in 1..read'}
           /\ DOMAIN reply' = DOMAIN reply \cup {Here}
           /\ \A f \in DOMAIN reply' : reply'[f] = IF f = Here THEN v ELSE reply[f]
           /\ asked = "health" /\ Here = "ready" => "vram" \notin DOMAIN reply
           /\ asked = "health" /\ Here = "vram" => "ready" \in DOMAIN reply
<1>1. /\ asked \in {"health", "models"} /\ Fields = Script[asked]
      /\ read \in Nat /\ read < Len(Fields) /\ Len(Fields) \in Nat
  BY ScriptReads DEF ProbeTyped, Asked, Answered, Fields
<1>2. /\ read' = read + 1 /\ asked' = asked
      /\ reply' = [f \in DOMAIN reply \cup {Here} |-> IF f = Here THEN v ELSE reply[f]]
  BY DEF Answer
<1>3. /\ DOMAIN reply' = DOMAIN reply \cup {Here}
      /\ \A f \in DOMAIN reply' : reply'[f] = IF f = Here THEN v ELSE reply[f]
  BY <1>2
<1>4. DOMAIN reply = {Fields[i] : i \in 1..read}
  BY DEF ProbeTyped
<1>5. 1..read' = 1..read \cup {read + 1}
  BY <1>1, <1>2
<1>6. DOMAIN reply' = {Fields[i] : i \in 1..read'}
  BY <1>3, <1>4, <1>5 DEF Here
<1>7. ASSUME asked = "health"
      PROVE  /\ Here = "ready" => "vram" \notin DOMAIN reply
             /\ Here = "vram" => "ready" \in DOMAIN reply
  <2>1. read + 1 \in 1..10 /\ Len(Fields) = 10
    BY <1>1, <1>7, ScriptReads
  <2>2. Here = "ready" => read = 0
    BY <1>1, <1>7, <2>1, ScriptReads DEF Here
  <2>3. Here = "vram" => read = 6
    BY <1>1, <1>7, <2>1, ScriptReads DEF Here
  <2>4. read = 6 => Fields[1] \in DOMAIN reply
    BY <1>4
  <2>5. QED
    BY <1>1, <1>4, <1>7, <2>2, <2>3, <2>4, ScriptReads
<1>8. QED
  BY <1>1, <1>2, <1>3, <1>6, <1>7

LEMMA FiveAreFinite ==
    ASSUME NEW a, NEW b, NEW c, NEW d, NEW e
    PROVE  IsFiniteSet({a, b, c, d, e})
<1>1. IsFiniteSet({a})
  BY FS_Singleton
<1>2. IsFiniteSet({a} \cup {b})
  BY <1>1, FS_AddElement
<1>3. IsFiniteSet({a} \cup {b} \cup {c})
  BY <1>2, FS_AddElement
<1>4. IsFiniteSet({a} \cup {b} \cup {c} \cup {d})
  BY <1>3, FS_AddElement
<1>5. IsFiniteSet({a} \cup {b} \cup {c} \cup {d} \cup {e})
  BY <1>4, FS_AddElement
<1>6. {a, b, c, d, e} = {a} \cup {b} \cup {c} \cup {d} \cup {e}
  OBVIOUS
<1>7. QED
  BY <1>5, <1>6

LEMMA FewTryLocks ==
    ASSUME NEW S, S \subseteq TryLocked
    PROVE  IsFiniteSet(S) /\ Cardinality(S) \in Nat
<1> DEFINE Some == {"ready", "embed", "rerank", "dense", "sparse"}
           More == {"reranker", "vram", "self_check", "resident_caps", "dimension"}
<1>1. Range(Script["health"]) \subseteq Some \cup More \cup {"loaded_cap"}
  BY DEF Script, HealthFields, ModelsFields, Range
<1>2. Range(Script["models"]) \subseteq Some \cup More \cup {"loaded_cap"}
  BY DEF Script, HealthFields, ModelsFields, Range
<1>3. TryLocked \subseteq Some \cup More
  <2> SUFFICES ASSUME NEW f \in TryLocked PROVE f \in Some \cup More
    OBVIOUS
  <2> HIDE DEF Some, More
  <2>1. f # "loaded_cap" /\ \E k \in DOMAIN Script : f \in Range(Script[k])
    BY DEF TryLocked
  <2>2. QED
    BY <1>1, <1>2, <2>1, ScriptReads
<1>4. IsFiniteSet(Some) /\ IsFiniteSet(More)
  BY FiveAreFinite
<1>5. IsFiniteSet(Some \cup More)
  BY <1>4, FS_Union
<1>6. QED
  BY <1>3, <1>5, FS_Subset, FS_CardinalityType

\* What a field says is a state of the engines, and only that.
LEMMA SeenStays == ASSUME UNCHANGED engines PROVE \A f : Seen(f)' = Seen(f)
BY DEF Seen, InFlight, LoadedNow, CapsNow, VramAtLoad, Reason, engines, slots, stamps, records

LEMMA EngineInvStays == ASSUME EngineInv, UNCHANGED engines PROVE EngineInv'
BY DEF EngineInv, engines, slots, stamps, records, EnginesTyped, HoldersWant,
       StampsAreUnderALock, HangsAreStamped, MirrorFollowsHolder, BuildsAreFiled, RungsAreVetted

\* A hung engine is reported for what it is by every field that is read of it.
LEMMA HungIsSeen ==
    ASSUME HangsAreStamped, NEW h \in Engines, Hung(h)
    PROVE  /\ Seen(h) = "wedged"
           /\ Seen(IF h = "embed" THEN "dense" ELSE "reranker") = TRUE
           /\ h = "embed" => Seen("sparse") = TRUE /\ Seen("resident_caps") = {}
BY CapsOfEngines DEF HangsAreStamped, Hung, Seen, InFlight, LoadedNow, CapsNow

LEMMA TornKeepsFacts ==
    ASSUME EngineInv, EngineInv', ProbeTyped, HungFieldsTell, ReadyWasFiled,
           NEW e \in Engines, Steps(e),
           Asked => ~Answered /\ Disturbable,
           moves' = IF Asked THEN moves + 1 ELSE moves,
           UNCHANGED <<asked, read, reply, collided, hung>>
    PROVE  ProbeTyped' /\ HungFieldsTell' /\ ReadyWasFiled' /\ QuietFieldsHold'
<1>1. filed \subseteq filed' /\ \A h \in hung : Hung(h)'
  <2>1. hung \subseteq Engines
    BY DEF ProbeTyped
  <2>2. QED
    BY <2>1, BuildsStep, HungStays DEF HungFieldsTell
<1>2. moves \in Nat /\ MaxTears \in Nat /\ moves' \in 0..MaxTears
  <2>1. Cardinality(collided) \in Nat
    BY FewTryLocks DEF ProbeTyped
  <2>2. QED
    BY <2>1, ProbeAssumption DEF ProbeTyped, Disturbable
<1>3. ProbeTyped'
  BY <1>2 DEF ProbeTyped, Fields, Asked
<1>4. HungFieldsTell'
  BY <1>1 DEF HungFieldsTell, Has
<1>5. ReadyWasFiled'
  BY <1>1 DEF ReadyWasFiled, Has
<1>6. QuietFieldsHold'
  BY <1>2 DEF QuietFieldsHold, Asked
<1>7. QED
  BY <1>3, <1>4, <1>5, <1>6

LEMMA AskKeepsFacts ==
    ASSUME IInv, UNCHANGED engines, NEW k \in DOMAIN Script, Ask(k)
    PROVE  ProbeTyped' /\ HungFieldsTell' /\ ReadyWasFiled' /\ QuietFieldsHold'
<1>1. /\ asked = "none" /\ asked' = k /\ k # "none" /\ Fields' = Script[k]
      /\ Len(Script[k]) \in Nat
  BY ScriptReads DEF Ask, Asked, Fields
<1>2. read = 0 /\ DOMAIN reply = {}
  BY <1>1 DEF IInv, TypeOK, ProbeTyped, Fields, Asked
<1>3. read' = 0 /\ DOMAIN reply' = {} /\ hung' = {e \in Engines : Hung(e)}
      /\ moves' = moves /\ collided' = collided
  BY <1>2 DEF Ask
<1>4. ProbeTyped'
  BY <1>1, <1>3 DEF IInv, TypeOK, ProbeTyped
<1>5. \A e \in hung' : Hung(e)'
  BY <1>3 DEF Hung, engines, slots, stamps
<1>6. QED
  BY <1>3, <1>4, <1>5 DEF HungFieldsTell, ReadyWasFiled, QuietFieldsHold, Has

LEMMA ReadKeepsFacts ==
    ASSUME IInv, UNCHANGED engines, Read
    PROVE  ProbeTyped' /\ HungFieldsTell' /\ ReadyWasFiled' /\ QuietFieldsHold'
<1> DEFINE v == Seen(Here)
<1>1. /\ Asked /\ ~Answered /\ Answer(v) /\ collided' = collided
      /\ asked' = asked /\ moves' = moves /\ hung' = hung
  BY DEF Read, Answer
<1>2. /\ read' \in 0..Len(Fields)
      /\ DOMAIN reply' = {Fields[i] : i \in 1..read'}
      /\ DOMAIN reply' = DOMAIN reply \cup {Here}
      /\ \A f \in DOMAIN reply' : reply'[f] = IF f = Here THEN Seen(Here) ELSE reply[f]
      /\ asked = "health" /\ Here = "ready" => "vram" \notin DOMAIN reply
      /\ asked = "health" /\ Here = "vram" => "ready" \in DOMAIN reply
  <2> HIDE DEF v
  <2>1. /\ read' \in 0..Len(Fields)
        /\ DOMAIN reply' = {Fields[i] : i \in 1..read'}
        /\ DOMAIN reply' = DOMAIN reply \cup {Here}
        /\ \A f \in DOMAIN reply' : reply'[f] = IF f = Here THEN v ELSE reply[f]
        /\ asked = "health" /\ Here = "ready" => "vram" \notin DOMAIN reply
        /\ asked = "health" /\ Here = "vram" => "ready" \in DOMAIN reply
    BY <1>1, AnswerAdds DEF IInv, TypeOK
  <2>2. QED
    BY <2>1 DEF v
<1>3. ProbeTyped'
  BY <1>1, <1>2 DEF IInv, TypeOK, ProbeTyped, Fields, Asked
<1>4. HungFieldsTell'
  <2> SUFFICES ASSUME NEW h \in hung
               PROVE  /\ Hung(h)'
                      /\ Has(h)' /\ h \notin collided' => reply'[h] = "wedged"
                      /\ Has(IF h = "embed" THEN "dense" ELSE "reranker")' =>
                            reply'[IF h = "embed" THEN "dense" ELSE "reranker"]
                      /\ h = "embed" /\ Has("sparse")' => reply'["sparse"]
                      /\ h = "embed" /\ Has("resident_caps")' => reply'["resident_caps"] = {}
    BY <1>1 DEF HungFieldsTell
  <2>1. h \in Engines /\ Hung(h) /\ Hung(h)'
    BY DEF IInv, TypeOK, ProbeTyped, HungFieldsTell, Hung, engines, slots, stamps
  <2>2. \A f : Has(f)' => (f = Here /\ reply'[f] = Seen(f)) \/ (Has(f) /\ reply'[f] = reply[f])
    BY <1>1, <1>2 DEF Has
  <2>3. /\ Seen(h) = "wedged"
        /\ Seen(IF h = "embed" THEN "dense" ELSE "reranker") = TRUE
        /\ h = "embed" => Seen("sparse") = TRUE /\ Seen("resident_caps") = {}
    BY <2>1, HungIsSeen DEF IInv
  <2>4. /\ Has(h) /\ h \notin collided => reply[h] = "wedged"
        /\ Has(IF h = "embed" THEN "dense" ELSE "reranker") =>
              reply[IF h = "embed" THEN "dense" ELSE "reranker"]
        /\ h = "embed" /\ Has("sparse") => reply["sparse"]
        /\ h = "embed" /\ Has("resident_caps") => reply["resident_caps"] = {}
    BY DEF IInv, HungFieldsTell
  <2>5. QED
    BY <1>1, <2>1, <2>2, <2>3, <2>4
<1>5. ReadyWasFiled'
  <2>1. filed' = filed /\ (ready => filed # {})
    BY DEF engines, records, IInv, BuildsAreFiled
  <2>2. filed # {} => Seen("vram") # "no session built"
    BY ProbeAssumption DEF IInv, TypeOK, EnginesTyped, Seen, VramAtLoad, Reason
  <2>3. Seen("ready") = ready
    BY DEF Seen
  <2>4. QED
    BY <1>1, <1>2, <2>1, <2>2, <2>3 DEF IInv, ReadyWasFiled, Has
<1>6. QuietFieldsHold'
  BY <1>1, <1>2, SeenStays DEF IInv, QuietFieldsHold, Asked
<1>7. QED
  BY <1>3, <1>4, <1>5, <1>6

LEMMA CollideKeepsFacts ==
    ASSUME IInv, UNCHANGED engines, Collide
    PROVE  ProbeTyped' /\ HungFieldsTell' /\ ReadyWasFiled' /\ QuietFieldsHold'
<1> DEFINE v == Missed(Here)
<1>1. /\ Asked /\ ~Answered /\ Answer(v) /\ collided' = collided \cup {Here}
      /\ Here \in TryLocked
      /\ asked' = asked /\ moves' = moves /\ hung' = hung
  BY DEF Collide, Answer
<1>2. /\ read' \in 0..Len(Fields)
      /\ DOMAIN reply' = {Fields[i] : i \in 1..read'}
      /\ DOMAIN reply' = DOMAIN reply \cup {Here}
      /\ \A f \in DOMAIN reply' : reply'[f] = IF f = Here THEN Missed(Here) ELSE reply[f]
      /\ asked = "health" /\ Here = "ready" => "vram" \notin DOMAIN reply
      /\ asked = "health" /\ Here = "vram" => "ready" \in DOMAIN reply
  <2> HIDE DEF v
  <2>1. /\ read' \in 0..Len(Fields)
        /\ DOMAIN reply' = {Fields[i] : i \in 1..read'}
        /\ DOMAIN reply' = DOMAIN reply \cup {Here}
        /\ \A f \in DOMAIN reply' : reply'[f] = IF f = Here THEN v ELSE reply[f]
        /\ asked = "health" /\ Here = "ready" => "vram" \notin DOMAIN reply
        /\ asked = "health" /\ Here = "vram" => "ready" \in DOMAIN reply
    BY <1>1, AnswerAdds DEF IInv, TypeOK
  <2>2. QED
    BY <2>1 DEF v
<1>3. ProbeTyped'
  BY <1>1, <1>2 DEF IInv, TypeOK, ProbeTyped, Fields, Asked
<1>4. /\ Missed("dense") = TRUE /\ Missed("sparse") = TRUE /\ Missed("reranker") = TRUE
      /\ Missed("resident_caps") = {} /\ Missed("ready") = FALSE
      /\ Missed("vram") # "no session built"
  BY DEF Missed, VramAtLoad
<1>5. HungFieldsTell'
  <2> SUFFICES ASSUME NEW h \in hung
               PROVE  /\ Hung(h)'
                      /\ Has(h)' /\ h \notin collided' => reply'[h] = "wedged"
                      /\ Has(IF h = "embed" THEN "dense" ELSE "reranker")' =>
                            reply'[IF h = "embed" THEN "dense" ELSE "reranker"]
                      /\ h = "embed" /\ Has("sparse")' => reply'["sparse"]
                      /\ h = "embed" /\ Has("resident_caps")' => reply'["resident_caps"] = {}
    BY <1>1 DEF HungFieldsTell
  <2>1. h \in Engines /\ Hung(h) /\ Hung(h)'
    BY DEF IInv, TypeOK, ProbeTyped, HungFieldsTell, Hung, engines, slots, stamps
  <2>2. \A f : Has(f)' => \/ f = Here /\ reply'[f] = Missed(f) /\ f \in collided'
                          \/ Has(f) /\ reply'[f] = reply[f]
    BY <1>1, <1>2 DEF Has
  <2>3. /\ Has(h) /\ h \notin collided => reply[h] = "wedged"
        /\ Has(IF h = "embed" THEN "dense" ELSE "reranker") =>
              reply[IF h = "embed" THEN "dense" ELSE "reranker"]
        /\ h = "embed" /\ Has("sparse") => reply["sparse"]
        /\ h = "embed" /\ Has("resident_caps") => reply["resident_caps"] = {}
    BY DEF IInv, HungFieldsTell
  <2>4. QED
    BY <1>1, <1>4, <2>1, <2>2, <2>3
<1>6. ReadyWasFiled'
  <2>1. filed' = filed
    BY DEF engines, records
  <2>2. QED
    BY <1>1, <1>2, <1>4, <2>1 DEF IInv, ReadyWasFiled, Has
<1>7. QuietFieldsHold'
  BY <1>1 DEF QuietFieldsHold
<1>8. QED
  BY <1>3, <1>5, <1>6, <1>7

LEMMA LeaveKeepsFacts ==
    ASSUME IInv, Leave
    PROVE  ProbeTyped' /\ HungFieldsTell' /\ ReadyWasFiled' /\ QuietFieldsHold'
<1>1. /\ asked' = "none" /\ read' = 0 /\ reply' = <<>>
      /\ moves' = 0 /\ collided' = {} /\ hung' = {}
  BY DEF Leave
<1>2. ProbeTyped'
  BY <1>1, ProbeAssumption DEF ProbeTyped, Fields, Asked
<1>3. QED
  BY <1>1, <1>2 DEF HungFieldsTell, ReadyWasFiled, QuietFieldsHold, Has, Asked
-----------------------------------------------------------------------------
LEMMA Starts == Init => IInv
<1> SUFFICES ASSUME Init PROVE IInv
  OBVIOUS
<1> USE DEF Init
<1>1. EnginesTyped
  <2>1. /\ stage \in [Engines -> Stages]
        /\ want \in [Engines -> Caps \cup {RerankCap, 0}]
        /\ \A e \in Engines : rungs[e] \in Seq(CapsOf(e))
        /\ DOMAIN rungs = Engines
        /\ stamp \in [Engines -> {"none", "Building", "Running"}]
    BY NothingIsResident DEF Stages
  <2>2. poisoned \in [Engines -> BOOLEAN] /\ late \in [Engines -> BOOLEAN]
    OBVIOUS
  <2>3. builds \in 0..MaxBuilds /\ selfCheck \in Checks
    BY ProbeAssumption DEF Checks
  <2>4. QED
    BY <2>1, <2>2, <2>3 DEF EnginesTyped
<1>2. ProbeTyped
  BY ProbeAssumption DEF ProbeTyped, Fields, Asked
<1>3. HoldersWant /\ StampsAreUnderALock /\ HangsAreStamped
  BY DEF HoldersWant, StampsAreUnderALock, HangsAreStamped, InBuild
<1>4. MirrorFollowsHolder /\ BuildsAreFiled
  BY CapsOfEngines DEF MirrorFollowsHolder, MostRecent, BuildsAreFiled
<1>5. RungsAreVetted
  BY CapsOfEngines, NothingIsResident DEF RungsAreVetted
<1>6. HungFieldsTell /\ ReadyWasFiled /\ QuietFieldsHold
  BY DEF HungFieldsTell, ReadyWasFiled, QuietFieldsHold, Has, Asked
<1>7. QED
  BY <1>1, <1>2, <1>3, <1>4, <1>5, <1>6 DEF IInv, TypeOK

LEMMA NextKeepsIInv == IInv /\ [Next]_vars => IInv'
<1> SUFFICES ASSUME IInv, [Next]_vars PROVE IInv'
  OBVIOUS
<1>1. EngineInv
  BY DEF IInv, TypeOK, EngineInv
<1>2. CASE Torn
  <2>1. \E e \in Engines : Steps(e)
    BY <1>2, CapsOfEngines DEF Torn, Elsewhere, Steps
  <2>2. PICK e \in Engines : Steps(e)
    BY <2>1
  <2>3. EngineInv'
    BY <1>1, <2>2, EnginesKeepTheirFacts
  <2>4. ProbeTyped' /\ HungFieldsTell' /\ ReadyWasFiled' /\ QuietFieldsHold'
    BY <1>1, <1>2, <2>2, <2>3, TornKeepsFacts DEF Torn, IInv, TypeOK
  <2>5. QED
    BY <2>3, <2>4 DEF IInv, TypeOK, EngineInv
<1>3. CASE Probing /\ UNCHANGED engines
  <2>1. EngineInv'
    BY <1>1, <1>3, EngineInvStays
  <2>2. ProbeTyped' /\ HungFieldsTell' /\ ReadyWasFiled' /\ QuietFieldsHold'
    BY <1>3, AskKeepsFacts, ReadKeepsFacts, CollideKeepsFacts, LeaveKeepsFacts DEF Probing
  <2>3. QED
    BY <2>1, <2>2 DEF IInv, TypeOK, EngineInv
<1>4. CASE UNCHANGED vars
  <2>1. EngineInv' /\ UNCHANGED probe /\ UNCHANGED engines
    BY <1>1, <1>4, EngineInvStays DEF vars
  <2>2. ProbeTyped'
    BY <2>1 DEF IInv, TypeOK, ProbeTyped, Fields, Asked, probe
  <2>3. HungFieldsTell'
    BY <2>1 DEF IInv, HungFieldsTell, Has, Hung, probe, engines, slots, stamps
  <2>4. ReadyWasFiled'
    BY <2>1 DEF IInv, ReadyWasFiled, Has, probe, engines, records
  <2>5. QuietFieldsHold'
    BY <2>1, SeenStays DEF IInv, QuietFieldsHold, Asked, probe
  <2>6. QED
    BY <2>1, <2>2, <2>3, <2>4, <2>5 DEF IInv, TypeOK, EngineInv
<1>5. QED
  BY <1>2, <1>3, <1>4 DEF Next

\* The inductive invariant of a reply that is read while the engines go on.
THEOREM AnswersInductive == Spec => []IInv
<1>1. Init => IInv
  BY Starts
<1>2. IInv /\ [Next]_vars => IInv'
  BY NextKeepsIInv
<1>3. QED
  BY <1>1, <1>2, PTL DEF Spec

\* Whatever is read, in whatever order the engines move, has its type: the
\* slots of loaded_now hold caps of their own engine, and the reply of a
\* handler is made of the fields that it has read.
THEOREM AnswersTyped == Spec => []TypeOK
<1>1. IInv => TypeOK
  BY DEF IInv
<1>2. QED
  BY <1>1, AnswersInductive, PTL

\* /health tells of an engine that was hung past its ceiling when it was asked,
\* for any number of caps, rungs and steps within the reply: nothing brings the
\* engine back, and every field read of it is read while it is hung.
THEOREM WedgesAreReported == Spec => []WedgeIsReported
<1>1. IInv => WedgeIsReported
  <2> SUFFICES ASSUME IInv, Answered, asked = "health", NEW e \in hung
               PROVE  /\ e \notin collided => reply[e] = "wedged"
                      /\ reply[IF e = "embed" THEN "dense" ELSE "reranker"]
                      /\ e = "embed" => reply["sparse"] /\ reply["resident_caps"] = {}
    BY DEF WedgeIsReported
  <2>1. e \in {"embed", "rerank"}
    BY CapsOfEngines DEF IInv, TypeOK, ProbeTyped
  <2>2. DOMAIN reply = {"ready", "embed", "rerank", "dense", "sparse", "reranker",
                        "vram", "self_check", "loaded_cap", "resident_caps"}
    BY WholeReply DEF IInv, TypeOK
  <2>3. QED
    BY <2>1, <2>2 DEF IInv, HungFieldsTell, Has
<1>2. QED
  BY <1>1, AnswersInductive, PTL

\* A reply that names an active provider never says that no session was built,
\* however torn it is.
THEOREM ReadyCounts == Spec => []ReadyBuildsAreCounted
<1>1. IInv => ReadyBuildsAreCounted
  <2> SUFFICES ASSUME IInv, Answered, asked = "health", reply["ready"]
               PROVE  reply["vram"] # "no session built"
    BY DEF ReadyBuildsAreCounted
  <2>1. "ready" \in DOMAIN reply /\ "vram" \in DOMAIN reply
    BY WholeReply DEF IInv, TypeOK
  <2>2. QED
    BY <2>1 DEF IInv, ReadyWasFiled, Has
<1>2. QED
  BY <1>1, AnswersInductive, PTL

\* A reply nothing moved under is a state of the engines that makes sense: what
\* is in flight is loaded, what is listed was vetted and committed to, and an
\* idle empty slot is committed to nothing.
THEOREM QuietReplies == Spec => []QuietRepliesAgree
<1>1. IInv => QuietRepliesAgree
  <2> SUFFICES ASSUME IInv, Undisturbed PROVE QuietRepliesAgree
    BY DEF QuietRepliesAgree
  <2> DEFINE Held == rungs["embed"]
  <2>1. /\ \A f \in DOMAIN reply : reply[f] = Seen(f)
        /\ asked \in {"health", "models"}
        /\ {"dense", "loaded_cap"} \subseteq DOMAIN reply
        /\ asked = "health" =>
             {"ready", "embed", "rerank", "reranker", "self_check", "resident_caps"}
                \subseteq DOMAIN reply
    BY WholeReply DEF IInv, TypeOK, QuietFieldsHold, Undisturbed, Answered
  <2>2. Held \in Seq(Caps) /\ stage["embed"] \in Stages
    BY CapsOfEngines DEF IInv, TypeOK, EnginesTyped
  <2>3. /\ MostRecent(Held) \in Range(Held) \/ Held = <<>>
        /\ Held = <<>> => MostRecent(Held) = 0
        /\ \A d : Resident(Held, d) <=> d \in Range(Held)
        /\ Range(Held) # {} => Held # <<>>
    BY <2>2, NewestIsResident DEF Resident, Range
  <2>4. Seen("loaded_cap") = committed /\ Seen("dense") = LoadedNow("embed")
        /\ Seen("ready") = ready /\ Seen("self_check") = selfCheck
        /\ Seen("resident_caps") = CapsNow /\ Seen("reranker") = LoadedNow("rerank")
        /\ Seen("embed") = InFlight("embed") /\ Seen("rerank") = InFlight("rerank")
    BY DEF Seen
  <2>5. ~LoadedNow("embed") /\ ~poisoned["embed"] => committed = 0
    BY <2>3 DEF IInv, MirrorFollowsHolder, LoadedNow
  <2>6. \A e \in Engines : InFlight(e) # "none" => LoadedNow(e)
    BY DEF IInv, StampsAreUnderALock, InFlight, LoadedNow
  <2>7. CapsNow # {} => /\ LoadedNow("embed") /\ ready
                        /\ committed \in CapsNow
                        /\ selfCheck # NoCheck
                        /\ ~selfCheck.serving => selfCheck.cap \notin CapsNow
    <3> SUFFICES ASSUME CapsNow # {}
                 PROVE  /\ LoadedNow("embed") /\ ready
                        /\ committed \in CapsNow
                        /\ selfCheck # NoCheck
                        /\ ~selfCheck.serving => selfCheck.cap \notin CapsNow
      OBVIOUS
    <3>1. /\ stage["embed"] = "free" /\ ~poisoned["embed"]
          /\ CapsNow = Range(Held) /\ Held # <<>>
      BY <2>3 DEF CapsNow
    <3>2. QED
      BY <2>3, <3>1 DEF IInv, MirrorFollowsHolder, RungsAreVetted, LoadedNow
  <2>8. QED
    BY <2>1, <2>4, <2>5, <2>6, <2>7, CapsOfEngines DEF QuietRepliesAgree
<1>2. QED
  BY <1>1, AnswersInductive, PTL
-----------------------------------------------------------------------------
(***************************************************************************)
(* The texts of a request: where pinning puts them, and where they come    *)
(* back from.                                                              *)
(***************************************************************************)
LEMMA Division ==
    ASSUME NEW n \in Nat, NEW b \in Nat \ {0}
    PROVE  /\ n \div b \in Nat /\ n % b \in 0..(b - 1)
           /\ n = (n \div b) * b + (n % b)
OBVIOUS

LEMMA QuotientIsUnique ==
    ASSUME NEW b \in Nat \ {0}, NEW q \in Nat, NEW r \in 0..(b - 1)
    PROVE  (q * b + r) \div b = q /\ (q * b + r) % b = r
<1> DEFINE n == q * b + r
           p == n \div b
           m == n % b
<1>1. n \in Nat
  OBVIOUS
<1>2. p \in Nat /\ m \in 0..(b - 1) /\ n = p * b + m
  BY <1>1, Division
<1> HIDE DEF p, m
<1>3. q * b + r = p * b + m
  BY <1>2
<1> HIDE DEF n
<1>4. CASE p = q
  BY <1>2, <1>3, <1>4 DEF p, m, n
<1>5. CASE p < q
  <2>1. PICK d \in Nat : q = p + 1 + d
    BY <1>2, <1>5
  <2>2. q * b = p * b + b + d * b /\ d * b \in Nat
    BY <1>2, <2>1
  <2>3. QED
    BY <1>2, <1>3, <2>2
<1>6. CASE q < p
  <2>1. PICK d \in Nat : p = q + 1 + d
    BY <1>2, <1>6
  <2>2. p * b = q * b + b + d * b /\ d * b \in Nat
    BY <1>2, <2>1
  <2>3. QED
    BY <1>2, <1>3, <2>2
<1>7. QED
  BY <1>2, <1>4, <1>5, <1>6

\* A function on the first n numbers is a sequence of length n.
LEMMA FunctionIsSequence ==
    ASSUME NEW S, NEW n \in Nat, NEW f \in [1..n -> S]
    PROVE  f \in Seq(S) /\ Len(f) = n
<1>1. f \in Seq(S)
  BY SeqDef
<1>2. Len(f) \in Nat /\ DOMAIN f = 1..Len(f)
  BY <1>1, LenProperties
<1>3. QED
  BY <1>1, <1>2

\* A layout that is pinned has every text once more than the rulers let on: the
\* row that positions names is the row of that text.
LEMMA PinnedFinds ==
    ASSUME NEW n \in Nat, NEW b \in Nat, b >= 2
    PROVE  /\ Pinned(n, b) \in Seq(0..n)
           /\ PositionsOf(n, b) \in [1..n -> 1..Len(Pinned(n, b))]
           /\ \A i \in 1..n : Pinned(n, b)[PositionsOf(n, b)[i]] = i
<1> DEFINE per == b - 1
           size == ((n + per - 1) \div per) * b
           text(k) == ((k - 1) \div b) * per + ((k - 1) % b)
           f == Pinned(n, b)
<1>1. per \in Nat \ {0} /\ b \in Nat \ {0} /\ b = per + 1
  OBVIOUS
<1>2. (n + per - 1) \div per \in Nat /\ size \in Nat
  BY <1>1, Division
<1>3. f = [k \in 1..size |-> IF (k - 1) % b # 0 /\ text(k) <= n THEN text(k) ELSE Ruler]
  BY DEF Pinned
<1>4. \A k \in 1..size : text(k) \in Nat
  <2> SUFFICES ASSUME NEW k \in 1..size PROVE text(k) \in Nat
    OBVIOUS
  <2>1. k - 1 \in Nat
    BY <1>2
  <2>2. (k - 1) \div b \in Nat /\ (k - 1) % b \in Nat
    BY <1>1, <2>1, Division
  <2>3. QED
    BY <1>1, <2>2
<1> HIDE DEF size, text, f
<1>5. f \in [1..size -> 0..n]
  BY <1>3, <1>4 DEF Ruler
<1>6. f \in Seq(0..n) /\ Len(f) = size
  BY <1>2, <1>5, FunctionIsSequence
<1>7. ASSUME NEW i \in 1..n
      PROVE  /\ PositionsOf(n, b)[i] \in 1..size
             /\ f[PositionsOf(n, b)[i]] = i
  <2> DEFINE q == (i - 1) \div per
             r == (i - 1) % per
             k == q * b + r + 2
  <2>1. PositionsOf(n, b)[i] = k
    BY DEF PositionsOf
  <2>2. q \in Nat /\ r \in 0..(per - 1) /\ i - 1 = q * per + r
    <3>1. i - 1 \in Nat /\ per \in Nat \ {0}
      BY <1>1
    <3> HIDE DEF per
    <3>2. QED
      BY <3>1, Division
  <2> HIDE DEF q, r
  <2>3. k - 1 = q * b + (r + 1) /\ r + 1 \in 0..(b - 1)
    BY <1>1, <2>2
  <2>4. (k - 1) \div b = q /\ (k - 1) % b = r + 1
    <3>1. (q * b + (r + 1)) \div b = q /\ (q * b + (r + 1)) % b = r + 1
      BY <1>1, <2>2, <2>3, QuotientIsUnique
    <3> HIDE DEF k
    <3>2. QED
      BY <2>3, <3>1
  <2>5. text(k) = i
    BY <1>1, <2>2, <2>4 DEF text
  <2>6. k \in 1..size
    <3> DEFINE m == n + per - 1
               u == m \div per
               v == m % per
    <3>1. m \in Nat /\ u \in Nat /\ v \in 0..(per - 1) /\ m = u * per + v
      <4>1. m \in Nat
        BY <1>1
      <4>2. QED
        BY <1>1, <4>1, Division
    <3>2. size = u * b
      BY DEF size
    <3> HIDE DEF m, u, v
    <3>3. m = n + per - 1
      BY DEF m
    <3>4. u >= q + 1
      <4>1. CASE u =< q
        <5>1. PICK d \in Nat : q = u + d
          BY <2>2, <3>1, <4>1
        <5>2. q * per = u * per + d * per /\ d * per \in Nat
          BY <1>1, <3>1, <5>1
        <5>3. QED
          BY <1>1, <2>2, <3>1, <3>3, <5>2
      <4>2. QED
        BY <2>2, <3>1, <4>1
    <3>5. u * b >= q * b + b
      <4>1. PICK d \in Nat : u = q + 1 + d
        BY <2>2, <3>1, <3>4
      <4>2. u * b = q * b + b + d * b /\ d * b \in Nat /\ q * b \in Nat
        BY <2>2, <4>1
      <4>3. QED
        BY <4>2
    <3>6. q * b \in Nat
      BY <2>2
    <3>7. QED
      BY <1>1, <1>2, <2>3, <2>2, <3>2, <3>5, <3>6
  <2>7. f[k] = i
    BY <1>1, <1>3, <2>2, <2>4, <2>5, <2>6
  <2>8. QED
    BY <2>1, <2>6, <2>7
<1>8. PositionsOf(n, b) \in [1..n -> 1..size]
  BY <1>7 DEF PositionsOf
<1>9. QED
  BY <1>6, <1>7, <1>8 DEF f

\* Pinned or not, a layout is of the request's texts and has each of them where
\* its positions say.
LEMMA LayoutFinds ==
    ASSUME NEW n \in Nat, NEW b \in Nat \ {0}, NEW cap, NEW l, l = Layout(n, b, cap)
    PROVE  /\ l.layout \in Seq(0..n)
           /\ l.positions \in [1..n -> 1..Len(l.layout)]
           /\ \A i \in 1..n : l.layout[l.positions[i]] = i
           /\ l.cap = cap /\ l.batch = b
<1>1. CASE ShouldPin /\ b >= 2
  <2>1. /\ l.layout = Pinned(n, b) /\ l.positions = PositionsOf(n, b)
        /\ l.cap = cap /\ l.batch = b
    BY <1>1 DEF Layout
  <2>2. /\ Pinned(n, b) \in Seq(0..n)
        /\ PositionsOf(n, b) \in [1..n -> 1..Len(Pinned(n, b))]
        /\ \A i \in 1..n : Pinned(n, b)[PositionsOf(n, b)[i]] = i
    BY <1>1, PinnedFinds
  <2>3. QED
    BY <2>1, <2>2
<1>2. CASE ~(ShouldPin /\ b >= 2)
  <2> DEFINE f == [k \in 1..n |-> k]
  <2>1. l.layout = f /\ l.positions = f /\ l.cap = cap /\ l.batch = b
    BY <1>2 DEF Layout
  <2>2. f \in [1..n -> 0..n] /\ f \in [1..n -> 1..n] /\ \A i \in 1..n : f[i] = i
    OBVIOUS
  <2> HIDE DEF f
  <2>3. f \in Seq(0..n) /\ Len(f) = n
    BY <2>2, FunctionIsSequence
  <2>4. QED
    BY <2>1, <2>2, <2>3
<1>3. QED
  BY <1>1, <1>2
-----------------------------------------------------------------------------
(***************************************************************************)
(* The ranking, and the way back from it.                                  *)
(***************************************************************************)

\* The results of N rows, and the place of each in the ranking.
ResultOf(i) == [index |-> i, score |-> Score(rows[i])]
Results     == {ResultOf(i) : i \in DOMAIN rows}
Ahead(x)    == {y \in Results : Before(y, x)}

LEMMA ResultsAreCounted ==
    ASSUME rows \in Seq([text : Nat, seen : Nat])
    PROVE  /\ IsFiniteSet(Results) /\ Cardinality(Results) = Len(rows)
           /\ \A x \in Results : /\ x.index \in 1..Len(rows) /\ x.score \in Nat
                                 /\ x = ResultOf(x.index)
<1> DEFINE f == [i \in 1..Len(rows) |-> ResultOf(i)]
<1>1. Len(rows) \in Nat /\ DOMAIN rows = 1..Len(rows)
      /\ \A i \in 1..Len(rows) : rows[i] \in [text : Nat, seen : Nat]
  BY LenProperties, ElementOfSeq
<1>2. \A i \in 1..Len(rows) : Score(rows[i]) \in Nat
  <2> SUFFICES ASSUME NEW i \in 1..Len(rows) PROVE Score(rows[i]) \in Nat
    OBVIOUS
  <2> DEFINE m == rows[i].seen * 7
  <2>1. m \in Nat
    BY <1>1
  <2>2. Score(rows[i]) = (m % 11) + 1
    BY DEF Score
  <2> HIDE DEF m
  <2>3. m % 11 \in Nat
    BY <2>1
  <2>4. QED
    BY <2>2, <2>3
<1>3. \A i \in 1..Len(rows) : ResultOf(i).index = i /\ ResultOf(i).score = Score(rows[i])
  BY DEF ResultOf
<1>4. f \in Bijection(1..Len(rows), Results)
  BY <1>1, <1>3 DEF Results, Bijection, Injection, Surjection, IsInjective
<1>5. ExistsBijection(1..Len(rows), Results)
  BY <1>4 DEF ExistsBijection
<1>6. IsFiniteSet(Results) /\ Cardinality(Results) = Len(rows)
  BY <1>1, <1>5, FS_NatBijection, FS_CountingElements
<1>7. QED
  BY <1>1, <1>2, <1>3, <1>6 DEF Results

LEMMA PlacesAreTaken ==
    ASSUME rows \in Seq([text : Nat, seen : Nat])
    PROVE  /\ \A x \in Results : Cardinality(Ahead(x)) + 1 \in 1..Len(rows)
           /\ \A x, y \in Results : Cardinality(Ahead(x)) = Cardinality(Ahead(y)) => x = y
           /\ \A p \in 1..Len(rows) : \E x \in Results : Cardinality(Ahead(x)) + 1 = p
<1> DEFINE N == Len(rows)
           f == [x \in Results |-> Cardinality(Ahead(x)) + 1]
<1>1. /\ IsFiniteSet(Results) /\ Cardinality(Results) = N /\ N \in Nat
      /\ \A x \in Results : /\ x.index \in Nat /\ x.score \in Nat
                            /\ x = ResultOf(x.index)
  BY ResultsAreCounted, LenProperties
<1>2. \A x \in Results : /\ IsFiniteSet(Ahead(x)) /\ Cardinality(Ahead(x)) \in Nat
                         /\ Ahead(x) \subseteq Results /\ x \notin Ahead(x)
  <2> SUFFICES ASSUME NEW x \in Results
               PROVE  /\ IsFiniteSet(Ahead(x)) /\ Cardinality(Ahead(x)) \in Nat
                      /\ Ahead(x) \subseteq Results /\ x \notin Ahead(x)
    OBVIOUS
  <2>1. Ahead(x) \subseteq Results /\ x \notin Ahead(x)
    BY <1>1 DEF Ahead, Before
  <2>2. QED
    BY <1>1, <2>1, FS_Subset, FS_CardinalityType
<1>3. \A x \in Results : Cardinality(Ahead(x)) + 1 \in 1..N
  <2> SUFFICES ASSUME NEW x \in Results PROVE Cardinality(Ahead(x)) + 1 \in 1..N
    OBVIOUS
  <2>1. Cardinality(Ahead(x)) <= Cardinality(Results) /\ Cardinality(Ahead(x)) # Cardinality(Results)
    BY <1>1, <1>2, FS_Subset
  <2>2. QED
    BY <1>1, <1>2, <2>1
<1>4. ASSUME NEW x \in Results, NEW y \in Results, Before(x, y)
      PROVE  Cardinality(Ahead(x)) # Cardinality(Ahead(y))
  <2>1. Ahead(x) \subseteq Ahead(y)
    BY <1>1, <1>4 DEF Ahead, Before
  <2>2. x \in Ahead(y) /\ x \notin Ahead(x)
    BY <1>2, <1>4 DEF Ahead
  <2>3. QED
    BY <1>2, <2>1, <2>2, FS_Subset
<1>5. ASSUME NEW x \in Results, NEW y \in Results, x # y
      PROVE  Before(x, y) \/ Before(y, x)
  BY <1>1, <1>5 DEF Before
<1>6. \A x, y \in Results : Cardinality(Ahead(x)) = Cardinality(Ahead(y)) => x = y
  BY <1>4, <1>5
<1>7. f \in Injection(Results, 1..N)
  <2>1. f \in [Results -> 1..N] /\ \A x \in Results : f[x] = Cardinality(Ahead(x)) + 1
    BY <1>3
  <2> HIDE DEF f
  <2>2. \A x, y \in Results : f[x] = f[y] => x = y
    BY <1>2, <1>6, <2>1
  <2>3. QED
    BY <2>1, <2>2 DEF Injection, IsInjective
<1>8. IsFiniteSet(1..N) /\ Cardinality(1..N) = N
  <2>1. /\ IsFiniteSet(1..N)
        /\ Cardinality(1..N) = IF 1 > N THEN 0 ELSE N - 1 + 1
    <3>1. 1 \in Int /\ N \in Int
      BY <1>1
    <3> HIDE DEF N
    <3>2. QED
      BY <3>1, FS_Interval
  <2>2. QED
    BY <1>1, <2>1
<1>9. f \in Surjection(Results, 1..N)
  BY <1>1, <1>7, <1>8, FS_Injection
<1>10. \A p \in 1..N : \E x \in Results : f[x] = p
  BY <1>9 DEF Surjection
<1>11. QED
  BY <1>3, <1>6, <1>10

\* However the scores rank the documents, each comes back to its own.
LEMMA AlignmentFinds ==
    ASSUME rows \in Seq([text : Nat, seen : Nat]),
           pass.layout \in Seq(Nat), Len(rows) = Len(pass.layout)
    PROVE  \A i \in 1..Len(rows) : Aligned(Ranked)[i] = Score(rows[i])
<1> DEFINE N == Len(rows)
           R == Ranked
<1>1. N \in Nat /\ DOMAIN rows = 1..N /\ DOMAIN pass.layout = 1..N
  BY LenProperties
<1>2. R = [p \in 1..N |-> CHOOSE x \in Results : Cardinality(Ahead(x)) + 1 = p]
  BY <1>1 DEF Ranked, Results, ResultOf, Ahead
<1> HIDE DEF R
<1>3. \A p \in 1..N : R[p] \in Results /\ Cardinality(Ahead(R[p])) + 1 = p
  BY <1>2, PlacesAreTaken
<1>4. ASSUME NEW i \in 1..N
      PROVE  Aligned(R)[i] = Score(rows[i])
  <2> DEFINE x == ResultOf(i)
             All == {R[p] : p \in DOMAIN R}
  <2>1. x \in Results /\ x.index = i /\ x.score = Score(rows[i])
    BY <1>1 DEF Results, ResultOf
  <2> HIDE DEF x
  <2>2. PICK p \in 1..N : p = Cardinality(Ahead(x)) + 1
    BY <2>1, PlacesAreTaken
  <2>3. R[p] = x
    <3>1. IsFiniteSet(Results) /\ Ahead(x) \subseteq Results /\ Ahead(R[p]) \subseteq Results
      BY ResultsAreCounted DEF Ahead
    <3>2. Cardinality(Ahead(x)) \in Nat /\ Cardinality(Ahead(R[p])) \in Nat
      BY <3>1, FS_Subset, FS_CardinalityType
    <3>3. Cardinality(Ahead(R[p])) = Cardinality(Ahead(x)) /\ R[p] \in Results
      <4>1. R[p] \in Results /\ Cardinality(Ahead(R[p])) + 1 = p
        BY <1>3
      <4>2. QED
        BY <2>2, <3>2, <4>1
    <3>4. \A y, z \in Results : Cardinality(Ahead(y)) = Cardinality(Ahead(z)) => y = z
      BY PlacesAreTaken
    <3>5. QED
      BY <2>1, <3>3, <3>4
  <2>4. DOMAIN R = 1..N
    BY <1>2
  <2>5. x \in All /\ \A y \in All : y \in Results
    BY <1>3, <2>3, <2>4
  <2>6. \A y \in All : y.index = i => y = x
    BY <2>5, ResultsAreCounted DEF x
  <2>7. (CHOOSE y \in All : y.index = i) = x
    <3> HIDE DEF All
    <3>1. QED
      BY <2>1, <2>5, <2>6
  <2>8. \E q \in DOMAIN R : R[q].index = i
    BY <2>1, <2>3, <2>4
  <2>9. Aligned(R)[i] = (CHOOSE y \in All : y.index = i).score
    BY <1>1, <2>8 DEF Aligned
  <2>10. QED
    BY <2>1, <2>7, <2>9
<1>5. QED
  BY <1>4 DEF R
-----------------------------------------------------------------------------
(***************************************************************************)
(* A request on its way.                                                   *)
(***************************************************************************)
LEMMA TextsAreSequences ==
    ASSUME NEW t \in Texts
    PROVE  /\ Len(t) \in Nat /\ DOMAIN t = 1..Len(t)
           /\ \A i \in 1..Len(t) : t[i] = Refused \/ t[i] \in Nat
<1>1. PICK n \in Nat : t \in [1..n -> Tokens \cup {Refused}]
  BY RequestShapesAssumption DEF Texts
<1>2. Len(t) = n
  BY <1>1, FunctionIsSequence
<1>3. QED
  BY <1>1, <1>2, RequestShapesAssumption

LEMMA LimitsResolve ==
    ASSUME RequestTyped
    PROVE  /\ Batch(req) \in Nat \ {0}
           /\ CapFor(req) \in 16..ModelLength
<1>1. /\ PositiveOr(req.length, ConfigLength) \in Nat
      /\ PositiveOr(req.batch, ConfigBatch) \in Nat
  BY RequestShapesAssumption DEF RequestTyped, PositiveOr
<1>2. Batch(req) \in Nat \ {0}
  BY <1>1 DEF Batch, Larger
<1>3. Clamped(PositiveOr(req.length, ConfigLength)) \in 16..ModelLength
  <2> DEFINE l == PositiveOr(req.length, ConfigLength)
             low == Smaller(l, 8192)
  <2>1. low \in Nat /\ low <= 8192
    BY <1>1 DEF Smaller
  <2>2. Clamped(l) = Larger(16, low)
    BY DEF Clamped, ModelLength
  <2> HIDE DEF l, low
  <2>3. Larger(16, low) \in 16..ModelLength
    BY <2>1 DEF Larger, ModelLength
  <2>4. Clamped(l) \in 16..ModelLength
    BY <2>2, <2>3, Zenon
  <2>5. QED
    BY <2>4, Zenon DEF l
<1>4. CapFor(req) \in 16..ModelLength
  BY <1>3 DEF CapFor, RequestTyped
<1>5. QED
  BY <1>2, <1>4

\* What is handed to the library is made of the request's own texts.
LEMMA PassHolds ==
    ASSUME RequestTyped, PassIsLayout, Handed
    PROVE  /\ pass.layout \in Seq(0..Len(req.texts))
           /\ pass.positions \in [1..Len(req.texts) -> 1..Len(pass.layout)]
           /\ \A i \in 1..Len(req.texts) : pass.layout[pass.positions[i]] = i
           /\ pass.batch = Batch(req) /\ pass.batch \in Nat \ {0}
           /\ Len(pass.layout) \in Nat
<1>1. Len(req.texts) \in Nat /\ Batch(req) \in Nat \ {0}
  BY TextsAreSequences, LimitsResolve DEF RequestTyped
<1>2. pass = Layout(Len(req.texts), Batch(req), pass.cap)
  BY DEF PassIsLayout
<1>3. /\ pass.layout \in Seq(0..Len(req.texts))
      /\ pass.positions \in [1..Len(req.texts) -> 1..Len(pass.layout)]
      /\ \A i \in 1..Len(req.texts) : pass.layout[pass.positions[i]] = i
      /\ pass.batch = Batch(req)
  <2> DEFINE n == Len(req.texts)
             b == Batch(req)
  <2>1. n \in Nat /\ b \in Nat \ {0} /\ pass = Layout(n, b, pass.cap)
    BY <1>1, <1>2
  <2> HIDE DEF n, b
  <2>2. /\ pass.layout \in Seq(0..n)
        /\ pass.positions \in [1..n -> 1..Len(pass.layout)]
        /\ \A i \in 1..n : pass.layout[pass.positions[i]] = i
        /\ pass.batch = b
    BY <2>1, LayoutFinds
  <2>3. QED
    BY <2>2 DEF n, b
<1>4. QED
  BY <1>1, <1>3, LenProperties

\* The chunk the library comes to, and what it is made of.
LEMMA ChunkFollows ==
    ASSUME RequestTyped, PassIsLayout, RowsFollow, progress = "running",
           NEW chunk, chunk = NextChunk(Reached + 1), Reached < Len(pass.layout)
    PROVE  /\ DOMAIN chunk = 1..Len(chunk) /\ Len(chunk) \in Nat
           /\ Reached \in Nat /\ Reached + Len(chunk) <= Len(pass.layout)
           /\ \A k \in 1..Len(chunk) : chunk[k] = pass.layout[Reached + k]
           /\ Encodes(chunk) => \A k \in 1..Len(chunk) : Row(chunk[k]) \in [text : Nat, seen : Nat]
                                                         /\ TokensOf(chunk[k]) \in Nat
           /\ ~Encodes(chunk) => \E i \in DOMAIN req.texts : req.texts[i] = Refused
<1> DEFINE at == Reached + 1
           to == Smaller(at + pass.batch - 1, Len(pass.layout))
           n == Len(req.texts)
<1>1. /\ pass.layout \in Seq(0..n) /\ pass.batch \in Nat \ {0}
      /\ Len(pass.layout) \in Nat
      /\ \A i \in 1..Len(pass.layout) : pass.layout[i] \in 0..n
  BY PassHolds, ElementOfSeq DEF Handed
<1>2. Reached \in Nat
  BY LenProperties DEF RequestTyped, Reached
<1>3. at \in Nat /\ at >= 1 /\ to \in Nat /\ to <= Len(pass.layout) /\ to >= at
  BY <1>1, <1>2 DEF Smaller
<1>4. chunk = SubSeq(pass.layout, at, to)
  BY DEF NextChunk
<1> HIDE DEF at, to
<1>5. /\ chunk \in Seq(0..n) /\ Len(chunk) = to - at + 1
      /\ \A k \in 1..(to - at + 1) : chunk[k] = pass.layout[at + k - 1]
  <2>1. \A i \in at..to : pass.layout[i] \in 0..n
    BY <1>1, <1>3
  <2> DEFINE c == SubSeq(pass.layout, at, to)
  <2>2. /\ c \in Seq(0..n) /\ Len(c) = IF at <= to THEN to - at + 1 ELSE 0
        /\ \A k \in 1..(to - at + 1) : c[k] = pass.layout[at + k - 1]
    BY <1>3, <2>1, SubSeqProperties
  <2> HIDE DEF c
  <2>3. QED
    BY <1>3, <1>4, <2>2 DEF c
<1>6. DOMAIN chunk = 1..Len(chunk) /\ Len(chunk) \in Nat /\ \A k \in 1..Len(chunk) : chunk[k] \in 0..n
  BY <1>5, LenProperties, ElementOfSeq
<1>7. /\ Reached + Len(chunk) <= Len(pass.layout)
      /\ \A k \in 1..Len(chunk) : chunk[k] = pass.layout[Reached + k]
  <2>1. at = Reached + 1
    BY DEF at
  <2>2. Reached + Len(chunk) <= Len(pass.layout)
    BY <1>1, <1>2, <1>3, <1>5, <2>1
  <2>3. ASSUME NEW k \in 1..Len(chunk)
        PROVE  chunk[k] = pass.layout[Reached + k]
    <3>1. k \in 1..(to - at + 1)
      BY <1>5, <2>3
    <3>2. at + k - 1 = Reached + k
      BY <1>2, <2>1, <2>3, <1>3, <1>5
    <3>3. QED
      BY <1>5, <3>1, <3>2
  <2>4. QED
    BY <2>2, <2>3
<1>8. /\ n \in Nat /\ DOMAIN req.texts = 1..n
      /\ \A i \in 1..n : req.texts[i] = Refused \/ req.texts[i] \in Nat
  BY TextsAreSequences DEF RequestTyped
<1>9. ASSUME Encodes(chunk), NEW k \in 1..Len(chunk)
      PROVE  Row(chunk[k]) \in [text : Nat, seen : Nat] /\ TokensOf(chunk[k]) \in Nat
  <2>1. chunk[k] \in 0..n /\ (chunk[k] # Ruler => req.texts[chunk[k]] # Refused)
    BY <1>6, <1>9 DEF Encodes
  <2>2. TokensOf(chunk[k]) \in Nat
    BY <1>8, <2>1 DEF TokensOf, Ruler, RulerTokens, ModelLength
  <2>3. QED
    BY <1>8, <2>1, <2>2 DEF Row, Smaller, RequestTyped
<1>10. ASSUME ~Encodes(chunk)
       PROVE  \E i \in DOMAIN req.texts : req.texts[i] = Refused
  <2>1. PICK k \in 1..Len(chunk) : chunk[k] # Ruler /\ req.texts[chunk[k]] = Refused
    BY <1>6, <1>10 DEF Encodes
  <2>2. chunk[k] \in 1..n
    BY <1>6, <1>8, <2>1 DEF Ruler
  <2>3. QED
    BY <1>8, <2>1, <2>2
<1>11. QED
  BY <1>2, <1>6, <1>7, <1>9, <1>10

\* Rows are appended to rows.
LEMMA RowsGrow ==
    ASSUME RequestTyped, NEW chunk, NEW n \in Nat,
           \A k \in 1..n : Row(chunk[k]) \in [text : Nat, seen : Nat],
           rows' = rows \o [k \in 1..n |-> Row(chunk[k])]
    PROVE  /\ rows' \in Seq([text : Nat, seen : Nat])
           /\ Len(rows) \in Nat /\ Len(rows') = Len(rows) + n
           /\ DOMAIN rows = 1..Len(rows) /\ DOMAIN rows' = 1..Len(rows')
           /\ \A k \in 1..Len(rows) : rows'[k] = rows[k]
           /\ \A k \in 1..n : rows'[Len(rows) + k] = Row(chunk[k])
<1> DEFINE S == [text : Nat, seen : Nat]
           more == [k \in 1..n |-> Row(chunk[k])]
           all == rows \o more
<1>1. more \in [1..n -> S] /\ \A k \in 1..n : more[k] = Row(chunk[k])
  OBVIOUS
<1>2. rows \in Seq(S)
  BY DEF RequestTyped
<1>3. rows' = all
  OBVIOUS
<1> HIDE DEF more, S
<1>4. more \in Seq(S) /\ Len(more) = n
  BY <1>1, FunctionIsSequence
<1>5. /\ all \in Seq(S) /\ Len(all) = Len(rows) + Len(more)
      /\ \A i \in 1..(Len(rows) + Len(more)) :
           all[i] = IF i <= Len(rows) THEN rows[i] ELSE more[i - Len(rows)]
  BY <1>2, <1>4, ConcatProperties
<1> HIDE DEF all
<1>6. Len(rows) \in Nat /\ DOMAIN rows = 1..Len(rows) /\ DOMAIN all = 1..Len(all)
  BY <1>2, <1>5, LenProperties
<1>7. ASSUME NEW k \in 1..n PROVE all[Len(rows) + k] = Row(chunk[k])
  <2>1. /\ Len(rows) + k \in 1..(Len(rows) + Len(more))
        /\ ~(Len(rows) + k <= Len(rows)) /\ (Len(rows) + k) - Len(rows) = k
    BY <1>4, <1>6
  <2>2. all[Len(rows) + k] = more[(Len(rows) + k) - Len(rows)]
    BY <1>5, <2>1
  <2>3. QED
    BY <1>1, <2>1, <2>2
<1>8. \A k \in 1..Len(rows) : all[k] = rows[k]
  BY <1>4, <1>5, <1>6
<1>9. Len(all) = Len(rows) + n
  BY <1>4, <1>5
<1>10. rows' \in Seq([text : Nat, seen : Nat])
  BY <1>3, <1>5 DEF S
<1>11. QED
  BY <1>3, <1>6, <1>7, <1>8, <1>9, <1>10

LEMMA RequestsAreTyped ==
    ASSUME NEW r \in Requests
    PROVE  /\ r.route \in Routes /\ r.texts \in Texts
           /\ r.length \in Nat /\ r.batch \in Nat
<1> USE RequestShapesAssumption DEF Routes
<1>1. CASE r \in EmbedRequest
  BY <1>1 DEF EmbedRequest
<1>2. CASE r \in RerankRequest
  <2>1. r.route = "rerank" /\ r.texts \in Texts /\ r.length = 0 /\ r.batch \in Batches
    BY <1>2 DEF RerankRequest
  <2>2. 0 \in Nat /\ \A b \in Batches : b \in Nat
    OBVIOUS
  <2>3. r.batch \in Nat
    BY <2>1, <2>2, Zenon
  <2>4. QED
    BY <2>1, <2>3
<1>3. CASE r \in TokenizeRequest
  BY <1>3 DEF TokenizeRequest
<1>4. QED
  BY <1>1, <1>2, <1>3 DEF Requests

LEMMA NothingToHand ==
    /\ << >> \in Texts /\ << >> \in Seq(Nat) /\ << >> \in Seq([text : Nat, seen : Nat])
    /\ Len(<< >>) = 0 /\ DOMAIN << >> = {}
<1>1. << >> \in [1..0 -> Tokens \cup {Refused}] /\ 0 \in 0..MaxTexts
  BY RequestShapesAssumption
<1>2. QED
  BY <1>1 DEF Texts

LEMMA SettingsStay == ShapesNext => UNCHANGED settings
BY DEF ShapesNext, Serve, Arrive, RefuseTokenize, Tokenize, PrepareEmbed, PrepareRerank, Engage,
       RunChunk, RerankRunShort, EmbedRunShort, EncodeFails, Returned, AnswerEmbed, AnswerRerank,
       Done

LEMMA LayoutsAreTyped ==
    ASSUME RequestTyped, NEW cap \in Nat
    PROVE  LET l == Layout(Len(req.texts), Batch(req), cap)
           IN  l.layout \in Seq(Nat) /\ l.cap = cap /\ Len(l.layout) \in Nat
<1>1. Len(req.texts) \in Nat /\ Batch(req) \in Nat \ {0}
  BY TextsAreSequences, LimitsResolve DEF RequestTyped
<1> DEFINE l == Layout(Len(req.texts), Batch(req), cap)
<1> HIDE DEF l
<1>2. l.layout \in Seq(0..Len(req.texts)) /\ l.cap = cap
  BY <1>1, LayoutFinds DEF l
<1>3. Len(l.layout) \in Nat /\ \A i \in 1..Len(l.layout) : l.layout[i] \in Nat
  BY <1>2, LenProperties, ElementOfSeq
<1>4. l.layout \in [1..Len(l.layout) -> Nat]
  BY <1>2, <1>3, LenProperties
<1>5. l.layout \in Seq(Nat)
  BY <1>3, <1>4, FunctionIsSequence
<1>6. QED
  BY <1>2, <1>3, <1>5 DEF l

LEMMA RejectionTyped ==
    ASSUME attempt \in 0..SettleAttempts, progress \in Progress, Rejected
    PROVE  rows' = << >> /\ attempt' \in 0..SettleAttempts /\ progress' \in Progress
<1>1. CASE MayRetry
  BY <1>1 DEF Rejected, MayRetry, SettleAttempts
<1>2. CASE ~MayRetry
  BY <1>2 DEF Rejected, Fails, Respond, Progress
<1>3. QED
  BY <1>1, <1>2

LEMMA RequestTypedStep ==
    ASSUME ShapesIInv, ShapesNext
    PROVE  RequestTyped'
<1>1. RequestTyped /\ PassIsLayout /\ RowsFollow /\ UNCHANGED settings
  BY SettingsStay DEF ShapesIInv
<1>2. ASSUME NEW r \in Requests, Arrive(r) PROVE RequestTyped'
  BY <1>1, <1>2, RequestsAreTyped
     DEF RequestTyped, Arrive, settings, sessions, work, Respond, Progress
<1>3. CASE RefuseTokenize \/ Tokenize
  BY <1>1, <1>3
     DEF RequestTyped, RefuseTokenize, Tokenize, settings, sessions, work, Respond, Progress
<1>4. CASE PrepareEmbed
  <2>1. CapFor(req) \in Nat
    <3>1. CapFor(req) \in 16..ModelLength
      BY <1>1, LimitsResolve, Zenon
    <3>2. \A c \in 16..ModelLength : c \in Nat
      BY DEF ModelLength
    <3>3. QED
      BY <3>1, <3>2, Zenon
  <2>2. pass'.layout \in Seq(Nat) /\ pass'.cap \in Nat
    BY <1>1, <1>4, <2>1, LayoutsAreTyped DEF PrepareEmbed
  <2>3. QED
    BY <1>1, <1>4, <2>2 DEF RequestTyped, PrepareEmbed, settings, sessions, Progress
<1>5. CASE PrepareRerank
  <2>1. RerankLength \in Nat
    BY RequestShapesAssumption
  <2>2. pass'.layout \in Seq(Nat) /\ pass'.cap \in Nat
    BY <1>1, <1>5, <2>1, LayoutsAreTyped DEF PrepareRerank
  <2>3. QED
    BY <1>1, <1>5, <2>2 DEF RequestTyped, PrepareRerank, settings, sessions, Progress
<1>6. CASE Engage
  <2>1. ASSUME NEW e \in Sessions, Fresh(e) PROVE bad' \in [Sessions -> 0..MaxBad]
    BY <1>1, <2>1, RequestShapesAssumption DEF RequestTyped, Fresh
  <2>2. bad' \in [Sessions -> 0..MaxBad]
    BY <1>1, <1>6, <2>1 DEF Engage, RequestTyped, Sessions
  <2>3. resident' \in {0} \cup 16..ModelLength
    BY <1>1, <1>6 DEF Engage, RequestTyped, PassIsLayout, Handed
  <2>4. /\ loaded' \in BOOLEAN /\ progress' = "running" /\ attempt' = 1
        /\ UNCHANGED <<req, pass, usage, rows, strayed>>
    BY <1>1, <1>6 DEF RequestTyped, Engage
  <2>5. progress' \in Progress /\ attempt' \in 0..SettleAttempts
    BY <2>4 DEF Progress, SettleAttempts
  <2>6. QED
    BY <1>1, <2>2, <2>3, <2>4, <2>5 DEF RequestTyped, settings
<1>7. CASE RunChunk
  <2>1. PICK chunk \in {NextChunk(Reached + 1)} :
              /\ Runs(chunk) /\ Encodes(chunk)
              /\ rows' = rows \o [k \in DOMAIN chunk |-> Row(chunk[k])]
    BY <1>7 DEF RunChunk
  <2>2. /\ Len(chunk) \in Nat /\ DOMAIN chunk = 1..Len(chunk)
        /\ \A k \in 1..Len(chunk) : Row(chunk[k]) \in [text : Nat, seen : Nat]
    BY <1>1, <2>1, ChunkFollows DEF Runs
  <2>3. rows' = rows \o [k \in 1..Len(chunk) |-> Row(chunk[k])]
    BY <2>1, <2>2
  <2>4. rows' \in Seq([text : Nat, seen : Nat])
    BY <1>1, <2>2, <2>3, RowsGrow
  <2>5. QED
    BY <1>1, <1>7, <2>4 DEF RequestTyped, RunChunk, settings, sessions
<1>8. CASE RerankRunShort
  <2>1. PICK chunk \in {NextChunk(Reached + 1)} : \E n \in 0..(Len(chunk) - 1) :
              /\ Runs(chunk) /\ Encodes(chunk)
              /\ bad["rerank"] > 0
              /\ bad' = [bad EXCEPT !["rerank"] = @ - 1]
              /\ rows' = rows \o [k \in 1..n |-> Row(chunk[k])]
              /\ strayed' = strayed + Len(chunk) - n
    BY <1>8 DEF RerankRunShort
  <2>2. PICK n \in 0..(Len(chunk) - 1) :
              /\ Runs(chunk) /\ Encodes(chunk)
              /\ bad["rerank"] > 0
              /\ bad' = [bad EXCEPT !["rerank"] = @ - 1]
              /\ rows' = rows \o [k \in 1..n |-> Row(chunk[k])]
              /\ strayed' = strayed + Len(chunk) - n
    BY <2>1
  <2>3. /\ Len(chunk) \in Nat
        /\ \A k \in 1..Len(chunk) : Row(chunk[k]) \in [text : Nat, seen : Nat]
    BY <1>1, <2>2, ChunkFollows DEF Runs
  <2>4. rows' \in Seq([text : Nat, seen : Nat])
    <3>1. n \in Nat /\ \A k \in 1..n : Row(chunk[k]) \in [text : Nat, seen : Nat]
      BY <2>3
    <3>2. QED
      BY <1>1, <2>2, <3>1, RowsGrow
  <2>5. bad' \in [Sessions -> 0..MaxBad]
    <3>1. bad["rerank"] - 1 \in 0..MaxBad
      BY <1>1, <2>2, RequestShapesAssumption DEF RequestTyped, Sessions
    <3>2. QED
      BY <1>1, <2>2, <3>1 DEF RequestTyped
  <2>6. strayed' \in Nat
    BY <1>1, <2>2, <2>3 DEF RequestTyped
  <2>7. QED
    BY <1>1, <1>8, <2>4, <2>5, <2>6 DEF RequestTyped, RerankRunShort, settings
<1>9. CASE EmbedRunShort
  <2>1. bad' \in [Sessions -> 0..MaxBad]
    BY <1>1, <1>9, RequestShapesAssumption DEF EmbedRunShort, RequestTyped, Sessions
  <2>2. rows' = << >> /\ attempt' \in 0..SettleAttempts /\ progress' \in Progress
    BY <1>1, <1>9, RejectionTyped DEF EmbedRunShort, RequestTyped
  <2>3. QED
    BY <1>1, <1>9, <2>1, <2>2, NothingToHand DEF RequestTyped, EmbedRunShort, settings
<1>10. CASE EncodeFails
  <2>1. /\ rows' \in {<< >>, rows} /\ attempt' \in 0..SettleAttempts
        /\ progress' \in Progress
    BY <1>1, <1>10, RejectionTyped DEF EncodeFails, RequestTyped, Fails, Respond, Progress
  <2>2. QED
    BY <1>1, <1>10, <2>1, NothingToHand DEF RequestTyped, EncodeFails, settings, sessions
<1>11. CASE Returned \/ AnswerEmbed \/ AnswerRerank
  BY <1>1, <1>11 DEF RequestTyped, Returned, AnswerEmbed, AnswerRerank, settings, sessions, work,
                     Respond, Fails, Progress
<1>12. CASE Done
  <2>1. /\ req'.route = "embed" /\ req'.texts = << >> /\ req'.length = 0 /\ req'.batch = 0
        /\ pass'.layout = << >> /\ pass'.cap = 0
    BY <1>12 DEF Done, NoPass
  <2>2. QED
    BY <1>1, <1>12, <2>1, NothingToHand
       DEF RequestTyped, Done, settings, sessions, Progress, Routes, SettleAttempts
<1>13. QED
  BY <1>2, <1>3, <1>4, <1>5, <1>6, <1>7, <1>8, <1>9, <1>10, <1>11, <1>12 DEF ShapesNext, Serve

\* What depends on the settings alone stays.
LEMMA LayoutsStay ==
    ASSUME UNCHANGED settings
    PROVE  /\ ShouldPin' = ShouldPin
           /\ \A n, b, c : Layout(n, b, c)' = Layout(n, b, c)
           /\ \A t, c : Counts(t, c)' = Counts(t, c)
BY DEF settings, ShouldPin, Layout, Counts

LEMMA PassStep ==
    ASSUME ShapesIInv, ShapesNext
    PROVE  PassIsLayout'
<1>1. RequestTyped /\ PassIsLayout /\ UNCHANGED settings
  BY SettingsStay DEF ShapesIInv
<1>2. CASE PrepareEmbed
  <2> DEFINE c == CapFor(req)
  <2>1. c \in 16..ModelLength
    BY <1>1, LimitsResolve
  <2>2. /\ pass' = Layout(Len(req.texts), Batch(req), c)
        /\ usage' = Counts(req.texts, c)
        /\ req' = req /\ req.route = "embed"
    BY <1>2 DEF PrepareEmbed, UsageOf
  <2> HIDE DEF c
  <2>3. pass'.cap = c /\ c \in Nat
    <3>1. c \in Nat
      BY <2>1 DEF ModelLength
    <3>2. QED
      BY <1>1, <2>2, <3>1, LayoutsAreTyped
  <2>4. QED
    BY <1>1, <2>1, <2>2, <2>3, LayoutsStay DEF PassIsLayout, Batch
<1>3. CASE PrepareRerank
  <2>1. /\ pass' = Layout(Len(req.texts), Batch(req), RerankLength)
        /\ req' = req /\ req.route = "rerank"
    BY <1>3 DEF PrepareRerank
  <2>2. pass'.cap = RerankLength /\ RerankLength \in Nat
    BY <1>1, <2>1, LayoutsAreTyped, RequestShapesAssumption
  <2>3. QED
    BY <1>1, <2>1, <2>2, LayoutsStay DEF PassIsLayout, Batch
<1>4. CASE Engage \/ RunChunk \/ RerankRunShort \/ EmbedRunShort \/ EncodeFails \/ Returned
  <2>1. Handed /\ UNCHANGED <<req, pass, usage>>
    BY <1>4 DEF Engage, RunChunk, RerankRunShort, EmbedRunShort, EncodeFails, Returned, Runs,
                Handed, work
  <2>2. QED
    BY <1>1, <2>1, LayoutsStay DEF PassIsLayout, Batch
<1>5. CASE \/ \E r \in Requests : Arrive(r)
           \/ RefuseTokenize \/ Tokenize \/ AnswerEmbed \/ AnswerRerank \/ Done
  <2>1. ~Handed'
    BY <1>5 DEF Arrive, RefuseTokenize, Tokenize, AnswerEmbed, AnswerRerank, Done, Handed,
                Respond, Fails
  <2>2. QED
    BY <2>1 DEF PassIsLayout
<1>6. QED
  BY <1>2, <1>3, <1>4, <1>5 DEF ShapesNext, Serve

LEMMA RowsStep ==
    ASSUME ShapesIInv, ShapesNext
    PROVE  RowsFollow'
<1>1. /\ RequestTyped /\ PassIsLayout /\ RowsFollow /\ UNCHANGED settings
      /\ Len(rows) \in Nat /\ strayed \in Nat /\ Len(pass.layout) \in Nat
  BY SettingsStay, LenProperties DEF ShapesIInv, RequestTyped
<1>2. CASE (\E r \in Requests : Arrive(r)) \/ RefuseTokenize \/ Tokenize
  <2>1. /\ rows' = rows /\ strayed' = strayed /\ pass' = pass /\ ~Handed'
        /\ rows = << >> /\ strayed = 0
    BY <1>1, <1>2 DEF Arrive, RefuseTokenize, Tokenize, work, Respond, Handed, RowsFollow
  <2>2. QED
    BY <1>1, <2>1 DEF RowsFollow, Reached, Handed
<1>3. CASE PrepareEmbed \/ PrepareRerank
  <2>1. /\ rows' = << >> /\ strayed' = 0 /\ progress' = "laid out"
    BY <1>1, <1>3 DEF PrepareEmbed, PrepareRerank, RowsFollow
  <2>2. Len(pass'.layout) \in Nat
    <3>1. RequestTyped'
      BY RequestTypedStep
    <3>2. QED
      BY <3>1, LenProperties DEF RequestTyped
  <2>3. Reached' = 0 /\ DOMAIN rows' = {}
    <3>1. Reached' = Len(<< >>) + 0 /\ DOMAIN rows' = DOMAIN << >>
      BY <2>1 DEF Reached
    <3>2. QED
      BY <3>1, NothingToHand
  <2>4. Reached' <= Len(pass'.layout)
    BY <2>2, <2>3
  <2>5. \A k \in DOMAIN rows' : (rows[k] = Row(pass.layout[k]) /\ TokensOf(pass.layout[k]) \in Nat)'
    BY <2>3
  <2>6. QED
    BY <2>1, <2>4, <2>5 DEF RowsFollow
<1>4. CASE Engage
  BY <1>1, <1>4 DEF Engage, RowsFollow, Reached, Handed, Row, TokensOf
<1>5. CASE RunChunk
  <2>1. PICK chunk \in {NextChunk(Reached + 1)} :
              /\ Runs(chunk) /\ Encodes(chunk)
              /\ rows' = rows \o [k \in DOMAIN chunk |-> Row(chunk[k])]
    BY <1>5 DEF RunChunk
  <2>2. /\ Len(chunk) \in Nat /\ DOMAIN chunk = 1..Len(chunk)
        /\ Reached + Len(chunk) <= Len(pass.layout)
        /\ \A k \in 1..Len(chunk) : /\ chunk[k] = pass.layout[Reached + k]
                                    /\ Row(chunk[k]) \in [text : Nat, seen : Nat]
                                    /\ TokensOf(chunk[k]) \in Nat
    BY <1>1, <2>1, ChunkFollows DEF Runs
  <2>3. rows' = rows \o [k \in 1..Len(chunk) |-> Row(chunk[k])]
    BY <2>1, <2>2
  <2>4. /\ Len(rows') = Len(rows) + Len(chunk)
        /\ DOMAIN rows = 1..Len(rows) /\ DOMAIN rows' = 1..Len(rows')
        /\ \A k \in 1..Len(rows) : rows'[k] = rows[k]
        /\ \A k \in 1..Len(chunk) : rows'[Len(rows) + k] = Row(chunk[k])
    BY <1>1, <2>2, <2>3, RowsGrow
  <2>5. /\ UNCHANGED <<progress, req, pass, strayed>> /\ progress = "running"
    BY <1>5, <2>1 DEF RunChunk, Runs
  <2>6. ASSUME strayed = 0, NEW k \in DOMAIN rows'
        PROVE  rows'[k] = Row(pass.layout[k]) /\ TokensOf(pass.layout[k]) \in Nat
    <3>1. CASE k \in 1..Len(rows)
      BY <1>1, <2>4, <2>5, <2>6, <3>1 DEF RowsFollow, Handed
    <3>2. CASE k \notin 1..Len(rows)
      <4>1. PICK j \in 1..Len(chunk) : k = Len(rows) + j
        <5>1. k \in 1..(Len(rows) + Len(chunk)) /\ ~(k <= Len(rows))
          BY <1>1, <2>4, <3>2
        <5>2. k - Len(rows) \in 1..Len(chunk) /\ k = Len(rows) + (k - Len(rows))
          BY <1>1, <2>2, <5>1
        <5>3. QED
          BY <5>2
      <4>2. chunk[j] = pass.layout[k]
        BY <1>1, <2>2, <2>6, <4>1 DEF Reached
      <4>3. QED
        BY <2>2, <2>4, <4>1, <4>2
    <3>3. QED
      BY <3>1, <3>2
  <2>7. \A k : Row(k)' = Row(k) /\ TokensOf(k)' = TokensOf(k)
    BY <2>5 DEF Row, TokensOf
  <2>8. Reached' <= Len(pass.layout)
    BY <1>1, <2>2, <2>4, <2>5 DEF Reached
  <2>9. req.route # "rerank" => strayed = 0
    BY <1>1 DEF RowsFollow
  <2>10. QED
    BY <2>5, <2>6, <2>7, <2>8, <2>9 DEF RowsFollow
<1>6. CASE RerankRunShort
  <2>1. PICK chunk \in {NextChunk(Reached + 1)} : \E n \in 0..(Len(chunk) - 1) :
              /\ Runs(chunk) /\ Encodes(chunk)
              /\ rows' = rows \o [k \in 1..n |-> Row(chunk[k])]
              /\ strayed' = strayed + Len(chunk) - n
    BY <1>6 DEF RerankRunShort
  <2>2. PICK n \in 0..(Len(chunk) - 1) :
              /\ Runs(chunk) /\ Encodes(chunk)
              /\ rows' = rows \o [k \in 1..n |-> Row(chunk[k])]
              /\ strayed' = strayed + Len(chunk) - n
    BY <2>1
  <2>3. /\ Len(chunk) \in Nat /\ Reached + Len(chunk) <= Len(pass.layout)
        /\ \A k \in 1..Len(chunk) : Row(chunk[k]) \in [text : Nat, seen : Nat]
    BY <1>1, <2>2, ChunkFollows DEF Runs
  <2>4. Len(rows') = Len(rows) + n
    <3>1. n \in Nat /\ \A k \in 1..n : Row(chunk[k]) \in [text : Nat, seen : Nat]
      BY <2>3
    <3>2. QED
      BY <1>1, <2>2, <3>1, RowsGrow
  <2>5. /\ UNCHANGED <<progress, req, pass>> /\ progress = "running" /\ req.route = "rerank"
    BY <1>6, <2>2 DEF RerankRunShort, Runs
  <2>6. strayed' # 0 /\ Reached' <= Len(pass.layout)
    BY <1>1, <2>2, <2>3, <2>4, <2>5 DEF Reached
  <2>7. QED
    BY <2>5, <2>6 DEF RowsFollow
<1>7. CASE EmbedRunShort \/ (EncodeFails /\ req.route = "embed")
  <2>1. /\ rows' = << >> /\ UNCHANGED <<req, pass, strayed>> /\ req.route = "embed"
        /\ progress' \in {"running", "answered"}
    BY <1>7 DEF EmbedRunShort, EncodeFails, Rejected, Fails, Respond, Runs
  <2>2. strayed = 0
    BY <1>1, <2>1 DEF RowsFollow
  <2>3. Reached' = 0 /\ DOMAIN rows' = {}
    <3>1. Reached' = Len(<< >>) + 0 /\ DOMAIN rows' = DOMAIN << >>
      BY <2>1, <2>2 DEF Reached
    <3>2. QED
      BY <3>1, NothingToHand
  <2>4. Reached' <= Len(pass'.layout)
    BY <1>1, <2>1, <2>3
  <2>5. \A k \in DOMAIN rows' : (rows[k] = Row(pass.layout[k]) /\ TokensOf(pass.layout[k]) \in Nat)'
    BY <2>3
  <2>6. QED
    BY <2>1, <2>2, <2>4, <2>5 DEF RowsFollow
<1>8. CASE EncodeFails /\ req.route # "embed"
  <2>1. /\ UNCHANGED <<rows, req, pass, strayed>> /\ progress' = "answered"
    BY <1>8 DEF EncodeFails, Fails, Respond
  <2>2. QED
    BY <1>1, <2>1 DEF RowsFollow, Reached, Handed
<1>9. CASE Returned
  <2>1. /\ UNCHANGED <<rows, req, pass, strayed>> /\ progress = "running"
        /\ progress' = "returned" /\ Reached >= Len(pass.layout)
    BY <1>9 DEF Returned, work
  <2>2. Reached = Len(pass.layout)
    BY <1>1, <2>1 DEF RowsFollow, Reached
  <2>3. QED
    BY <1>1, <2>1, <2>2 DEF RowsFollow, Reached, Handed, Row, TokensOf
<1>10. CASE AnswerEmbed \/ AnswerRerank
  <2>1. /\ UNCHANGED <<rows, req, pass, strayed>> /\ progress' = "answered"
    BY <1>10 DEF AnswerEmbed, AnswerRerank, Respond, Fails, work
  <2>2. QED
    BY <1>1, <2>1 DEF RowsFollow, Reached, Handed
<1>11. CASE Done
  <2>1. rows' = << >> /\ strayed' = 0 /\ pass'.layout = << >> /\ progress' = "idle"
    BY <1>11 DEF Done, NoPass
  <2>2. QED
    BY <2>1, NothingToHand DEF RowsFollow, Reached, Handed
<1>12. CASE EncodeFails
  BY <1>7, <1>8, <1>12
<1>13. CASE EmbedRunShort
  BY <1>7, <1>13
<1>14. QED
  BY <1>2, <1>3, <1>4, <1>5, <1>6, <1>9, <1>10, <1>11, <1>12, <1>13 DEF ShapesNext, Serve

LEMMA RetriesStep ==
    ASSUME ShapesIInv, ShapesNext
    PROVE  RetriesArePaid'
<1>1. /\ RequestTyped /\ PassIsLayout /\ RowsFollow /\ RetriesArePaid
      /\ ShouldPin' = ShouldPin
  BY SettingsStay, LayoutsStay DEF ShapesIInv
<1>2. CASE progress' = "running" /\ req'.route = "embed" /\ ShouldPin
  <2>1. CASE Engage
    <3>1. attempt' = 1 /\ bad'["embed"] <= MaxBad /\ bad'["embed"] \in Nat
      <4>1. RequestTyped'
        BY RequestTypedStep
      <4>2. bad'["embed"] \in 0..MaxBad
        BY <4>1 DEF RequestTyped, Sessions
      <4>3. attempt' = 1
        BY <2>1 DEF Engage
      <4>4. QED
        BY <4>2, <4>3, RequestShapesAssumption
    <3>2. QED
      BY <3>1, RequestShapesAssumption DEF RetriesArePaid
  <2>2. CASE RunChunk
    BY <1>1, <1>2, <2>2 DEF RunChunk, sessions, RetriesArePaid
  <2>3. CASE RerankRunShort
    BY <1>2, <2>3 DEF RerankRunShort
  <2>4. CASE EmbedRunShort
    <3>1. /\ progress = "running" /\ UNCHANGED req
          /\ bad' = [bad EXCEPT !["embed"] = @ - 1]
          /\ attempt' = attempt + 1
      BY <1>2, <2>4 DEF EmbedRunShort, Rejected, Runs, Fails, Respond
    <3>2. attempt \in Nat /\ bad["embed"] \in Nat /\ bad'["embed"] = bad["embed"] - 1
      BY <1>1, <3>1, RequestShapesAssumption DEF RequestTyped, Sessions, SettleAttempts
    <3>3. QED
      BY <1>1, <1>2, <3>1, <3>2 DEF RetriesArePaid
  <2>5. CASE EncodeFails
    <3>1. \E i \in DOMAIN req.texts : req.texts[i] = Refused
      BY <1>1, <2>5, ChunkFollows DEF EncodeFails, Runs
    <3>2. UNCHANGED req
      BY <2>5 DEF EncodeFails
    <3>3. QED
      BY <3>1, <3>2 DEF RetriesArePaid
  <2>6. QED
    BY <1>2, <2>1, <2>2, <2>3, <2>4, <2>5
       DEF ShapesNext, Serve, Arrive, RefuseTokenize, Tokenize, PrepareEmbed, PrepareRerank,
           Returned, AnswerEmbed, AnswerRerank, Done, Respond, Fails
<1>3. QED
  BY <1>1, <1>2 DEF RetriesArePaid

\* What each of these steps answers.
LEMMA StatusesOf ==
    /\ \A r \in Requests : Arrive(r) => answer'.status \in {"empty", "none"}
    /\ RefuseTokenize => answer'.status = "bad request"
    /\ Tokenize => answer'.status = "counted"
    /\ AnswerRerank => answer'.status = "ok"
    /\ Done => answer'.status = "none"
<1>1. ASSUME NEW r \in Requests, Arrive(r) PROVE answer'.status \in {"empty", "none"}
  BY <1>1 DEF Arrive, Respond, NoAnswer
<1>2. ASSUME RefuseTokenize PROVE answer'.status = "bad request"
  BY <1>2, Zenon DEF RefuseTokenize, Respond
<1>3. Tokenize => answer'.status = "counted"
  BY DEF Tokenize, Respond
<1>4. AnswerRerank => answer'.status = "ok"
  BY DEF AnswerRerank, Respond
<1>5. Done => answer'.status = "none"
  BY DEF Done, NoAnswer
<1>6. QED
  BY <1>1, <1>2, <1>3, <1>4, <1>5

\* A request that goes wrong goes wrong for a text, as long as a session has
\* fewer bad runs in it than are allowed.
LEMMA ErrorsHaveACause ==
    ASSUME ShapesIInv, MaxBad < SettleAttempts, FirstRunsAreAbsorbed, ShapesNext
    PROVE  FirstRunsAreAbsorbed'
<1>1. /\ RequestTyped /\ PassIsLayout /\ RowsFollow /\ RetriesArePaid /\ AnswerTells
      /\ ShouldPin' = ShouldPin
  BY SettingsStay, LayoutsStay DEF ShapesIInv
<1>2. CASE answer'.status = "error" /\ req'.route = "embed" /\ ShouldPin
  <2>1. CASE UNCHANGED <<answer, req>>
    BY <1>1, <1>2, <2>1 DEF FirstRunsAreAbsorbed
  <2>2. CASE EmbedRunShort
    <3>1. CASE answer' = answer
      BY <1>1, <2>1, <2>2, <3>1 DEF EmbedRunShort
    <3>2. CASE answer' # answer
      <4>1. ~MayRetry /\ progress = "running" /\ req.route = "embed" /\ bad["embed"] > 0
            /\ UNCHANGED req
        BY <2>2, <3>2 DEF EmbedRunShort, Rejected, Runs
      <4>2. attempt = SettleAttempts /\ bad["embed"] \in Nat
        BY <1>1, <1>2, <4>1, RequestShapesAssumption
           DEF MayRetry, RequestTyped, SettleAttempts, Sessions
      <4>3. \E i \in DOMAIN req.texts : req.texts[i] = Refused
        BY <1>1, <1>2, <4>1, <4>2, RequestShapesAssumption DEF RetriesArePaid, SettleAttempts
      <4>4. QED
        BY <4>1, <4>3 DEF FirstRunsAreAbsorbed
    <3>3. QED
      BY <3>1, <3>2
  <2>3. CASE EncodeFails
    <3>1. \E i \in DOMAIN req.texts : req.texts[i] = Refused
      BY <1>1, <2>3, ChunkFollows DEF EncodeFails, Runs
    <3>2. UNCHANGED req
      BY <2>3 DEF EncodeFails
    <3>3. QED
      BY <3>1, <3>2 DEF FirstRunsAreAbsorbed
  <2>4. CASE AnswerEmbed
    <3>1. /\ progress = "returned" /\ req.route = "embed" /\ strayed = 0
          /\ Len(rows) = Len(pass.layout)
      BY <1>1, <2>4, LenProperties DEF AnswerEmbed, RowsFollow, Reached, RequestTyped
    <3>2. Covers(rows)
      <4>1. pass.positions \in [1..Len(req.texts) -> 1..Len(pass.layout)]
        BY <1>1, <3>1, PassHolds DEF Handed
      <4>2. QED
        BY <3>1, <4>1 DEF Covers
    <3>3. answer'.status = "ok"
      BY <2>4, <3>2 DEF AnswerEmbed, Respond
    <3>4. QED
      BY <1>2, <3>3
  <2>5. CASE \/ \E r \in Requests : Arrive(r)
             \/ RefuseTokenize \/ Tokenize \/ AnswerRerank \/ Done
    <3>1. answer'.status \in {"empty", "none", "bad request", "counted", "ok"}
      BY <2>5, StatusesOf
    <3>2. QED
      BY <1>2, <3>1
  <2>6. QED
    BY <2>1, <2>2, <2>3, <2>4, <2>5
       DEF ShapesNext, Serve, PrepareEmbed, PrepareRerank, Engage, RunChunk, RerankRunShort,
           Returned
<1>3. QED
  BY <1>1, <1>2 DEF FirstRunsAreAbsorbed

\* When the runs are through and gave a row for every input, the rows that
\* positions names are those of the texts, in the order of the texts.
LEMMA RowsComeBack ==
    ASSUME RequestTyped, PassIsLayout, RowsFollow, progress = "returned", strayed = 0
    PROVE  /\ DOMAIN pass.positions = 1..Len(req.texts) /\ DOMAIN req.texts = 1..Len(req.texts)
           /\ Len(req.texts) \in Nat
           /\ Len(rows) = Len(pass.layout)
           /\ \A i \in DOMAIN req.texts : /\ pass.positions[i] \in 1..Len(rows)
                                          /\ rows[pass.positions[i]] = Row(i)
                                          /\ req.texts[i] \in Nat
<1>1. /\ DOMAIN rows = 1..Len(rows) /\ Len(rows) \in Nat
      /\ DOMAIN req.texts = 1..Len(req.texts) /\ Len(req.texts) \in Nat
  BY TextsAreSequences, LenProperties DEF RequestTyped
<1>2. Len(rows) = Len(pass.layout)
  BY <1>1 DEF RowsFollow, Reached
<1>3. /\ pass.positions \in [1..Len(req.texts) -> 1..Len(pass.layout)]
      /\ \A i \in 1..Len(req.texts) : pass.layout[pass.positions[i]] = i
  BY PassHolds DEF Handed
<1>4. \A k \in DOMAIN rows : rows[k] = Row(pass.layout[k]) /\ TokensOf(pass.layout[k]) \in Nat
  BY DEF RowsFollow, Handed
<1>5. ASSUME NEW i \in 1..Len(req.texts)
      PROVE  /\ pass.positions[i] \in 1..Len(rows)
             /\ rows[pass.positions[i]] = Row(i)
             /\ req.texts[i] \in Nat
  <2>1. pass.positions[i] \in DOMAIN rows /\ pass.layout[pass.positions[i]] = i
    BY <1>1, <1>2, <1>3
  <2>2. rows[pass.positions[i]] = Row(i) /\ TokensOf(i) \in Nat
    BY <1>4, <2>1
  <2>3. TokensOf(i) = req.texts[i]
    BY <1>1 DEF TokensOf, Ruler
  <2>4. QED
    BY <1>1, <2>1, <2>2, <2>3
<1>6. QED
  BY <1>1, <1>2, <1>3, <1>5

LEMMA AnswerStep ==
    ASSUME ShapesIInv, ShapesNext
    PROVE  AnswerTells'
<1>1. /\ RequestTyped /\ PassIsLayout /\ RowsFollow /\ AnswerTells
      /\ UNCHANGED settings
  BY SettingsStay DEF ShapesIInv
<1>2. CASE Done
  <2>1. answer'.status = "none"
    BY <1>2, StatusesOf
  <2>2. QED
    BY <2>1 DEF AnswerTells
<1>3. CASE PrepareEmbed \/ PrepareRerank \/ Engage \/ RunChunk \/ RerankRunShort \/ Returned
  <2>1. answer' = answer /\ progress # "answered"
    BY <1>3 DEF PrepareEmbed, PrepareRerank, Engage, RunChunk, RerankRunShort, Returned, Runs
  <2>2. answer.status = "none"
    BY <1>1, <2>1 DEF AnswerTells
  <2>3. QED
    BY <2>1, <2>2 DEF AnswerTells
<1>4. ASSUME NEW r \in Requests, Arrive(r) PROVE AnswerTells'
  <2>1. \/ answer'.status = "none"
        \/ answer'.status = "empty" /\ progress' = "answered"
    BY <1>4 DEF Arrive, Respond, NoAnswer
  <2>2. QED
    BY <2>1 DEF AnswerTells
<1>5. CASE RefuseTokenize \/ Tokenize
  <2>1. answer'.status \in {"bad request", "counted"} /\ progress' = "answered"
    BY <1>5, StatusesOf DEF RefuseTokenize, Tokenize, Respond
  <2>2. QED
    BY <2>1 DEF AnswerTells
<1>6. CASE EmbedRunShort \/ EncodeFails
  <2>1. \/ answer' = answer /\ progress # "answered"
        \/ answer'.status = "error" /\ progress' = "answered"
    <3>1. progress = "running"
      BY <1>6 DEF EmbedRunShort, EncodeFails, Runs
    <3>2. answer' = answer \/ Fails
      BY <1>6 DEF EmbedRunShort, EncodeFails, Rejected
    <3>3. Fails => answer'.status = "error" /\ progress' = "answered"
      BY DEF Fails, Respond
    <3>4. QED
      BY <3>1, <3>2, <3>3
  <2>2. QED
    BY <1>1, <2>1 DEF AnswerTells
<1>7. CASE AnswerEmbed
  <2>1. progress = "returned" /\ req.route = "embed" /\ UNCHANGED <<req, pass>>
        /\ strayed = 0 /\ progress' = "answered"
    BY <1>1, <1>7 DEF AnswerEmbed, RowsFollow, work, Respond, Fails
  <2>2. CASE Covers(rows)
    <3> DEFINE back == Unpinned(rows)
               n == Len(req.texts)
    <3>1. answer' = [status |-> "ok", rows |-> back, usage |-> usage]
      BY <1>7, <2>2 DEF AnswerEmbed, Respond
    <3>2. back = [i \in 1..n |-> rows[pass.positions[i]]]
      BY <1>1, <2>1, RowsComeBack DEF Unpinned
    <3>3. back \in [1..n -> {Row(i) : i \in 1..n}]
      BY <1>1, <2>1, <3>2, RowsComeBack
    <3>4. \A i \in 1..n : back[i] = Row(i)
      BY <1>1, <2>1, <3>2, RowsComeBack
    <3>5. n \in Nat /\ DOMAIN req.texts = 1..n /\ \A i \in 1..n : req.texts[i] \in Nat
      BY <1>1, <2>1, RowsComeBack
    <3> HIDE DEF back
    <3>6. Len(back) = n
      BY <3>3, <3>5, FunctionIsSequence
    <3>7. usage = Counts(req.texts, pass.cap)
      BY <1>1, <2>1 DEF PassIsLayout, Handed
    <3>8. /\ \A k : Row(k)' = Row(k)
          /\ Counts(req.texts, pass.cap)' = Counts(req.texts, pass.cap)
      BY <1>1, <2>1, LayoutsStay DEF Row, TokensOf
    <3>9. answer'.status = "ok" /\ answer'.rows = back /\ answer'.usage = usage
      BY <3>1
    <3>10. /\ Len(answer'.rows) = Len(req'.texts)
           /\ \A i \in DOMAIN req'.texts : answer'.rows[i] = Row(i)' /\ req'.texts[i] \in Nat
      BY <2>1, <3>4, <3>5, <3>6, <3>8, <3>9
    <3>11. answer'.usage = Counts(req.texts, pass.cap)'
      BY <3>7, <3>8, <3>9
    <3>12. QED
      BY <2>1, <3>9, <3>10, <3>11 DEF AnswerTells
  <2>3. CASE ~Covers(rows)
    <3>1. answer'.status = "error"
      BY <1>7, <2>3 DEF AnswerEmbed, Fails, Respond
    <3>2. QED
      BY <2>1, <3>1 DEF AnswerTells
  <2>4. QED
    BY <2>2, <2>3
<1>8. CASE AnswerRerank
  <2>1. progress = "returned" /\ req.route = "rerank" /\ UNCHANGED <<req, pass, strayed>>
        /\ progress' = "answered"
    BY <1>8 DEF AnswerRerank, work, Respond
  <2> DEFINE scores == Unpinned(Aligned(Ranked))
  <2>2. answer'.status = "ok" /\ answer'.scores = scores
    BY <1>8 DEF AnswerRerank, Respond
  <2>3. ASSUME strayed = 0, NEW i \in DOMAIN req.texts
        PROVE  scores[i] = Score(Row(i))
    <3>1. /\ i \in DOMAIN pass.positions
          /\ pass.positions[i] \in 1..Len(rows) /\ rows[pass.positions[i]] = Row(i)
          /\ Len(rows) = Len(pass.layout)
      BY <1>1, <2>1, <2>3, RowsComeBack
    <3>2. scores[i] = Aligned(Ranked)[pass.positions[i]]
      BY <3>1 DEF Unpinned
    <3>3. Aligned(Ranked)[pass.positions[i]] = Score(rows[pass.positions[i]])
      BY <1>1, <3>1, AlignmentFinds DEF RequestTyped
    <3>4. QED
      BY <3>1, <3>2, <3>3
  <2> HIDE DEF scores
  <2>4. \A k : Row(k)' = Row(k)
    BY <2>1 DEF Row, TokensOf
  <2>5. QED
    BY <2>1, <2>2, <2>3, <2>4 DEF AnswerTells
<1>9. QED
  BY <1>2, <1>3, <1>4, <1>5, <1>6, <1>7, <1>8 DEF ShapesNext, Serve

LEMMA ShapesStart == ShapesInit => ShapesIInv
<1> SUFFICES ASSUME ShapesInit PROVE ShapesIInv
  OBVIOUS
<1>1. /\ pass.layout = << >> /\ pass.cap = 0 /\ rows = << >> /\ strayed = 0
      /\ progress = "idle" /\ answer.status = "none" /\ bad = [e \in Sessions |-> 0]
  BY DEF ShapesInit, NoPass, NoAnswer
<1>2. RequestTyped
  <2>1. req.route \in Routes /\ req.texts = << >> /\ req.length \in Nat /\ req.batch \in Nat
    BY DEF ShapesInit, Routes
  <2>2. bad \in [Sessions -> 0..MaxBad]
    BY <1>1, RequestShapesAssumption
  <2>3. /\ migraphx \in BOOLEAN /\ setting \in {"auto", "on", "off"} /\ counter \in BOOLEAN
        /\ resident = 0 /\ loaded \in BOOLEAN /\ progress \in Progress
        /\ attempt \in 0..SettleAttempts
    <3>1. migraphx \in BOOLEAN /\ setting \in {"auto", "on", "off"} /\ counter \in BOOLEAN
          /\ resident = 0 /\ loaded = FALSE /\ attempt = 0
      BY ZenonT(20) DEF ShapesInit
    <3>2. progress \in Progress
      BY <1>1 DEF Progress
    <3>3. attempt \in 0..SettleAttempts
      BY <3>1 DEF SettleAttempts
    <3>4. QED
      BY <3>1, <3>2, <3>3
  <2>4. req.texts \in Texts /\ pass.layout \in Seq(Nat) /\ rows \in Seq([text : Nat, seen : Nat])
    BY <1>1, <2>1, NothingToHand
  <2>5. QED
    BY <1>1, <2>1, <2>2, <2>3, <2>4 DEF RequestTyped
<1>3. PassIsLayout /\ RetriesArePaid
  BY <1>1 DEF PassIsLayout, Handed, RetriesArePaid
<1>4. RowsFollow
  <2>1. Reached = Len(<< >>) + 0
    BY <1>1 DEF Reached
  <2>2. QED
    BY <1>1, <2>1, NothingToHand DEF RowsFollow, Handed
<1>5. AnswerTells
  BY <1>1 DEF AnswerTells
<1>6. QED
  BY <1>2, <1>3, <1>4, <1>5 DEF ShapesIInv

LEMMA ShapesStay == ShapesIInv /\ UNCHANGED shapesVars => ShapesIInv'
<1> SUFFICES ASSUME ShapesIInv, UNCHANGED shapesVars PROVE ShapesIInv'
  OBVIOUS
<1>1. UNCHANGED <<settings, migraphx, setting, counter, resident, loaded, bad, progress, req, pass,
                  usage, attempt, rows, strayed, answer>>
  BY DEF shapesVars, settings, sessions, work
<1>2. /\ Reached' = Reached /\ Handed' = Handed
      /\ \A k : Row(k)' = Row(k) /\ TokensOf(k)' = TokensOf(k)
  BY <1>1 DEF Reached, Handed, Row, TokensOf
<1>3. RequestTyped'
  BY <1>1 DEF ShapesIInv, RequestTyped
<1>4. PassIsLayout'
  BY <1>1, <1>2, LayoutsStay DEF ShapesIInv, PassIsLayout, Batch
<1>5. RowsFollow' /\ RetriesArePaid'
  <2>1. RowsFollow'
    BY <1>1, <1>2 DEF ShapesIInv, RowsFollow
  <2>2. ShouldPin' = ShouldPin
    BY <1>1, LayoutsStay
  <2>3. RetriesArePaid'
    BY <1>1, <2>2 DEF ShapesIInv, RetriesArePaid
  <2>4. QED
    BY <2>1, <2>3
<1>6. AnswerTells'
  BY <1>1, <1>2, LayoutsStay DEF ShapesIInv, AnswerTells
<1>7. QED
  BY <1>3, <1>4, <1>5, <1>6 DEF ShapesIInv

\* The inductive invariant of a request on its way to the model and back.
THEOREM ShapesInductive == ShapesSpec => []ShapesIInv
<1>1. ShapesIInv /\ [ShapesNext]_shapesVars => ShapesIInv'
  BY RequestTypedStep, PassStep, RowsStep, RetriesStep, AnswerStep, ShapesStay DEF ShapesIInv
<1>2. QED
  BY <1>1, ShapesStart, PTL DEF ShapesSpec

\* Through limits, pinning, runs, retries and the ranking, what is kept of a
\* request has its type.
THEOREM ShapesTyped == ShapesSpec => []ShapesTypeOK
<1>1. ShapesIInv => ShapesTypeOK
  <2> SUFFICES ASSUME ShapesIInv PROVE ShapesTypeOK
    OBVIOUS
  <2>1. Len(rows) <= Len(pass.layout)
    <3>1. Len(rows) \in Nat /\ strayed \in Nat /\ Len(pass.layout) \in Nat
          /\ Reached <= Len(pass.layout)
      BY LenProperties DEF ShapesIInv, RequestTyped, RowsFollow
    <3>2. QED
      BY <3>1 DEF Reached
  <2>2. QED
    BY <2>1 DEF ShapesIInv, RequestTyped, AnswerTells, ShapesTypeOK
<1>2. QED
  BY <1>1, ShapesInductive, PTL

\* For every number of texts, every batch and every cap: the rows of an
\* embedding answer are those of the texts, in their order, whatever the layout
\* had between them and however often it was run (pin_shape, unpin_rows,
\* embed_settling).
THEOREM EveryTextHasItsRow == ShapesSpec => []EveryTextItsOwnRow
<1>1. ShapesIInv => EveryTextItsOwnRow
  <2>1. \A i : Row(i).text = i
    BY DEF Row
  <2>2. QED
    BY <2>1 DEF ShapesIInv, AnswerTells, EveryTextItsOwnRow
<1>2. QED
  BY <1>1, ShapesInductive, PTL

\* What the accounting says of a text is what the model saw of it, at the cap
\* the pass ran at (count_tokens, usage_from_counts, cap_for).
THEOREM AccountingHolds == ShapesSpec => []AccountingIsTrue
<1>1. ShapesIInv => AccountingIsTrue
  <2> SUFFICES ASSUME ShapesIInv, answer.status = "ok", req.route = "embed",
                      answer.usage # Unmeasured, NEW i \in DOMAIN req.texts
               PROVE  answer.usage.truncated[i] <=> answer.rows[i].seen < req.texts[i]
    BY DEF AccountingIsTrue
  <2>1. /\ answer.rows[i] = Row(i) /\ req.texts[i] \in Nat
        /\ answer.usage = Counts(req.texts, pass.cap) /\ pass.cap \in Nat
    BY DEF ShapesIInv, AnswerTells, RequestTyped
  <2>2. answer.usage.truncated[i] <=> req.texts[i] > pass.cap
    <3>1. answer.usage = [counts |-> req.texts,
                          truncated |-> [j \in DOMAIN req.texts |-> req.texts[j] > pass.cap],
                          cap |-> pass.cap]
      BY <2>1 DEF Counts
    <3>2. answer.usage.truncated = [j \in DOMAIN req.texts |-> req.texts[j] > pass.cap]
      BY <3>1
    <3>3. answer.usage.truncated[i] = (req.texts[i] > pass.cap)
      BY <3>2, ZenonT(20)
    <3>4. QED
      BY <3>3, ZenonT(20)
  <2>3. i # Ruler
    BY TextsAreSequences DEF ShapesIInv, RequestTyped, Ruler
  <2>4. Row(i).seen = Smaller(req.texts[i], pass.cap)
    BY <2>3 DEF Row, TokensOf
  <2>5. QED
    BY <2>1, <2>2, <2>4 DEF Smaller
<1>2. QED
  BY <1>1, ShapesInductive, PTL

\* Where retries are allowed, a request whose texts can be encoded is not lost
\* to the bad runs of a session, as long as a session has fewer of them in it
\* than embed_settling allows runs; with more of them the code gives up.
THEOREM FirstRunsCostNothing ==
    MaxBad < SettleAttempts => (ShapesSpec => []FirstRunsAreAbsorbed)
<1> SUFFICES ASSUME MaxBad < SettleAttempts PROVE ShapesSpec => []FirstRunsAreAbsorbed
  OBVIOUS
<1>1. ShapesInit => FirstRunsAreAbsorbed
  BY DEF ShapesInit, NoAnswer, FirstRunsAreAbsorbed
<1>2. ShapesIInv /\ FirstRunsAreAbsorbed /\ [ShapesNext]_shapesVars => FirstRunsAreAbsorbed'
  <2> SUFFICES ASSUME ShapesIInv, FirstRunsAreAbsorbed, [ShapesNext]_shapesVars
               PROVE  FirstRunsAreAbsorbed'
    OBVIOUS
  <2>1. CASE ShapesNext
    BY <2>1, ErrorsHaveACause
  <2>2. CASE UNCHANGED shapesVars
    BY <2>2, LayoutsStay DEF shapesVars, settings, FirstRunsAreAbsorbed
  <2>3. QED
    BY <2>1, <2>2
<1>3. QED
  BY <1>1, <1>2, ShapesInductive, PTL DEF ShapesSpec

\* When the reranker gave a row for every input, each document is scored by its
\* own row, wherever its score ranks and wherever the layout had put it (rerank,
\* aligned_scores, score_documents).
THEOREM EveryDocumentHasItsScore == ShapesSpec => []EveryDocumentItsScore
<1>1. ShapesIInv => EveryDocumentItsScore
  <2> SUFFICES ASSUME ShapesIInv, answer.status = "ok", req.route = "rerank", strayed = 0,
                      NEW i \in DOMAIN req.texts
               PROVE  answer.scores[i]
                        = Score([text |-> i, seen |-> Smaller(req.texts[i], pass.cap)])
    BY DEF EveryDocumentItsScore
  <2>1. i # Ruler
    BY TextsAreSequences DEF ShapesIInv, RequestTyped, Ruler
  <2>2. Row(i) = [text |-> i, seen |-> Smaller(req.texts[i], pass.cap)]
    BY <2>1 DEF Row, TokensOf
  <2>3. QED
    BY <2>2 DEF ShapesIInv, AnswerTells
<1>2. QED
  BY <1>1, ShapesInductive, PTL
=============================================================================
