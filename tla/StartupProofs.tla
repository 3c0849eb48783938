---------------------------- MODULE StartupProofs ----------------------------
(* The start of sidecars that share a model cache, for any number of them    *)
(* and of files, files of any size, and any number of starts and errors.     *)
EXTENDS Startup, SequenceTheorems, TLAPS

LEMMA Constants ==
    /\ Tokenizer \in Files /\ NoFile \notin Files /\ NoFile \notin Seq(Blocks)
    /\ Size \in Nat /\ Size >= 1 /\ MaxBoots \in Nat /\ MaxFaults \in Nat
    /\ "good" \in Blocks /\ "hole" \in Blocks
BY StartupAssumption DEF Blocks

LEMMA PointsOfMain ==
    /\ \A p \in Points : After(p) \in Points
    /\ "off" \in Points /\ "serving" \in Points /\ "dylib" \in Points
    /\ \A p \in Points : (After(p) = "seeding") <=> (p = "mxr")
    /\ \A p \in Points : (After(p) \in {"provider", "tokenizers"}) <=> (p \in {"seeding", "provider"})
    /\ \A p \in Points : After(p) \in {"threads", "bind", "serving"}
                           => p \in {"tokenizers", "threads", "bind", "serving", "off"}
    /\ \A p \in Points : After(p) \in {"dylib", "mxr"} => p = "dylib"
BY DEF Points, Checks, After

LEMMA RangeIsSeq ==
    ASSUME NEW n \in Nat, NEW S, NEW f \in [1 .. n -> S]
    PROVE  f \in Seq(S) /\ Len(f) = n
<1>1. f \in Seq(S)
  BY SeqDef
<1>2. Len(f) \in Nat /\ 1 .. Len(f) = 1 .. n
  BY <1>1, LenProperties
<1> QED BY <1>1, <1>2

\* A file is whole when it is as long as its source and good all along.
LEMMA WholeIffLong ==
    ASSUME TypeOK, NEW f \in Files
    PROVE  /\ Whole(f) => SameSize(f) /\ cache[f] # NoFile /\ Len(cache[f]) = Size
           /\ SameSize(f) /\ (\A i \in 1 .. Len(cache[f]) : cache[f][i] = "good") => Whole(f)
<1> DEFINE whole == [i \in 1 .. Size |-> "good"]
<1>1. whole \in [1 .. Size -> Blocks]
  BY Constants
<1>2. whole \in Seq(Blocks) /\ Len(whole) = Size
  BY <1>1, RangeIsSeq, Constants
<1>3. \A i \in 1 .. Size : whole[i] = "good"
  OBVIOUS
<1> HIDE DEF whole
<1>4. Whole(f) <=> cache[f] = whole
  BY DEF Whole, whole
<1>5. cache[f] \in Seq(Blocks) \cup {NoFile}
  BY DEF TypeOK
<1>6. Whole(f) => SameSize(f) /\ cache[f] # NoFile /\ Len(cache[f]) = Size
  BY <1>2, <1>4, Constants DEF SameSize
<1>7. ASSUME SameSize(f), \A i \in 1 .. Len(cache[f]) : cache[f][i] = "good" PROVE Whole(f)
  <2>1. cache[f] \in Seq(Blocks) /\ Len(cache[f]) = Size
    BY <1>5, <1>7 DEF SameSize
  <2>2. cache[f] = whole
    BY <2>1, <1>2, <1>3, <1>7, SeqEqual
  <2> QED BY <2>2, <1>4
<1> QED BY <1>6, <1>7

LEMMA LongIsWhole ==
    ASSUME IInv, NEW f \in Files, SameSize(f)
    PROVE  Whole(f) \/ f \in crossed
BY WholeIffLong DEF IInv, GoodSoFar, SameSize

\* What a block that is written makes of a file.
LEMMA WritingAt ==
    ASSUME NEW blocks \in Seq(Blocks), NEW at \in Nat
    PROVE  /\ Written(blocks, at) \in Seq(Blocks)
           /\ Len(blocks) <= at => Len(Written(blocks, at)) = at + 1
           /\ (Len(blocks) = at /\ \A i \in 1 .. Len(blocks) : blocks[i] = "good")
                => \A i \in 1 .. at + 1 : Written(blocks, at)[i] = "good"
<1> DEFINE n == IF Len(blocks) > at THEN Len(blocks) ELSE at + 1
<1>1. Len(blocks) \in Nat /\ n \in Nat
  BY LenProperties
<1>2. \A i \in 1 .. Len(blocks) : blocks[i] \in Blocks
  BY ElementOfSeq
<1>3. Written(blocks, at) \in [1 .. n -> Blocks]
  BY <1>1, <1>2, Constants DEF Written
<1>4. Written(blocks, at) \in Seq(Blocks) /\ Len(Written(blocks, at)) = n
  BY <1>1, <1>3, RangeIsSeq
<1>5. Len(blocks) <= at => n = at + 1
  BY <1>1
<1>6. ASSUME Len(blocks) = at, \A i \in 1 .. Len(blocks) : blocks[i] = "good",
             NEW i \in 1 .. at + 1
      PROVE  Written(blocks, at)[i] = "good"
  BY <1>1, <1>6 DEF Written
<1> QED BY <1>4, <1>5, <1>6

LEMMA InitEstablishes == Init => IInv
<1> SUFFICES ASSUME Init PROVE IInv
  OBVIOUS
<1> USE Constants
<1>1. TypeOK
  BY PointsOfMain DEF Init, TypeOK
<1>2. CopyingIsSeeding /\ OneCopier /\ GoodSoFar /\ OpenIsThere
  BY DEF Init, CopyingIsSeeding, OneCopier, GoodSoFar, OpenIsThere
<1>3. Alone /\ CutIsWanting /\ ListIsFull /\ PassedIsWhole /\ ReadIsKept
  BY DEF Init, Alone, CutIsWanting, ListIsFull, PassedIsWhole, ReadIsKept
<1> QED BY <1>1, <1>2, <1>3 DEF IInv

-----------------------------------------------------------------------------
\* Files that are not touched, by starts that go on with a copy or drop it.
LEMMA FilesAreKept ==
    ASSUME IInv, UNCHANGED <<cache, crossed>>,
           \A t \in Sidecars : \/ copying'[t] = copying[t] /\ offset'[t] = offset[t]
                               \/ copying'[t] = NoFile /\ offset'[t] = -1
    PROVE  OneCopier' /\ GoodSoFar' /\ OpenIsThere'
<1>1. OneCopier'
  BY DEF IInv, OneCopier
<1>2. OpenIsThere'
  BY DEF IInv, OpenIsThere
<1>3. ASSUME NEW f \in Files \ crossed, cache[f] # NoFile
      PROVE  /\ Len(cache[f]) <= Size
             /\ \A i \in 1 .. Len(cache[f]) : cache[f][i] = "good"
             /\ \A t \in Sidecars : copying'[t] = f /\ offset'[t] # -1 => Len(cache[f]) = offset'[t]
  BY <1>3 DEF IInv, GoodSoFar
<1>4. GoodSoFar'
  BY <1>3 DEF GoodSoFar
<1> QED BY <1>1, <1>2, <1>4

LEMMA GoneKeeps ==
    ASSUME IInv, NEW s \in Sidecars, Gone(s),
           UNCHANGED <<refuses, seeds, counts, cache, boots, faults, crossed, marred>>
    PROVE  IInv'
<1> USE Constants
<1>0. /\ pc'[s] = "off" /\ todo'[s] = {} /\ copying'[s] = NoFile /\ offset'[s] = -1
      /\ \A t \in Sidecars \ {s} : /\ pc'[t] = pc[t] /\ todo'[t] = todo[t]
                                   /\ copying'[t] = copying[t] /\ offset'[t] = offset[t]
  BY DEF IInv, TypeOK, Gone
<1>1. TypeOK'
  BY PointsOfMain DEF IInv, TypeOK, Gone
<1>2. OneCopier' /\ GoodSoFar' /\ OpenIsThere'
  BY <1>0, FilesAreKept
<1>3. CopyingIsSeeding' /\ Alone'
  BY <1>0 DEF IInv, CopyingIsSeeding, Alone, Seeding
<1>4. CutIsWanting' /\ ListIsFull'
  BY <1>0 DEF IInv, CutIsWanting, ListIsFull, SameSize
<1>5. PassedIsWhole' /\ ReadIsKept'
  BY <1>0 DEF IInv, PassedIsWhole, ReadIsKept, Whole
<1> QED BY <1>1, <1>2, <1>3, <1>4, <1>5 DEF IInv

LEMMA BootKeeps == ASSUME IInv, NEW s \in Sidecars, Boot(s) PROVE IInv'
<1> USE Constants
<1> PICK some \in {{}} \cup { {c} : c \in Checks }, set \in BOOLEAN :
      /\ refuses' = [refuses EXCEPT ![s] = some]
      /\ seeds' = [seeds EXCEPT ![s] = set]
      /\ todo' = [todo EXCEPT ![s] = IF set THEN Files ELSE {}]
  BY DEF Boot
<1>0. /\ pc'[s] = "dylib" /\ todo'[s] = (IF set THEN Files ELSE {}) /\ seeds'[s] = set
      /\ marred'[s] = FALSE /\ counts'[s] = FALSE /\ copying[s] = NoFile
      /\ \A t \in Sidecars \ {s} : /\ pc'[t] = pc[t] /\ todo'[t] = todo[t] /\ seeds'[t] = seeds[t]
                                   /\ marred'[t] = marred[t] /\ counts'[t] = counts[t]
  BY DEF IInv, TypeOK, Boot, CopyingIsSeeding, Seeding
<1>1. TypeOK'
  <2>1. pc' \in [Sidecars -> Points] /\ boots' \in 0 .. MaxBoots
    BY PointsOfMain DEF IInv, TypeOK, Boot
  <2>2. refuses' \in [Sidecars -> SUBSET Checks] /\ seeds' \in [Sidecars -> BOOLEAN]
    BY DEF IInv, TypeOK
  <2>3. todo' \in [Sidecars -> SUBSET Files]
    BY DEF IInv, TypeOK
  <2>4. counts' \in [Sidecars -> BOOLEAN] /\ marred' \in [Sidecars -> BOOLEAN]
    BY DEF IInv, TypeOK, Boot
  <2> QED BY <2>1, <2>2, <2>3, <2>4 DEF IInv, TypeOK, Boot
<1>2. OneCopier' /\ GoodSoFar' /\ OpenIsThere'
  BY FilesAreKept DEF Boot
<1>3. CopyingIsSeeding' /\ Alone'
  BY <1>0 DEF IInv, Boot, CopyingIsSeeding, Alone, Seeding
<1>4. CutIsWanting' /\ ListIsFull'
  BY <1>0 DEF IInv, Boot, CutIsWanting, ListIsFull, SameSize
<1>5. PassedIsWhole' /\ ReadIsKept'
  BY <1>0 DEF IInv, Boot, PassedIsWhole, ReadIsKept, Whole
<1> QED BY <1>1, <1>2, <1>3, <1>4, <1>5 DEF IInv

LEMMA PassedKeeps == ASSUME IInv, NEW s \in Sidecars, Passed(s) PROVE IInv'
<1> USE Constants
<1>0. /\ pc'[s] = After(pc[s]) /\ \A t \in Sidecars \ {s} : pc'[t] = pc[t]
      /\ pc[s] \in {"dylib", "mxr", "provider"} /\ copying[s] = NoFile
  BY DEF IInv, TypeOK, Passed, GoOn, Checks, CopyingIsSeeding, Seeding
<1>m. \A t \in Sidecars : marred[t] => marred'[t]
  BY DEF IInv, TypeOK, Passed
<1>s. ASSUME pc[s] = "mxr"
      PROVE  /\ ~marred'[s] => \A u \in Sidecars : ~Seeding(u)
             /\ \A t \in Sidecars \ {s} : pc[t] \in {"seeding", "provider", "tokenizers"} => marred'[t]
  BY <1>s DEF Passed, After
<1>1. TypeOK'
  <2>1. pc' \in [Sidecars -> Points]
    BY PointsOfMain DEF IInv, TypeOK, Passed, GoOn
  <2>2. marred' \in [Sidecars -> BOOLEAN]
    BY DEF IInv, TypeOK, Passed
  <2> QED BY <2>1, <2>2 DEF IInv, TypeOK, Passed
<1>2. OneCopier' /\ GoodSoFar' /\ OpenIsThere'
  BY FilesAreKept DEF Passed
<1>a. CASE pc[s] = "dylib"
  <2>1. pc'[s] = "mxr" /\ marred' = marred
    BY <1>0, <1>a DEF Passed, After
  <2>2. CopyingIsSeeding' /\ Alone' /\ CutIsWanting'
    BY <1>0, <1>a, <2>1 DEF IInv, Passed, CopyingIsSeeding, Alone, Seeding, CutIsWanting, SameSize
  <2>3. ListIsFull' /\ PassedIsWhole' /\ ReadIsKept'
    BY <1>0, <1>a, <2>1 DEF IInv, Passed, ListIsFull, PassedIsWhole, ReadIsKept, Whole
  <2> QED BY <1>1, <1>2, <2>2, <2>3 DEF IInv
<1>b. CASE pc[s] = "mxr"
  <2>1. pc'[s] = "seeding"
    BY <1>0, <1>b DEF After
  <2>2. CopyingIsSeeding'
    BY <1>0, <1>b, <2>1 DEF IInv, Passed, CopyingIsSeeding, Seeding
  <2>3. Alone'
    BY <1>0, <1>b, <1>m, <1>s, <2>1 DEF IInv, Alone, Seeding
  <2>4. CutIsWanting' /\ ListIsFull' /\ ReadIsKept'
    BY <1>0, <1>b, <1>m, <2>1 DEF IInv, Passed, CutIsWanting, SameSize, ListIsFull, ReadIsKept
  <2>5. PassedIsWhole'
    <3> SUFFICES ASSUME NEW t \in Sidecars, seeds[t], ~marred'[t],
                        pc'[t] \in {"seeding", "provider", "tokenizers"}, NEW f \in Files
                 PROVE  f \in todo[t] \/ copying[t] = f \/ Whole(f) \/ f \in crossed
      BY DEF PassedIsWhole, Passed, Whole
    <3>1. CASE t = s
      BY <3>1, <1>b, <1>m DEF IInv, ListIsFull
    <3>2. CASE t # s
      BY <3>2, <1>0, <1>m DEF IInv, PassedIsWhole
    <3> QED BY <3>1, <3>2
  <2> QED BY <1>1, <1>2, <2>2, <2>3, <2>4, <2>5 DEF IInv
<1>c. CASE pc[s] = "provider"
  <2>1. pc'[s] = "tokenizers" /\ marred' = marred
    BY <1>0, <1>c DEF Passed, After
  <2>2. CopyingIsSeeding' /\ Alone' /\ CutIsWanting'
    BY <1>0, <1>c, <2>1 DEF IInv, Passed, CopyingIsSeeding, Alone, Seeding, CutIsWanting, SameSize
  <2>3. ListIsFull' /\ PassedIsWhole' /\ ReadIsKept'
    BY <1>0, <1>c, <2>1 DEF IInv, Passed, ListIsFull, PassedIsWhole, ReadIsKept, Whole
  <2> QED BY <1>1, <1>2, <2>2, <2>3 DEF IInv
<1> QED BY <1>0, <1>a, <1>b, <1>c

-----------------------------------------------------------------------------
LEMMA FaultMarks ==
    ASSUME IInv, NEW s \in Sidecars, Fault(s)
    PROVE  /\ marred'[s] /\ marred' \in [Sidecars -> BOOLEAN] /\ faults' \in 0 .. MaxFaults
           /\ \A t \in Sidecars \ {s} : marred'[t] = marred[t]
BY Constants DEF IInv, TypeOK, Fault

LEMMA SeedUnreadableKeeps == ASSUME IInv, NEW s \in Sidecars, SeedUnreadable(s) PROVE IInv'
<1> USE Constants DEF SeedUnreadable
<1>0. /\ todo'[s] = {} /\ \A t \in Sidecars \ {s} : todo'[t] = todo[t]
      /\ Seeding(s) /\ copying[s] = NoFile
  BY DEF IInv, TypeOK
<1>m. /\ marred'[s] /\ marred' \in [Sidecars -> BOOLEAN] /\ faults' \in 0 .. MaxFaults
      /\ \A t \in Sidecars \ {s} : marred'[t] = marred[t]
  BY FaultMarks
<1>1. TypeOK'
  BY <1>m DEF IInv, TypeOK
<1>2. OneCopier' /\ GoodSoFar' /\ OpenIsThere'
  BY FilesAreKept
<1>3. CopyingIsSeeding' /\ Alone'
  BY <1>0, <1>m DEF IInv, CopyingIsSeeding, Alone, Seeding
<1>4. CutIsWanting' /\ ListIsFull'
  BY <1>0, <1>m DEF IInv, CutIsWanting, ListIsFull, SameSize, Seeding
<1>5. PassedIsWhole' /\ ReadIsKept'
  BY <1>0, <1>m DEF IInv, PassedIsWhole, ReadIsKept, Whole, Seeding
<1> QED BY <1>1, <1>2, <1>3, <1>4, <1>5 DEF IInv

LEMMA MeasureKeeps == ASSUME IInv, NEW s \in Sidecars, Measure(s) PROVE IInv'
<1> USE Constants
<1> PICK f \in todo[s], size \in {0, Size} :
      /\ Seeding(s) /\ copying[s] = NoFile
      /\ todo' = [todo EXCEPT ![s] = @ \ {f}]
      /\ IF size = Size THEN UNCHANGED <<faults, marred>> ELSE Fault(s)
      /\ IF UpToDate(f, size)
           THEN UNCHANGED <<copying, crossed>>
           ELSE /\ copying' = [copying EXCEPT ![s] = f]
                /\ crossed' = IF \E t \in Sidecars : copying[t] = f
                                THEN crossed \cup {f} ELSE crossed
      /\ UNCHANGED <<pc, refuses, seeds, offset, counts, cache, boots>>
  BY DEF Measure
<1>0. /\ f \in Files /\ offset[s] = -1
      /\ todo'[s] = todo[s] \ {f} /\ \A t \in Sidecars \ {s} : todo'[t] = todo[t]
  BY DEF IInv, TypeOK, CopyingIsSeeding
<1>c. /\ \A t \in Sidecars \ {s} : copying'[t] = copying[t]
      /\ UpToDate(f, size) => copying'[s] = NoFile /\ crossed' = crossed
      /\ ~UpToDate(f, size) => copying'[s] = f
      /\ crossed \subseteq crossed' /\ crossed' \subseteq crossed \cup {f}
      /\ \A t \in Sidecars : ~UpToDate(f, size) /\ copying[t] = f => f \in crossed'
  BY DEF IInv, TypeOK
<1>m. /\ marred' \in [Sidecars -> BOOLEAN] /\ faults' \in 0 .. MaxFaults
      /\ \A t \in Sidecars \ {s} : marred'[t] = marred[t]
      /\ ~marred'[s] => size = Size /\ ~marred[s]
  BY FaultMarks DEF IInv, TypeOK
<1>1. TypeOK'
  <2>1. todo' \in [Sidecars -> SUBSET Files] /\ copying' \in [Sidecars -> Files \cup {NoFile}]
    <3>1. /\ todo \in [Sidecars -> SUBSET Files] /\ copying \in [Sidecars -> Files \cup {NoFile}]
          /\ todo[s] \ {f} \in SUBSET Files
      BY DEF IInv, TypeOK
    <3>2. /\ todo' = [todo EXCEPT ![s] = todo[s] \ {f}]
          /\ copying' = copying \/ copying' = [copying EXCEPT ![s] = f]
      OBVIOUS
    <3>3. QED
      BY <1>0, <3>1, <3>2
  <2>2. crossed' \subseteq Files
    BY <1>0, <1>c DEF IInv, TypeOK
  <2> QED BY <2>1, <2>2, <1>m DEF IInv, TypeOK
<1>2. OneCopier'
  BY <1>c DEF IInv, OneCopier
<1>3. OpenIsThere'
  <2> SUFFICES ASSUME NEW t \in Sidecars, offset[t] # -1 PROVE cache[copying'[t]] # NoFile
    BY DEF OpenIsThere
  <2> QED BY <1>0, <1>c DEF IInv, OpenIsThere
<1>4. GoodSoFar'
  <2> SUFFICES ASSUME NEW g \in Files \ crossed', cache[g] # NoFile
               PROVE  /\ Len(cache[g]) <= Size
                      /\ \A i \in 1 .. Len(cache[g]) : cache[g][i] = "good"
                      /\ \A t \in Sidecars : copying'[t] = g /\ offset[t] # -1
                                               => Len(cache[g]) = offset[t]
    BY DEF GoodSoFar
  <2>1. g \in Files \ crossed
    BY <1>c
  <2> QED BY <2>1, <1>0, <1>c DEF IInv, GoodSoFar
<1>5. CopyingIsSeeding'
  <2> SUFFICES ASSUME NEW t \in Sidecars
               PROVE  /\ copying'[t] # NoFile => Seeding(t) /\ copying'[t] \notin todo'[t]
                      /\ copying'[t] = NoFile => offset[t] = -1
                      /\ todo'[t] # {} => pc[t] \in {"dylib", "mxr", "seeding"}
    BY DEF CopyingIsSeeding, Seeding
  <2> QED BY <1>0, <1>c DEF IInv, CopyingIsSeeding
<1>6. Alone' /\ ListIsFull'
  BY <1>0, <1>m DEF IInv, Alone, ListIsFull, Seeding
<1>7. CutIsWanting'
  <2> SUFFICES ASSUME NEW t \in Sidecars, copying'[t] # NoFile, offset[t] = -1, ~marred'[t]
               PROVE  ~SameSize(copying'[t]) \/ copying'[t] \in crossed'
    BY DEF CutIsWanting, SameSize
  <2>1. CASE t = s
    BY <2>1, <1>c, <1>m DEF UpToDate, SameSize
  <2>2. CASE t # s
    BY <2>2, <1>c, <1>m DEF IInv, CutIsWanting
  <2> QED BY <2>1, <2>2
<1>8. PassedIsWhole'
  <2> SUFFICES ASSUME NEW t \in Sidecars, seeds[t], ~marred'[t],
                      pc[t] \in {"seeding", "provider", "tokenizers"}, NEW g \in Files,
                      g \notin todo'[t], copying'[t] # g
               PROVE  Whole(g) \/ g \in crossed'
    BY DEF PassedIsWhole, Whole
  <2>1. CASE t # s
    BY <2>1, <1>0, <1>c, <1>m DEF IInv, PassedIsWhole
  <2>2. CASE t = s /\ g # f
    <3>1. copying[s] # g /\ g \notin todo[s] /\ ~marred[s]
      BY <2>2, <1>0, <1>m
    <3> QED BY <2>2, <3>1, <1>c DEF IInv, PassedIsWhole
  <2>3. CASE t = s /\ g = f
    <3>1. SameSize(f)
      BY <2>3, <1>c, <1>m DEF UpToDate, SameSize
    <3> QED BY <2>3, <3>1, <1>0, <1>c, LongIsWhole
  <2> QED BY <2>1, <2>2, <2>3
<1>9. ReadIsKept'
  <2>1. pc[s] \notin {"threads", "bind", "serving"}
    BY DEF Seeding
  <2> QED BY <2>1, <1>c, <1>m DEF IInv, ReadIsKept
<1> QED BY <1>1, <1>2, <1>3, <1>4, <1>5, <1>6, <1>7, <1>8, <1>9 DEF IInv

-----------------------------------------------------------------------------
\* The file g that s copies is written: no unmarred start has passed it.
LEMMA WritingDisturbsNobody ==
    ASSUME IInv, NEW s \in Sidecars, NEW g \in Files, copying[s] = g,
           \A f \in Files \ {g} : cache'[f] = cache[f],
           NEW t \in Sidecars, ~marred[t], pc[t] \in {"seeding", "provider", "tokenizers"},
           NEW f \in Files, copying[t] # f, Whole(f)
    PROVE  Whole(f)'
<1>1. copying[s] # NoFile /\ Seeding(s)
  BY Constants DEF IInv, CopyingIsSeeding
<1>2. t = s
  BY <1>1 DEF IInv, Alone
<1> QED BY <1>2 DEF Whole

LEMMA TruncateKeeps == ASSUME IInv, NEW s \in Sidecars, Truncate(s) PROVE IInv'
<1> USE Constants DEF Truncate
<1> DEFINE g == copying[s]
<1>0. /\ g \in Files /\ cache'[g] = <<>> /\ \A f \in Files \ {g} : cache'[f] = cache[f]
      /\ offset'[s] = 0 /\ \A t \in Sidecars \ {s} : offset'[t] = offset[t]
      /\ Seeding(s)
  BY DEF IInv, TypeOK, CopyingIsSeeding
<1>e. <<>> \in Seq(Blocks) /\ Len(<<>>) = 0
  BY EmptySeq
<1>1. TypeOK'
  <2>1. cache' \in [Files -> Seq(Blocks) \cup {NoFile}]
    BY <1>0, <1>e DEF IInv, TypeOK
  <2>2. offset' \in [Sidecars -> -1 .. Size]
    BY DEF IInv, TypeOK
  <2> QED BY <2>1, <2>2 DEF IInv, TypeOK
<1>2. OneCopier' /\ CopyingIsSeeding' /\ ListIsFull' /\ ReadIsKept' /\ Alone'
  BY DEF IInv, OneCopier, CopyingIsSeeding, ListIsFull, ReadIsKept, Alone, Seeding
<1>3. OpenIsThere'
  <2> SUFFICES ASSUME NEW t \in Sidecars, offset'[t] # -1 PROVE cache'[copying[t]] # NoFile
    BY DEF OpenIsThere
  <2>1. CASE copying[t] = g
    BY <2>1, <1>0, <1>e
  <2>2. CASE copying[t] # g
    <3>1. copying[t] \in Files
      BY <2>2, <1>0 DEF IInv, TypeOK, CopyingIsSeeding
    <3>2. cache[copying[t]] # NoFile
      BY <2>2, <1>0 DEF IInv, OpenIsThere
    <3> QED BY <2>2, <3>1, <3>2, <1>0
  <2> QED BY <2>1, <2>2
<1>4. GoodSoFar'
  <2> SUFFICES ASSUME NEW f \in Files \ crossed, cache'[f] # NoFile
               PROVE  /\ Len(cache'[f]) <= Size
                      /\ \A i \in 1 .. Len(cache'[f]) : cache'[f][i] = "good"
                      /\ \A t \in Sidecars : copying[t] = f /\ offset'[t] # -1
                                               => Len(cache'[f]) = offset'[t]
    BY DEF GoodSoFar
  <2>1. CASE f = g
    <3>1. \A t \in Sidecars \ {s} : copying[t] # f
      BY <2>1, <1>0 DEF IInv, OneCopier
    <3> QED BY <2>1, <3>1, <1>0, <1>e
  <2>2. CASE f # g
    <3>1. cache'[f] = cache[f] /\ copying[s] # f
      BY <2>2, <1>0
    <3> QED BY <3>1, <1>0 DEF IInv, GoodSoFar
  <2> QED BY <2>1, <2>2
<1>5. CutIsWanting'
  <2> SUFFICES ASSUME NEW t \in Sidecars, copying[t] # NoFile, offset'[t] = -1, ~marred[t]
               PROVE  ~SameSize(copying[t])' \/ copying[t] \in crossed
    BY DEF CutIsWanting, SameSize
  <2>1. t # s /\ offset[t] = -1 /\ copying[t] \in Files
    BY <1>0 DEF IInv, TypeOK
  <2>2. copying[t] = g => g \in crossed
    BY <2>1, <1>0 DEF IInv, OneCopier
  <2>3. copying[t] # g => cache'[copying[t]] = cache[copying[t]]
    BY <2>1, <1>0
  <2> QED BY <2>1, <2>2, <2>3 DEF IInv, CutIsWanting, SameSize
<1>6. PassedIsWhole'
  <2> SUFFICES ASSUME NEW t \in Sidecars, seeds[t], ~marred[t],
                      pc[t] \in {"seeding", "provider", "tokenizers"}, NEW f \in Files,
                      f \notin todo[t], copying[t] # f, f \notin crossed
               PROVE  Whole(f)'
    BY DEF PassedIsWhole
  <2>1. Whole(f)
    BY DEF IInv, PassedIsWhole
  <2> QED BY <2>1, <1>0, WritingDisturbsNobody
<1> QED BY <1>1, <1>2, <1>3, <1>4, <1>5, <1>6 DEF IInv

LEMMA WriteBlockKeeps == ASSUME IInv, NEW s \in Sidecars, WriteBlock(s) PROVE IInv'
<1> USE Constants
<1> DEFINE g == copying[s]   o == offset[s]
<1>0. /\ o \in 0 .. Size - 1 /\ o \in Nat /\ g # NoFile /\ g \in Files
      /\ cache[g] # NoFile /\ cache[g] \in Seq(Blocks) /\ Seeding(s)
  BY DEF WriteBlock, IInv, TypeOK, CopyingIsSeeding, OpenIsThere
<1>c. /\ cache'[g] = Written(cache[g], o) /\ \A f \in Files \ {g} : cache'[f] = cache[f]
      /\ cache' \in [Files -> Seq(Blocks) \cup {NoFile}] /\ cache'[g] \in Seq(Blocks)
  <2>1. Written(cache[g], o) \in Seq(Blocks)
    BY <1>0, WritingAt
  <2>2. cache' = [cache EXCEPT ![g] = Written(cache[g], o)]
    BY DEF WriteBlock, WriteAt
  <2> HIDE DEF o
  <2> QED BY <2>1, <2>2, <1>0 DEF IInv, TypeOK
<1>o. /\ offset'[s] = o + 1 /\ \A t \in Sidecars \ {s} : offset'[t] = offset[t]
      /\ offset' \in [Sidecars -> -1 .. Size]
  BY <1>0 DEF WriteBlock, IInv, TypeOK
<1>u. UNCHANGED <<pc, refuses, seeds, todo, copying, counts, boots, faults, crossed, marred>>
  BY DEF WriteBlock
<1>1. TypeOK'
  BY <1>c, <1>o, <1>u DEF IInv, TypeOK
<1>2. OneCopier' /\ ListIsFull' /\ ReadIsKept' /\ Alone'
  BY <1>u DEF IInv, OneCopier, ListIsFull, ReadIsKept, Alone, Seeding
<1>3. CopyingIsSeeding'
  BY <1>0, <1>o, <1>u DEF IInv, CopyingIsSeeding, Seeding
<1>4. OpenIsThere'
  <2> SUFFICES ASSUME NEW t \in Sidecars, offset'[t] # -1 PROVE cache'[copying[t]] # NoFile
    BY <1>u DEF OpenIsThere
  <2>1. CASE copying[t] = g
    BY <2>1, <1>c
  <2>2. CASE copying[t] # g
    <3>1. offset[t] # -1 /\ copying[t] \in Files
      BY <2>2, <1>o DEF IInv, TypeOK, CopyingIsSeeding
    <3> QED BY <2>2, <3>1, <1>c DEF IInv, OpenIsThere
  <2> QED BY <2>1, <2>2
<1>5. GoodSoFar'
  <2> SUFFICES ASSUME NEW f \in Files \ crossed, cache'[f] # NoFile
               PROVE  /\ Len(cache'[f]) <= Size
                      /\ \A i \in 1 .. Len(cache'[f]) : cache'[f][i] = "good"
                      /\ \A t \in Sidecars : copying[t] = f /\ offset'[t] # -1
                                               => Len(cache'[f]) = offset'[t]
    BY <1>u DEF GoodSoFar
  <2>1. CASE f = g
    <3>1. \A t \in Sidecars \ {s} : copying[t] # f
      BY <2>1, <1>0 DEF IInv, OneCopier
    <3>2. Len(cache[g]) = o /\ \A i \in 1 .. Len(cache[g]) : cache[g][i] = "good"
      BY <2>1, <1>0 DEF IInv, GoodSoFar
    <3>w. /\ Len(cache[g]) <= o => Len(Written(cache[g], o)) = o + 1
          /\ (Len(cache[g]) = o /\ \A i \in 1 .. Len(cache[g]) : cache[g][i] = "good")
               => \A i \in 1 .. o + 1 : Written(cache[g], o)[i] = "good"
      BY <1>0, WritingAt
    <3>l. Len(cache[g]) <= o
      BY <3>2, <1>0
    <3>3. Len(cache'[g]) = o + 1 /\ \A i \in 1 .. o + 1 : cache'[g][i] = "good"
      BY ONLY <3>2, <3>l, <3>w, <1>c
    <3> QED BY <2>1, <3>1, <3>3, <1>0, <1>o
  <2>2. CASE f # g
    <3>1. cache'[f] = cache[f] /\ copying[s] # f
      BY <2>2, <1>c
    <3> QED BY <3>1, <1>o DEF IInv, GoodSoFar
  <2> QED BY <2>1, <2>2
<1>6. CutIsWanting'
  <2> SUFFICES ASSUME NEW t \in Sidecars, copying[t] # NoFile, offset'[t] = -1, ~marred[t]
               PROVE  ~SameSize(copying[t])' \/ copying[t] \in crossed
    BY <1>u DEF CutIsWanting, SameSize
  <2>1. t # s /\ offset[t] = -1 /\ copying[t] \in Files
    BY <1>0, <1>o DEF IInv, TypeOK
  <2>2. copying[t] = g => g \in crossed
    BY <2>1, <1>0 DEF IInv, OneCopier
  <2>3. copying[t] # g => cache'[copying[t]] = cache[copying[t]]
    BY <2>1, <1>c
  <2>4. ~SameSize(copying[t]) \/ copying[t] \in crossed
    BY <2>1 DEF IInv, CutIsWanting
  <2> QED BY <2>2, <2>3, <2>4, <1>u DEF SameSize
<1>7. PassedIsWhole'
  <2> SUFFICES ASSUME NEW t \in Sidecars, seeds[t], ~marred[t],
                      pc[t] \in {"seeding", "provider", "tokenizers"}, NEW f \in Files,
                      f \notin todo[t], copying[t] # f, f \notin crossed
               PROVE  Whole(f)'
    BY <1>u DEF PassedIsWhole
  <2>1. Whole(f)
    BY DEF IInv, PassedIsWhole
  <2> QED BY <2>1, <1>0, <1>c, WritingDisturbsNobody
<1> QED BY <1>1, <1>2, <1>3, <1>4, <1>5, <1>6, <1>7 DEF IInv

-----------------------------------------------------------------------------
\* A copy that reached its end left a whole file.
LEMMA CopiedKeeps == ASSUME IInv, NEW s \in Sidecars, Copied(s) PROVE IInv'
<1> USE Constants DEF Copied
<1>0. /\ copying'[s] = NoFile /\ offset'[s] = -1
      /\ \A t \in Sidecars \ {s} : copying'[t] = copying[t] /\ offset'[t] = offset[t]
      /\ copying[s] # NoFile /\ copying[s] \in Files
  BY DEF IInv, TypeOK, CopyingIsSeeding
<1>1. TypeOK'
  BY DEF IInv, TypeOK
<1>2. OneCopier' /\ GoodSoFar' /\ OpenIsThere'
  BY <1>0, FilesAreKept
<1>3. CopyingIsSeeding' /\ Alone' /\ ListIsFull' /\ ReadIsKept'
  BY <1>0 DEF IInv, CopyingIsSeeding, Alone, Seeding, ListIsFull, ReadIsKept
<1>4. CutIsWanting'
  BY <1>0 DEF IInv, CutIsWanting, SameSize
<1>5. Whole(copying[s]) \/ copying[s] \in crossed
  <2>1. SameSize(copying[s]) \/ copying[s] \in crossed
    BY <1>0 DEF IInv, GoodSoFar, OpenIsThere, SameSize
  <2> QED BY <2>1, <1>0, LongIsWhole
<1>6. PassedIsWhole'
  BY <1>0, <1>5 DEF IInv, PassedIsWhole, Whole
<1> QED BY <1>1, <1>2, <1>3, <1>4, <1>6 DEF IInv

LEMMA CopyFailsKeeps == ASSUME IInv, NEW s \in Sidecars, CopyFails(s) PROVE IInv'
<1> USE Constants DEF CopyFails
<1>0. /\ copying'[s] = NoFile /\ offset'[s] = -1
      /\ \A t \in Sidecars \ {s} : copying'[t] = copying[t] /\ offset'[t] = offset[t]
      /\ Seeding(s)
  BY DEF IInv, TypeOK, CopyingIsSeeding
<1>m. /\ marred'[s] /\ marred' \in [Sidecars -> BOOLEAN] /\ faults' \in 0 .. MaxFaults
      /\ \A t \in Sidecars \ {s} : marred'[t] = marred[t]
  BY FaultMarks
<1>1. TypeOK'
  <2>1. copying' \in [Sidecars -> Files \cup {NoFile}] /\ offset' \in [Sidecars -> -1 .. Size]
    BY DEF IInv, TypeOK
  <2> QED BY <2>1, <1>m DEF IInv, TypeOK
<1>2. OneCopier' /\ GoodSoFar' /\ OpenIsThere'
  BY <1>0, FilesAreKept
<1>3. CopyingIsSeeding' /\ Alone'
  BY <1>0, <1>m DEF IInv, CopyingIsSeeding, Alone, Seeding
<1>4. CutIsWanting' /\ ListIsFull' /\ ReadIsKept'
  BY <1>0, <1>m DEF IInv, CutIsWanting, SameSize, ListIsFull, ReadIsKept
<1>5. PassedIsWhole'
  BY <1>0, <1>m DEF IInv, PassedIsWhole, Whole
<1> QED BY <1>1, <1>2, <1>3, <1>4, <1>5 DEF IInv

\* A start that goes on leaves the files and the copies alone.
LEMMA GoingOnKeeps ==
    ASSUME IInv, NEW s \in Sidecars, NEW p \in Points, pc' = [pc EXCEPT ![s] = p],
           UNCHANGED <<refuses, seeds, todo, copying, offset, cache, boots, faults, crossed, marred>>,
           counts' \in [Sidecars -> BOOLEAN], \A t \in Sidecars \ {s} : counts'[t] = counts[t],
           copying[s] = NoFile, todo[s] = {}, p \notin {"dylib", "mxr", "seeding"},
           p \in {"provider", "tokenizers"} => Seeding(s),
           p \in {"threads", "bind", "serving"} /\ seeds[s] /\ ~marred[s]
             => counts'[s] \/ Tokenizer \in crossed
    PROVE  IInv'
<1> USE Constants
<1>0. pc'[s] = p /\ \A t \in Sidecars \ {s} : pc'[t] = pc[t]
  BY DEF IInv, TypeOK
<1>1. TypeOK'
  BY DEF IInv, TypeOK
<1>2. OneCopier' /\ GoodSoFar' /\ OpenIsThere'
  BY FilesAreKept
<1>3. CopyingIsSeeding' /\ Alone'
  BY <1>0 DEF IInv, CopyingIsSeeding, Alone, Seeding
<1>4. CutIsWanting' /\ ListIsFull' /\ ReadIsKept'
  BY <1>0 DEF IInv, CutIsWanting, SameSize, ListIsFull, ReadIsKept
<1>5. PassedIsWhole'
  BY <1>0 DEF IInv, PassedIsWhole, Whole, Seeding
<1> QED BY <1>1, <1>2, <1>3, <1>4, <1>5 DEF IInv

LEMMA SeededKeeps == ASSUME IInv, NEW s \in Sidecars, Seeded(s) PROVE IInv'
<1>1. pc' = [pc EXCEPT ![s] = "provider"] /\ "provider" \in Points
  BY DEF Seeded, GoOn, After, Seeding, Points, Checks
<1>2. counts' \in [Sidecars -> BOOLEAN]
  BY DEF Seeded, IInv, TypeOK
<1> QED BY <1>1, <1>2, GoingOnKeeps DEF Seeded

LEMMA LoadTokenizersKeeps == ASSUME IInv, NEW s \in Sidecars, LoadTokenizers(s) PROVE IInv'
<1>1. pc' = [pc EXCEPT ![s] = "threads"] /\ "threads" \in Points
  BY DEF LoadTokenizers, GoOn, After, Points
<1>2. copying[s] = NoFile /\ todo[s] = {}
  BY DEF LoadTokenizers, IInv, CopyingIsSeeding, Seeding
<1>3. /\ counts' \in [Sidecars -> BOOLEAN] /\ counts'[s] = Whole(Tokenizer)
      /\ \A t \in Sidecars \ {s} : counts'[t] = counts[t]
  <2> DEFINE there == Whole(Tokenizer)
  <2>1. there \in BOOLEAN
    BY DEF Whole
  <2> HIDE DEF there
  <2>2. counts' = [counts EXCEPT ![s] = there]
    BY DEF LoadTokenizers, there
  <2>3. counts' \in [Sidecars -> BOOLEAN] /\ counts'[s] = there
        /\ \A t \in Sidecars \ {s} : counts'[t] = counts[t]
    BY <2>1, <2>2 DEF IInv, TypeOK
  <2> QED BY <2>3 DEF there
<1>4. seeds[s] /\ ~marred[s] => counts'[s] \/ Tokenizer \in crossed
  <2>1. Tokenizer \in Files /\ copying[s] # Tokenizer /\ Tokenizer \notin todo[s]
    BY <1>2, Constants
  <2>2. seeds[s] /\ ~marred[s] => Whole(Tokenizer) \/ Tokenizer \in crossed
    BY <2>1 DEF LoadTokenizers, IInv, PassedIsWhole
  <2> QED BY <1>3, <2>2
<1> HIDE DEF Whole
<1>5. UNCHANGED <<refuses, seeds, todo, copying, offset, cache, boots, faults, crossed, marred>>
  BY DEF LoadTokenizers
<1> QED BY <1>1, <1>2, <1>3, <1>4, <1>5, GoingOnKeeps

\* The steps of main after the tokenizers.
LEMMA LateStepsKeep ==
    ASSUME IInv, NEW s \in Sidecars, SpawnThreads(s) \/ Bind(s)
    PROVE  IInv'
<1>1. PICK p \in {"bind", "serving"} : pc' = [pc EXCEPT ![s] = p]
  BY DEF SpawnThreads, Bind, GoOn, After
<1>2. p \in Points
  BY DEF Points
<1>3. pc[s] \in {"threads", "bind"} /\ copying[s] = NoFile /\ todo[s] = {}
  BY DEF SpawnThreads, Bind, IInv, CopyingIsSeeding, Seeding
<1>4. UNCHANGED <<refuses, seeds, todo, copying, offset, counts, cache, boots, faults,
                  crossed, marred>>
  BY DEF SpawnThreads, Bind
<1>5. seeds[s] /\ ~marred[s] => counts'[s] \/ Tokenizer \in crossed
  BY <1>3, <1>4 DEF IInv, ReadIsKept
<1>6. counts' \in [Sidecars -> BOOLEAN]
  BY <1>4 DEF IInv, TypeOK
<1> QED BY <1>1, <1>2, <1>3, <1>4, <1>5, <1>6, GoingOnKeeps

LEMMA StepKeeps == IInv /\ [Next]_vars => IInv'
<1> SUFFICES ASSUME IInv, [Next]_vars PROVE IInv'
  OBVIOUS
<1>1. ASSUME NEW s \in Sidecars, Boot(s) PROVE IInv'
  BY <1>1, BootKeeps
<1>2. ASSUME NEW s \in Sidecars, Main(s) PROVE IInv'
  <2>1. CASE Refuse(s) \/ WriteReference(s) \/ BindPanics(s)
    BY <2>1, GoneKeeps DEF Refuse, WriteReference, BindPanics
  <2>2. CASE Passed(s)
    BY <2>2, PassedKeeps
  <2>3. CASE SeedUnreadable(s) \/ Measure(s)
    BY <2>3, SeedUnreadableKeeps, MeasureKeeps
  <2>4. CASE Truncate(s) \/ WriteBlock(s)
    BY <2>4, TruncateKeeps, WriteBlockKeeps
  <2>5. CASE Copied(s) \/ CopyFails(s)
    BY <2>5, CopiedKeeps, CopyFailsKeeps
  <2>6. CASE Seeded(s) \/ LoadTokenizers(s) \/ SpawnThreads(s) \/ Bind(s)
    BY <2>6, SeededKeeps, LoadTokenizersKeeps, LateStepsKeep
  <2> QED BY <1>2, <2>1, <2>2, <2>3, <2>4, <2>5, <2>6 DEF Main
<1>3. ASSUME NEW s \in Sidecars, Kill(s) PROVE IInv'
  BY <1>3, GoneKeeps DEF Kill
<1>4. CASE UNCHANGED vars
  <2> USE <1>4 DEF vars
  <2>1. TypeOK' /\ CopyingIsSeeding' /\ OneCopier' /\ GoodSoFar' /\ OpenIsThere'
    BY DEF IInv, TypeOK, CopyingIsSeeding, OneCopier, GoodSoFar, OpenIsThere, Seeding
  <2>2. Alone' /\ CutIsWanting' /\ ListIsFull' /\ PassedIsWhole' /\ ReadIsKept'
    BY DEF IInv, Alone, CutIsWanting, ListIsFull, PassedIsWhole, ReadIsKept, Seeding,
           SameSize, Whole
  <2> QED BY <2>1, <2>2 DEF IInv
<1> QED BY <1>1, <1>2, <1>3, <1>4 DEF Next

-----------------------------------------------------------------------------
(* The invariant of the shared cache holds in every reachable state,         *)
(* whatever starts, dies or fails in whichever order (main.rs, preflight.rs).*)
THEOREM Inductive == Spec => []IInv
BY InitEstablishes, StepKeeps, PTL DEF Spec

(* Every variable keeps to its type (main.rs, preflight.rs). *)
THEOREM TypeCorrect == Spec => []TypeOK
<1>1. IInv => TypeOK
  BY DEF IInv
<1> QED BY <1>1, Inductive, PTL

(* A file of the size of its source is whole, unless two starts were copying *)
(* it at once: the size is a sound test for a copy that was cut short        *)
(* (preflight.rs, up_to_date).                                               *)
THEOREM SizeTellsWhole == Spec => []SameSizeIsWhole
<1>1. IInv => SameSizeIsWhole
  BY LongIsWhole DEF SameSizeIsWhole
<1> QED BY <1>1, Inductive, PTL

(* A sidecar that serves after an unmarred seeding counts tokens from its    *)
(* first request (main.rs; tokens.rs, TokenizerRegistry::load).              *)
THEOREM ServersCount == Spec => []CountsFromTheFirstStart
<1>1. IInv => CountsFromTheFirstStart
  BY DEF IInv, ReadIsKept, CountsFromTheFirstStart
<1> QED BY <1>1, Inductive, PTL

\* Only the end of the loop, or the end of the process, leaves the seeding.
LEMMA LeavingTheSeeding ==
    ASSUME IInv, [Next]_vars, NEW s \in Sidecars, Seeding(s), pc'[s] \notin {"seeding", "off"}
    PROVE  Seeded(s)
<1>0. pc[s] = "seeding" /\ pc \in [Sidecars -> Points]
  BY DEF Seeding, IInv, TypeOK
<1>1. PICK t \in Sidecars : Boot(t) \/ Main(t) \/ Kill(t)
  BY <1>0 DEF Next, vars
<1>2. CASE t # s
  <2>1. pc'[s] = pc[s]
    BY <1>0, <1>1, <1>2 DEF Boot, Main, Kill, Gone, Refuse, Passed, SeedUnreadable, Measure, Truncate,
       WriteBlock, Copied, CopyFails, Seeded, LoadTokenizers, SpawnThreads, WriteReference,
       Bind, BindPanics, GoOn
  <2> QED BY <2>1, <1>0
<1>3. CASE t = s
  <2>1. ~Boot(s) /\ ~Refuse(s) /\ ~Passed(s) /\ ~LoadTokenizers(s) /\ ~SpawnThreads(s)
        /\ ~WriteReference(s) /\ ~Bind(s) /\ ~BindPanics(s)
    BY <1>0 DEF Boot, Refuse, Passed, LoadTokenizers, SpawnThreads, WriteReference, Bind,
       BindPanics, Checks
  <2>2. ~Kill(s)
    BY <1>0 DEF Kill, Gone
  <2>3. ~SeedUnreadable(s) /\ ~Measure(s) /\ ~Truncate(s) /\ ~WriteBlock(s) /\ ~Copied(s)
        /\ ~CopyFails(s)
    BY <1>0 DEF SeedUnreadable, Measure, Truncate, WriteBlock, Copied, CopyFails
  <2> QED BY <1>1, <1>3, <2>1, <2>2, <2>3 DEF Main
<1> QED BY <1>2, <1>3

(* A start whose seeding met no error and no other start leaves every file   *)
(* of the seed whole: what earlier starts cut short is copied again          *)
(* (preflight.rs, copy_missing_files).                                       *)
THEOREM SeedingIsRepair == Spec => SeedingRepairs
<1>1. IInv /\ [Next]_vars =>
        [\A s \in Sidecars : Seeding(s) /\ pc'[s] \notin {"seeding", "off"} /\ seeds[s] /\ ~marred[s]
          => \A f \in Files : Whole(f) \/ f \in crossed]_vars
  <2> SUFFICES ASSUME IInv, [Next]_vars, NEW s \in Sidecars, Seeding(s),
                      pc'[s] \notin {"seeding", "off"}, seeds[s], ~marred[s], NEW f \in Files
               PROVE  Whole(f) \/ f \in crossed
    OBVIOUS
  <2>1. todo[s] = {} /\ copying[s] # f /\ pc[s] = "seeding"
    BY LeavingTheSeeding, Constants DEF Seeded, Seeding
  <2> QED BY <2>1 DEF IInv, PassedIsWhole
<1> QED BY <1>1, Inductive, PTL DEF Spec, SeedingRepairs

\* Which steps write the cache.
LEMMA WhoWrites ==
    ASSUME [Next]_vars, cache' # cache
    PROVE  \E s \in Sidecars : Truncate(s) \/ WriteBlock(s)
BY DEF Next, vars, Boot, Main, Kill, Gone, Refuse, Passed, SeedUnreadable, Measure, Copied,
       CopyFails, Seeded, LoadTokenizers, SpawnThreads, WriteReference, Bind, BindPanics

(* A whole file stays whole while starts come and go: only a start that      *)
(* could not measure its source, or two starts copying it at once, can take  *)
(* it away from a sidecar that serves from it (preflight.rs,                 *)
(* copy_missing_files).                                                      *)
THEOREM WholeFilesAreKept == Spec => WholeFilesStay
<1>1. IInv /\ [Next]_vars =>
        [\A f \in Files : Whole(f) /\ ~Whole(f)'
          => f \in crossed \/ \E s \in Sidecars : marred[s] /\ copying[s] = f]_vars
  <2> SUFFICES ASSUME IInv, [Next]_vars, NEW f \in Files, Whole(f), ~Whole(f)', f \notin crossed
               PROVE  \E s \in Sidecars : marred[s] /\ copying[s] = f
    OBVIOUS
  <2>1. cache'[f] # cache[f]
    BY DEF Whole
  <2>2. PICK s \in Sidecars : Truncate(s) \/ WriteBlock(s)
    BY <2>1, WhoWrites
  <2>3. copying[s] = f
    <3>1. cache \in [Files -> Seq(Blocks) \cup {NoFile}]
      BY DEF IInv, TypeOK
    <3>2. CASE Truncate(s)
      BY <3>1, <3>2, <2>1 DEF Truncate
    <3>3. CASE WriteBlock(s)
      BY <3>1, <3>3, <2>1 DEF WriteBlock, WriteAt
    <3> QED BY <2>2, <3>2, <3>3
  <2>4. SameSize(f) /\ cache[f] # NoFile /\ Len(cache[f]) = Size
    BY WholeIffLong DEF IInv
  <2>5. CASE Truncate(s)
    BY <2>3, <2>4, <2>5 DEF Truncate, IInv, TypeOK, CutIsWanting
  <2>6. CASE WriteBlock(s)
    <3>1. offset[s] \in 0 .. Size - 1
      BY <2>6 DEF WriteBlock
    <3>2. Len(cache[f]) = offset[s]
      BY <3>1, <2>3, <2>4, Constants DEF IInv, GoodSoFar
    <3> QED BY <3>1, <3>2, <2>4, Constants
  <2> QED BY <2>2, <2>5, <2>6
<1> QED BY <1>1, Inductive, PTL DEF Spec, WholeFilesStay
=============================================================================
