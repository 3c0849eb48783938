------------------------- MODULE CompileCacheProofs -------------------------
(***************************************************************************)
(* The compiled-model cache for any set of embed shapes and any number of  *)
(* crashes: no embed session compiles into a foreign slice, no unverified  *)
(* rung is resident, and what a heal wiped is not loaded again.            *)
(***************************************************************************)
EXTENDS CompileCache, TLAPS

LEMMA Names ==
    /\ Engines = {"embed", "rerank"} /\ "embed" # "rerank"
    /\ ShapesOf("embed") = EmbedShapes /\ ShapesOf("rerank") = {RerankShape}
    /\ EmbedShapes \subseteq Shapes /\ RerankShape \in Shapes
    /\ \A e \in Engines : ShapesOf(e) \subseteq Shapes
    /\ Absent \notin Programs /\ Absent \notin Slices /\ Unlaunched \notin Programs
    /\ Unlaunched # Absent
BY CacheAssumption DEF Engines, ShapesOf, Shapes

LEMMA SliceNames ==
    ASSUME NEW e \in Engines, NEW s \in ShapesOf(e)
    PROVE  /\ <<e, s>> \in Slices
           /\ \A sound \in BOOLEAN : [made_for |-> <<e, s>>, sound |-> sound] \in Programs
<1>1. <<e, s>> \in Engines \X Shapes /\ <<e, s>>[1] = e /\ <<e, s>>[2] = s
  BY Names
<1>2. <<e, s>> \in Slices
  BY <1>1 DEF Slices
<1>3. QED
  BY <1>2 DEF Programs

\* The slice of a request under way, and the program compiled for it.
LEMMA OwnSlice ==
    ASSUME RequestsAreOwn, NEW e \in Engines, ~At(e, "idle")
    PROVE  /\ want[e] \in ShapesOf(e) /\ want[e] \in Shapes
           /\ Slice(e) \in Slices /\ Slice(e)[1] = e
           /\ \A sound \in BOOLEAN : [made_for |-> Slice(e), sound |-> sound] \in Programs
<1>1. want[e] \in ShapesOf(e)
  BY DEF RequestsAreOwn
<1>2. QED
  BY <1>1, SliceNames, Names DEF Slice

-----------------------------------------------------------------------------
LEMMA TypeStep == TypeOK /\ RequestsAreOwn /\ [Next]_vars => TypeOK'
<1> SUFFICES ASSUME TypeOK, RequestsAreOwn, [Next]_vars PROVE TypeOK'
  OBVIOUS
<1> USE DEF TypeOK, Points, At, Goto
<1>1. CASE UNCHANGED vars
  BY <1>1 DEF vars, request, claim
<1>2. ASSUME NEW e \in Engines, NEW s \in ShapesOf(e), Request(e, s) PROVE TypeOK'
  BY <1>2, Names DEF Request, claim
<1>3. ASSUME NEW e \in Engines, NEW s \in ShapesOf(e), Evict(e, s) PROVE TypeOK'
  BY <1>3, Names DEF Evict, request, claim
<1>4. ASSUME NEW e \in Engines, Hold(e) PROVE TypeOK'
  <2>1. Slice(e) \in Slices
    BY <1>4, OwnSlice DEF Hold
  <2>2. QED
    BY <1>4, <2>1 DEF Hold, request
<1>5. ASSUME NEW e \in Engines, BuildFails(e) \/ GiveUp(e) \/ RerankErrs(e) \/ Served(e)
      PROVE  TypeOK'
  BY <1>5 DEF BuildFails, GiveUp, RerankErrs, Served, Unhold, request
<1>6. ASSUME NEW e \in Engines, NEW what \in Programs \cup {Absent, Unlaunched},
             Keep(e, what), ~At(e, "idle")
      PROVE  resident' \in [Engines -> [Shapes -> Programs \cup {Absent, Unlaunched}]]
  <2>1. want[e] \in Shapes
    BY <1>6, OwnSlice
  <2>2. QED
    BY <1>6, <2>1 DEF Keep
<1>7. ASSUME NEW e \in Engines, BuildOk(e) PROVE TypeOK'
  BY <1>6, <1>7 DEF BuildOk, request, claim
<1>8. ASSUME NEW e \in Engines, LaunchFromCache(e) PROVE TypeOK'
  BY <1>8 DEF LaunchFromCache, claim
<1>9. ASSUME NEW e \in Engines, StartCompile(e) PROVE TypeOK'
  <2>1. [made_for |-> Slice(e), sound |-> FALSE] \in Programs
    BY <1>9, OwnSlice DEF StartCompile
  <2>2. path \in Slices
    BY <1>9 DEF StartCompile
  <2>3. QED
    BY <1>9, <2>1, <2>2 DEF StartCompile, claim
<1>10. ASSUME NEW e \in Engines, FinishCompile(e) PROVE TypeOK'
  <2>1. [made_for |-> Slice(e), sound |-> TRUE] \in Programs /\ into[e] \in Slices
    BY <1>10, OwnSlice DEF FinishCompile, RequestsAreOwn
  <2>2. disk' \in [Slices -> Programs \cup {Absent}]
    BY <1>10, <2>1 DEF FinishCompile
  <2>3. QED
    BY <1>10, <2>1, <2>2 DEF FinishCompile, claim
<1>11. ASSUME NEW e \in Engines, CompileFails(e) PROVE TypeOK'
  BY <1>11 DEF CompileFails, request, claim
<1>12. ASSUME NEW e \in Engines, CanaryPasses(e) \/ RerankLaunched(e) PROVE TypeOK'
  BY <1>6, <1>12 DEF CanaryPasses, RerankLaunched, request, claim, RequestsAreOwn
<1>13. ASSUME NEW e \in Engines, WipeAndRebuild(e) PROVE TypeOK'
  <2>1. Slice(e) \in Slices
    BY <1>13, OwnSlice DEF WipeAndRebuild, Wipe
  <2>2. QED
    BY <1>13, <2>1 DEF WipeAndRebuild, Wipe, claim
<1>14. CASE Crash
  BY <1>14, CacheAssumption DEF Crash
<1>15. QED
  BY <1>1, <1>2, <1>3, <1>4, <1>5, <1>7, <1>8, <1>9, <1>10, <1>11, <1>12, <1>13, <1>14 DEF Next

LEMMA OwnStep ==
    TypeOK /\ PathStaysWithTheBuild /\ RequestsAreOwn /\ [Next]_vars => RequestsAreOwn'
<1> SUFFICES ASSUME TypeOK, PathStaysWithTheBuild, RequestsAreOwn, [Next]_vars
             PROVE  RequestsAreOwn'
  OBVIOUS
<1> USE DEF TypeOK, RequestsAreOwn, At, Goto, Slice
<1>1. CASE UNCHANGED vars
  BY <1>1 DEF vars, request
<1>2. ASSUME NEW e \in Engines, NEW s \in ShapesOf(e), Request(e, s) PROVE RequestsAreOwn'
  BY <1>2 DEF Request
<1>3. ASSUME NEW e \in Engines, NEW s \in ShapesOf(e), Evict(e, s) PROVE RequestsAreOwn'
  BY <1>3 DEF Evict, request
<1>4. ASSUME NEW e \in Engines,
             \/ Hold(e) \/ BuildFails(e) \/ BuildOk(e) \/ CompileFails(e) \/ CanaryPasses(e)
             \/ GiveUp(e) \/ RerankLaunched(e) \/ RerankErrs(e) \/ Served(e)
      PROVE  RequestsAreOwn'
  BY <1>4 DEF Hold, BuildFails, BuildOk, CompileFails, CanaryPasses, GiveUp, RerankLaunched,
              RerankErrs, Served, request
<1>5. ASSUME NEW e \in Engines, LaunchFromCache(e) PROVE RequestsAreOwn'
  <2>1. disk[path] \in Programs
    BY <1>5 DEF LaunchFromCache
  <2>2. QED
    BY <1>5, <2>1 DEF LaunchFromCache
<1>6. ASSUME NEW e \in Engines, StartCompile(e) PROVE RequestsAreOwn'
  <2>1. path \in Slices /\ (e = "embed" => path = Slice(e))
    BY <1>6 DEF StartCompile, PathStaysWithTheBuild
  <2>2. QED
    BY <1>6, <2>1 DEF StartCompile
<1>7. ASSUME NEW e \in Engines, FinishCompile(e) PROVE RequestsAreOwn'
  <2>1. [made_for |-> Slice(e), sound |-> TRUE] \in Programs /\ into[e] \in Slices
    BY <1>7, OwnSlice DEF FinishCompile
  <2>2. loaded'[e] \in Programs
    BY <1>7, <2>1 DEF FinishCompile
  <2>3. QED
    BY <1>7, <2>2 DEF FinishCompile
<1>8. ASSUME NEW e \in Engines, WipeAndRebuild(e) PROVE RequestsAreOwn'
  BY <1>8 DEF WipeAndRebuild, Wipe
<1>9. CASE Crash
  BY <1>9 DEF Crash
<1>10. QED
  BY <1>1, <1>2, <1>3, <1>4, <1>5, <1>6, <1>7, <1>8, <1>9 DEF Next

-----------------------------------------------------------------------------
\* The claim: only Hold takes the lease and points the path, only the holder
\* gives it up, and an embed request reaches its first launch inside it.
LEMMA LeaseStep ==
    TypeOK /\ ResidentRungsAreVerified /\ PathStaysWithTheBuild /\ RequestsAreOwn /\ [Next]_vars
        => PathStaysWithTheBuild'
<1> SUFFICES ASSUME TypeOK, ResidentRungsAreVerified, PathStaysWithTheBuild, RequestsAreOwn,
                    [Next]_vars
             PROVE  PathStaysWithTheBuild'
  OBVIOUS
<1> USE DEF TypeOK, PathStaysWithTheBuild, At, Goto, Slice
<1>1. CASE UNCHANGED vars
  BY <1>1 DEF vars, request, claim
<1>2. ASSUME NEW e \in Engines, NEW s \in ShapesOf(e), Request(e, s)
      PROVE  PathStaysWithTheBuild'
  <2>1. e = "embed" => resident[e][s] # Unlaunched
    <3>1. SUFFICES ASSUME e = "embed", resident[e][s] # Absent PROVE resident[e][s] \in Programs
      BY Names
    <3>2. resident[e][s] = [made_for |-> <<"embed", s>>, sound |-> TRUE]
      BY <3>1, Names DEF ResidentRungsAreVerified
    <3>3. \A sound \in BOOLEAN : [made_for |-> <<e, s>>, sound |-> sound] \in Programs
      BY SliceNames
    <3>4. [made_for |-> <<"embed", s>>, sound |-> TRUE] \in Programs
      BY <3>1, <3>3
    <3>5. QED
      BY <3>2, <3>4
  <2>2. pc'[e] \in {"claiming", "launching", "serving"}
        /\ (e = "embed" => pc'[e] \in {"claiming", "serving"})
    BY <1>2, <2>1 DEF Request
  <2>3. \A f \in Engines : f # e => pc'[f] = pc[f] /\ want'[f] = want[f]
    BY <1>2 DEF Request
  <2>4. QED
    BY <1>2, <2>2, <2>3 DEF Request, claim
<1>3. ASSUME NEW e \in Engines, NEW s \in ShapesOf(e), Evict(e, s) PROVE PathStaysWithTheBuild'
  BY <1>3 DEF Evict, request, claim
<1>4. ASSUME NEW e \in Engines, Hold(e) PROVE PathStaysWithTheBuild'
  BY <1>4, Names DEF Hold, request
<1>5. ASSUME NEW e \in Engines, BuildFails(e) \/ GiveUp(e) \/ RerankErrs(e) \/ Served(e)
      PROVE  PathStaysWithTheBuild'
  BY <1>5, Names DEF BuildFails, GiveUp, RerankErrs, Served, Unhold, request
<1>6. ASSUME NEW e \in Engines, BuildOk(e) \/ CompileFails(e) \/ CanaryPasses(e) \/ RerankLaunched(e)
      PROVE  PathStaysWithTheBuild'
  BY <1>6 DEF BuildOk, CompileFails, CanaryPasses, RerankLaunched, request, claim
<1>7. ASSUME NEW e \in Engines, LaunchFromCache(e) \/ StartCompile(e) \/ FinishCompile(e)
      PROVE  PathStaysWithTheBuild'
  BY <1>7 DEF LaunchFromCache, StartCompile, FinishCompile, claim
<1>8. ASSUME NEW e \in Engines, WipeAndRebuild(e) PROVE PathStaysWithTheBuild'
  BY <1>8 DEF WipeAndRebuild, Wipe, claim
<1>9. CASE Crash
  BY <1>9 DEF Crash
<1>10. QED
  BY <1>1, <1>2, <1>3, <1>4, <1>5, <1>6, <1>7, <1>8, <1>9 DEF Next

\* A rung is filed only behind a canary that its own program has passed.
LEMMA VerifiedStep ==
    TypeOK /\ RequestsAreOwn /\ ResidentRungsAreVerified /\ [Next]_vars
        => ResidentRungsAreVerified'
<1> SUFFICES ASSUME TypeOK, RequestsAreOwn, ResidentRungsAreVerified, [Next]_vars,
                    NEW s \in EmbedShapes, resident'["embed"][s] # Absent
             PROVE  resident'["embed"][s] = [made_for |-> <<"embed", s>>, sound |-> TRUE]
  BY DEF ResidentRungsAreVerified
<1> DEFINE r  == resident["embed"][s]
           r1 == resident'["embed"][s]
<1>1. r # Absent => r = [made_for |-> <<"embed", s>>, sound |-> TRUE]
  BY DEF ResidentRungsAreVerified
<1>2. SUFFICES r1 = r \/ r1 = Absent \/ r1 = [made_for |-> <<"embed", s>>, sound |-> TRUE]
  BY <1>1
<1>3. "embed" \in Engines /\ s \in Shapes
  BY Names
<1>4. ASSUME NEW e \in Engines, NEW what, Keep(e, what), want[e] \in Shapes
      PROVE  (e = "embed" /\ s = want[e] /\ r1 = what) \/ r1 = r
  BY <1>3, <1>4 DEF Keep, TypeOK
<1>5. ASSUME NEW e \in Engines, NEW t \in ShapesOf(e), Evict(e, t) PROVE r1 = r \/ r1 = Absent
  BY <1>3, <1>5, Names DEF Evict, TypeOK
<1>6. ASSUME NEW e \in Engines, BuildOk(e) PROVE r1 = r
  <2>1. want[e] \in Shapes
    BY <1>6, OwnSlice DEF BuildOk, At
  <2>2. QED
    BY <1>4, <1>6, <2>1, Names DEF BuildOk
<1>7. ASSUME NEW e \in Engines, CanaryPasses(e)
      PROVE  r1 = r \/ r1 = [made_for |-> <<"embed", s>>, sound |-> TRUE]
  <2>1. want[e] \in Shapes
    BY <1>7, OwnSlice DEF CanaryPasses, At
  <2>2. loaded[e] = [made_for |-> <<e, want[e]>>, sound |-> TRUE] /\ Keep(e, loaded[e])
    BY <1>7 DEF CanaryPasses, Own, Slice
  <2>3. QED
    BY <1>4, <2>1, <2>2
<1>8. ASSUME NEW e \in Engines, RerankLaunched(e) PROVE r1 = r
  <2>1. want[e] \in Shapes
    BY <1>8, OwnSlice DEF RerankLaunched, At
  <2>2. QED
    BY <1>4, <1>8, <2>1, Names DEF RerankLaunched
<1>9. ASSUME NEW e \in Engines,
             \/ \E t \in ShapesOf(e) : Request(e, t)
             \/ Hold(e) \/ BuildFails(e) \/ LaunchFromCache(e) \/ StartCompile(e)
             \/ FinishCompile(e) \/ CompileFails(e) \/ WipeAndRebuild(e) \/ GiveUp(e)
             \/ RerankErrs(e) \/ Served(e)
      PROVE  r1 = r
  BY <1>9 DEF Request, Hold, BuildFails, LaunchFromCache, StartCompile, FinishCompile,
              CompileFails, WipeAndRebuild, Wipe, GiveUp, RerankErrs, Served
<1>10. CASE Crash
  BY <1>3, <1>10 DEF Crash
<1>11. CASE UNCHANGED vars
  BY <1>11 DEF vars
<1>12. QED
  BY <1>5, <1>6, <1>7, <1>8, <1>9, <1>10, <1>11 DEF Next

-----------------------------------------------------------------------------
\* What a step does to a slice: it stays, it is wiped, or the engine the path
\* belongs to writes its program there.
LEMMA DiskStep ==
    ASSUME TypeOK, RequestsAreOwn, PathStaysWithTheBuild, [Next]_vars, NEW d \in Slices
    PROVE  \/ disk'[d] = disk[d]
           \/ disk'[d] = Absent
           \/ disk'[d] # Absent /\ disk'[d].made_for[1] = "rerank"
           \/ disk'[d] # Absent /\ disk'[d].made_for = d /\ ~At("embed", "building")
<1> USE DEF TypeOK, At
<1>1. ASSUME NEW e \in Engines, NEW sound \in BOOLEAN, NEW f \in Slices, ~At(e, "idle"),
             disk' = [disk EXCEPT ![f] = [made_for |-> Slice(e), sound |-> sound]],
             e = "embed" => f = Slice(e) /\ ~At(e, "building")
      PROVE  \/ disk'[d] = disk[d]
             \/ disk'[d] # Absent /\ disk'[d].made_for[1] = "rerank"
             \/ disk'[d] # Absent /\ disk'[d].made_for = d /\ ~At("embed", "building")
  <2>1. CASE d # f
    BY <1>1, <2>1
  <2>2. CASE d = f
    <3>1. disk'[d] = [made_for |-> Slice(e), sound |-> sound]
      BY <1>1, <2>2
    <3>2. disk'[d] \in Programs /\ Slice(e)[1] = e
      BY <1>1, <3>1, OwnSlice
    <3>3. disk'[d] # Absent /\ disk'[d].made_for = Slice(e)
      BY <3>1, <3>2, Names
    <3>4. QED
      BY <1>1, <2>2, <3>2, <3>3, Names
  <2>3. QED
    BY <2>1, <2>2
<1>2. ASSUME NEW e \in Engines, StartCompile(e)
      PROVE  \/ disk'[d] = disk[d]
             \/ disk'[d] # Absent /\ disk'[d].made_for[1] = "rerank"
             \/ disk'[d] # Absent /\ disk'[d].made_for = d /\ ~At("embed", "building")
  <2>1. path \in Slices /\ (e = "embed" => path = Slice(e))
    BY <1>2 DEF StartCompile, PathStaysWithTheBuild
  <2>2. QED
    BY <1>1, <1>2, <2>1 DEF StartCompile
<1>3. ASSUME NEW e \in Engines, FinishCompile(e)
      PROVE  \/ disk'[d] = disk[d]
             \/ disk'[d] # Absent /\ disk'[d].made_for[1] = "rerank"
             \/ disk'[d] # Absent /\ disk'[d].made_for = d /\ ~At("embed", "building")
  <2>1. into[e] \in Slices /\ (e = "embed" => into[e] = Slice(e))
    BY <1>3 DEF FinishCompile, RequestsAreOwn
  <2>2. QED
    BY <1>1, <1>3, <2>1 DEF FinishCompile
<1>4. ASSUME NEW e \in Engines, WipeAndRebuild(e) PROVE disk'[d] = disk[d] \/ disk'[d] = Absent
  BY <1>4 DEF WipeAndRebuild, Wipe
<1>5. ASSUME NEW e \in Engines,
             \/ \E t \in ShapesOf(e) : Request(e, t) \/ Evict(e, t)
             \/ Hold(e) \/ BuildFails(e) \/ BuildOk(e) \/ LaunchFromCache(e)
             \/ CompileFails(e) \/ CanaryPasses(e) \/ GiveUp(e) \/ RerankLaunched(e)
             \/ RerankErrs(e) \/ Served(e)
      PROVE  disk'[d] = disk[d]
  BY <1>5 DEF Request, Evict, Hold, BuildFails, BuildOk, LaunchFromCache, CompileFails,
              CanaryPasses, GiveUp, RerankLaunched, RerankErrs, Served
<1>6. CASE Crash \/ UNCHANGED vars
  BY <1>6 DEF Crash, vars
<1>7. QED
  BY <1>2, <1>3, <1>4, <1>5, <1>6 DEF Next

LEMMA SliceStep ==
    /\ TypeOK /\ RequestsAreOwn /\ PathStaysWithTheBuild /\ EmbedCompilesIntoItsOwnSlice
    /\ [Next]_vars
    => EmbedCompilesIntoItsOwnSlice'
<1> SUFFICES ASSUME TypeOK, RequestsAreOwn, PathStaysWithTheBuild, EmbedCompilesIntoItsOwnSlice,
                    [Next]_vars, NEW d \in Slices, disk'[d] # Absent,
                    disk'[d].made_for[1] = "embed"
             PROVE  disk'[d].made_for = d
  BY DEF EmbedCompilesIntoItsOwnSlice
<1>1. disk'[d] = disk[d] \/ disk'[d].made_for = d
  BY DiskStep, Names
<1>2. QED
  BY <1>1 DEF EmbedCompilesIntoItsOwnSlice

\* A wipe is followed only by the reranker's programs until the rebuilt session
\* leaves "building".
LEMMA CleanStep ==
    TypeOK /\ RequestsAreOwn /\ PathStaysWithTheBuild /\ WipedStaysClean /\ [Next]_vars
        => WipedStaysClean'
<1> SUFFICES ASSUME TypeOK, RequestsAreOwn, PathStaysWithTheBuild, WipedStaysClean, [Next]_vars
             PROVE  WipedStaysClean'
  OBVIOUS
<1> DEFINE Clean(d) == disk[d] = Absent \/ disk[d].made_for[1] # "embed"
<1>1. healed'["rerank"] = "no"
  <2>1. ASSUME NEW e \in Engines, NEW s \in ShapesOf(e), Request(e, s) PROVE healed'["rerank"] = "no"
    BY <2>1, Names DEF Request, TypeOK, WipedStaysClean
  <2>2. ASSUME NEW e \in Engines, WipeAndRebuild(e) PROVE healed'["rerank"] = "no"
    BY <2>2, Names DEF WipeAndRebuild, Wipe, TypeOK, WipedStaysClean
  <2>3. CASE Crash
    BY <2>3, Names DEF Crash
  <2>4. ASSUME NEW e \in Engines,
               \/ \E t \in ShapesOf(e) : Evict(e, t)
               \/ Hold(e) \/ BuildFails(e) \/ BuildOk(e) \/ LaunchFromCache(e) \/ StartCompile(e)
               \/ FinishCompile(e) \/ CompileFails(e) \/ CanaryPasses(e) \/ GiveUp(e)
               \/ RerankLaunched(e) \/ RerankErrs(e) \/ Served(e)
        PROVE  UNCHANGED healed
    BY <2>4 DEF Evict, Hold, BuildFails, BuildOk, LaunchFromCache, StartCompile, FinishCompile,
                CompileFails, CanaryPasses, GiveUp, RerankLaunched, RerankErrs, Served, request
  <2>5. CASE UNCHANGED vars
    BY <2>5 DEF vars, request, WipedStaysClean
  <2>6. QED
    BY <2>1, <2>2, <2>3, <2>4, <2>5 DEF Next, WipedStaysClean
<1>2. "embed" \in Engines /\ "embed" # "rerank"
  BY Names
<1>3. pc'["embed"] = "claiming" => healed'["embed"] = "no"
  <2>1. ASSUME NEW e \in Engines, NEW s \in ShapesOf(e), Request(e, s)
        PROVE  pc'["embed"] = "claiming" => healed'["embed"] = "no"
    BY <1>2, <2>1 DEF Request, TypeOK, WipedStaysClean, At, Goto
  <2>2. ASSUME NEW e \in Engines,
               \/ Hold(e) \/ BuildFails(e) \/ BuildOk(e) \/ LaunchFromCache(e) \/ StartCompile(e)
               \/ FinishCompile(e) \/ CompileFails(e) \/ CanaryPasses(e) \/ WipeAndRebuild(e)
               \/ GiveUp(e) \/ RerankLaunched(e) \/ RerankErrs(e) \/ Served(e)
        PROVE  pc'["embed"] = "claiming" => healed'["embed"] = "no"
    <3>1. pc'["embed"] = "claiming" => pc["embed"] = "claiming" /\ e # "embed"
      BY <1>2, <2>2 DEF Hold, BuildFails, BuildOk, LaunchFromCache, StartCompile, FinishCompile,
           CompileFails, CanaryPasses, WipeAndRebuild, Wipe, GiveUp, RerankLaunched, RerankErrs, Served,
           TypeOK, Goto
    <3>2. e # "embed" => healed'["embed"] = healed["embed"]
      BY <1>2, <2>2 DEF Hold, BuildFails, BuildOk, LaunchFromCache, StartCompile, FinishCompile,
           CompileFails, CanaryPasses, WipeAndRebuild, Wipe, GiveUp, RerankLaunched, RerankErrs, Served,
           TypeOK, request
    <3>3. QED
      BY <3>1, <3>2 DEF WipedStaysClean, At
  <2>3. ASSUME NEW e \in Engines, NEW s \in ShapesOf(e), Evict(e, s)
        PROVE  pc'["embed"] = "claiming" => healed'["embed"] = "no"
    BY <2>3 DEF Evict, request, WipedStaysClean, At
  <2>4. CASE Crash
    BY <1>2, <2>4 DEF Crash
  <2>5. CASE UNCHANGED vars
    BY <2>5 DEF vars, request, WipedStaysClean, At
  <2>6. QED
    BY <2>1, <2>2, <2>3, <2>4, <2>5 DEF Next
<1>4. SUFFICES ASSUME pc'["embed"] = "building", healed'["embed"] = "wiped"
               PROVE  Clean(Slice("embed"))'
  BY <1>1, <1>3 DEF WipedStaysClean, At
<1>5. CASE WipeAndRebuild("embed")
  <2>1. Slice("embed") \in Slices
    BY <1>2, <1>5, OwnSlice DEF WipeAndRebuild, Wipe, At
  <2>2. disk' = [disk EXCEPT ![Slice("embed")] = Absent]
    BY <1>2, <1>4, <1>5 DEF WipeAndRebuild, Wipe, TypeOK
  <2>3. UNCHANGED want
    BY <1>5 DEF WipeAndRebuild, Wipe
  <2>4. QED
    BY <2>1, <2>2, <2>3 DEF TypeOK, Slice
\* Otherwise the rebuild was under way before the step.
<1>6. CASE ~WipeAndRebuild("embed")
  <2>1. /\ pc["embed"] = "building" /\ healed["embed"] = "wiped"
        /\ want'["embed"] = want["embed"]
    <3>1. ASSUME NEW e \in Engines, NEW s \in ShapesOf(e), Request(e, s)
          PROVE  pc["embed"] = "building" /\ UNCHANGED <<want["embed"], healed["embed"]>>
      <4>1. e # "embed"
        BY <1>2, <1>4, <3>1 DEF Request, TypeOK, Goto
      <4>2. QED
        BY <1>2, <1>4, <3>1, <4>1 DEF Request, TypeOK, Goto
    <3>2. ASSUME NEW e \in Engines,
                 \/ Hold(e) \/ BuildFails(e) \/ BuildOk(e) \/ LaunchFromCache(e)
                 \/ StartCompile(e) \/ FinishCompile(e) \/ CompileFails(e) \/ CanaryPasses(e)
                 \/ WipeAndRebuild(e) \/ GiveUp(e) \/ RerankLaunched(e) \/ RerankErrs(e)
                 \/ Served(e)
          PROVE  pc["embed"] = "building" /\ UNCHANGED <<want["embed"], healed["embed"]>>
      <4>1. UNCHANGED want
        BY <3>2 DEF Hold, BuildFails, BuildOk, LaunchFromCache, StartCompile, FinishCompile,
             CompileFails, CanaryPasses, WipeAndRebuild, Wipe, GiveUp, RerankLaunched, RerankErrs,
             Served, request
      <4>2. ~Hold("embed")
        BY <1>2, <1>4 DEF Hold, WipedStaysClean, At, request
      <4>3. e # "embed"
        BY <1>2, <1>4, <1>6, <3>2, <4>2 DEF BuildFails, BuildOk, LaunchFromCache,
             StartCompile, FinishCompile, CompileFails, CanaryPasses, GiveUp, RerankLaunched,
             RerankErrs, Served, TypeOK, Goto
      <4>4. pc'["embed"] = pc["embed"] /\ healed'["embed"] = healed["embed"]
        BY <1>2, <3>2, <4>3 DEF Hold, BuildFails, BuildOk, LaunchFromCache, StartCompile,
             FinishCompile, CompileFails, CanaryPasses, WipeAndRebuild, Wipe, GiveUp, RerankLaunched,
             RerankErrs, Served, TypeOK, Goto, request
      <4>5. QED
        BY <1>4, <4>1, <4>4
    <3>3. ASSUME NEW e \in Engines, NEW s \in ShapesOf(e), Evict(e, s)
          PROVE  pc["embed"] = "building" /\ UNCHANGED <<want["embed"], healed["embed"]>>
      BY <1>4, <3>3 DEF Evict, request
    <3>4. ~Crash
      BY <1>2, <1>4 DEF Crash
    <3>5. CASE UNCHANGED vars
      BY <1>4, <3>5 DEF vars, request
    <3>6. QED
      BY <1>4, <3>1, <3>2, <3>3, <3>4, <3>5 DEF Next
  <2>2. Slice("embed") \in Slices /\ Slice("embed")' = Slice("embed")
    BY <1>2, <2>1, OwnSlice DEF At, Slice
  <2>3. Clean(Slice("embed"))
    BY <2>1 DEF WipedStaysClean, At
  <2>4. \/ disk'[Slice("embed")] = disk[Slice("embed")]
        \/ disk'[Slice("embed")] = Absent
        \/ disk'[Slice("embed")].made_for[1] = "rerank"
    BY <2>1, <2>2, DiskStep DEF At
  <2>5. QED
    BY <1>2, <2>2, <2>3, <2>4
<1>7. QED
  BY <1>5, <1>6
-----------------------------------------------------------------------------
LEMMA InitEstablishes == Init => IInv
<1> SUFFICES ASSUME Init PROVE IInv
  OBVIOUS
<1>1. TypeOK
  BY CacheAssumption, Names DEF Init, TypeOK, Points
<1>2. ResidentRungsAreVerified /\ EmbedCompilesIntoItsOwnSlice /\ PathStaysWithTheBuild
  BY Names DEF Init, ResidentRungsAreVerified, EmbedCompilesIntoItsOwnSlice,
               PathStaysWithTheBuild, At
<1>3. RequestsAreOwn /\ WipedStaysClean
  BY Names DEF Init, RequestsAreOwn, WipedStaysClean, At
<1>4. QED
  BY <1>1, <1>2, <1>3 DEF IInv

\* Every reachable state: the claim is the building engine's, a resident embed
\* rung is verified, and a wiped slice is clean.
THEOREM Inductive == Spec => []IInv
<1>1. Init => IInv
  BY InitEstablishes
<1>2. IInv /\ [Next]_vars => IInv'
  BY TypeStep, OwnStep, LeaseStep, VerifiedStep, SliceStep, CleanStep DEF IInv
<1>3. QED
  BY <1>1, <1>2, PTL DEF Spec

\* Requests, sessions, slices and the claim keep their types.
THEOREM TypeCorrect == Spec => []TypeOK
<1>1. IInv => TypeOK
  BY DEF IInv
<1>2. QED
  BY <1>1, Inductive, PTL

\* load_validated_dual: whatever crashed, was wiped or left behind, a resident
\* embed rung runs the finished program of its own shape.
THEOREM OnlyVerifiedRungs == Spec => []ResidentRungsAreVerified
<1>1. IInv => ResidentRungsAreVerified
  BY DEF IInv
<1>2. QED
  BY <1>1, Inductive, PTL

\* with_cache_claim: an embed program is only ever in the slice it was made for.
THEOREM OwnSlicesOnly == Spec => []EmbedCompilesIntoItsOwnSlice
<1>1. IInv => EmbedCompilesIntoItsOwnSlice
  BY DEF IInv
<1>2. QED
  BY <1>1, Inductive, PTL

\* CachePathLease: an engine between its build and its first launch has the path.
THEOREM PathStays == Spec => []PathStaysWithTheBuild
<1>1. IInv => PathStaysWithTheBuild
  BY DEF IInv
<1>2. QED
  BY <1>1, Inductive, PTL

\* wipe: the rebuild after a successful wipe never loads what its canary rejected.
THEOREM RebuildsStartClean == Spec => RebuildStartsClean
<1>1. IInv /\ [Next]_vars =>
         [\A e \in Engines :
            At(e, "building") /\ healed[e] = "wiped" /\ pc'[e] = "launching" =>
              disk[Slice(e)] = Absent \/ disk[Slice(e)].made_for[1] # "embed"]_vars
  BY Names DEF IInv, WipedStaysClean
<1>2. QED
  BY <1>1, Inductive, PTL DEF Spec, RebuildStartsClean
=============================================================================
