---------------------------- MODULE CompileCache ----------------------------
(***************************************************************************)
(* The compiled-model cache of a MIGraphX build: one slice on disk per     *)
(* engine and shape, one process-global path that says which slice the     *)
(* execution provider reads, the CachePathLease that serializes it, and    *)
(* the canary of load_validated_dual that heals a corrupt slice.           *)
(*                                                                         *)
(* The provider is external: it reads the path at a session's first kernel *)
(* launch, loads whatever program is there, and otherwise compiles one     *)
(* into it; a process that dies mid-compile leaves a corrupt program. The  *)
(* engine mutexes are in EmbedEngine: here an engine serves one request at *)
(* a time. A request runs at the shape its rung was built for.             *)
(***************************************************************************)
EXTENDS Integers

CONSTANTS
    EmbedShapes,    \* the (batch, cap) shapes of the embed rungs
    RerankShape,    \* the one shape of the reranker's slice
    Absent,         \* no program, no session, no slice
    Unlaunched,     \* a session that has not read the path yet
    MaxCrashes      \* bound: how often the process dies


Engines == {"embed", "rerank"}
Shapes  == EmbedShapes \cup {RerankShape}
ShapesOf(e) == IF e = "embed" THEN EmbedShapes ELSE {RerankShape}
Slices  == {d \in Engines \X Shapes : d[2] \in ShapesOf(d[1])}

\* A program knows what it was compiled for and whether its compile finished.
Programs  == [made_for : Slices, sound : BOOLEAN]

\* Absent and Unlaunched stand for no program and no slice.
ASSUME CacheAssumption ==
    /\ RerankShape \notin EmbedShapes
    /\ Absent \notin Programs \cup Slices \cup Shapes
    /\ Unlaunched \notin Programs \cup {Absent}
    /\ MaxCrashes \in Nat

VARIABLES
    pc,         \* where each engine's request stands
    want,       \* the shape it asked for
    resident,   \* the sessions each engine slot keeps, by shape
    loaded,     \* the program the request's session has launched
    into,       \* the slice the request's session compiles into
    healed,     \* has this build wiped its slice: "no", "wiped", or tried to
    lease,      \* CACHE_PATH_LOCK: the engine that holds it, or "none"
    path,       \* ORT_MIGRAPHX_MODEL_CACHE_PATH
    disk,       \* the cache tree
    crashes

request == <<want, loaded, into, healed>>
claim   == <<lease, path>>
vars    == <<pc, request, resident, claim, disk, crashes>>

Points == {"idle", "claiming", "building", "launching", "compiling", "launched", "serving"}

TypeOK ==
    /\ pc \in [Engines -> Points]
    /\ want \in [Engines -> Shapes \cup {Absent}]
    /\ resident \in [Engines -> [Shapes -> Programs \cup {Absent, Unlaunched}]]
    /\ loaded \in [Engines -> Programs \cup {Absent}]
    /\ into \in [Engines -> Slices \cup {Absent}]
    /\ healed \in [Engines -> {"no", "wiped", "unwiped"}]
    /\ lease \in Engines \cup {"none"}
    /\ path \in Slices \cup {Absent}
    /\ disk \in [Slices -> Programs \cup {Absent}]
    /\ crashes \in 0..MaxCrashes

Init ==
    /\ pc = [e \in Engines |-> "idle"]
    /\ want = [e \in Engines |-> Absent]
    /\ resident = [e \in Engines |-> [s \in Shapes |-> Absent]]
    /\ loaded = [e \in Engines |-> Absent]
    /\ into = [e \in Engines |-> Absent]
    /\ healed = [e \in Engines |-> "no"]
    /\ lease = "none"
    /\ path = Absent
    /\ disk = [d \in Slices |-> Absent]
    /\ crashes = 0

At(e, point)   == pc[e] = point
Goto(e, point) == pc' = [pc EXCEPT ![e] = point]
Slice(e)       == <<e, want[e]>>
Keep(e, what)  == resident' = [resident EXCEPT ![e][want[e]] = what]
-----------------------------------------------------------------------------
\* The engine lock is ours: a resident session claims nothing.
Request(e, s) ==
    /\ At(e, "idle")
    /\ want' = [want EXCEPT ![e] = s]
    /\ loaded' = [loaded EXCEPT ![e] = Absent]
    /\ into' = [into EXCEPT ![e] = Absent]
    /\ healed' = [healed EXCEPT ![e] = "no"]
    /\ Goto(e, IF resident[e][s] = Absent THEN "claiming"
               ELSE IF resident[e][s] = Unlaunched THEN "launching" ELSE "serving")
    /\ UNCHANGED <<resident, claim, disk, crashes>>

\* Mutant of Hold: the path is pointed without the lock.
HoldWithoutTheLock(e) ==
    /\ At(e, "claiming")
    /\ lease' = e
    /\ path' = Slice(e)
    /\ Goto(e, "building")
    /\ UNCHANGED <<request, resident, disk, crashes>>

\* CachePathLease::hold: wait for the lock, point the path at the own slice.
Hold(e) ==
    /\ At(e, "claiming")
    /\ lease = "none"
    /\ lease' = e
    /\ path' = Slice(e)
    /\ Goto(e, "building")
    /\ UNCHANGED <<request, resident, disk, crashes>>

\* The lease of a request that ends is dropped; one that never held it keeps off.
Unhold(e) == lease' = (IF lease = e THEN "none" ELSE lease) /\ UNCHANGED path

\* load_dual or load_rerank answered Err, on the first build or the healing one.
BuildFails(e) ==
    /\ At(e, "building")
    /\ Unhold(e)
    /\ Goto(e, "idle")
    /\ UNCHANGED <<request, resident, disk, crashes>>

\* Mutant of BuildOk: the lease ends with the build, as with_engine_cache did.
BuildOkReleases(e) ==
    /\ At(e, "building")
    /\ IF e = "rerank" THEN Keep(e, Unlaunched) ELSE UNCHANGED resident
    /\ Unhold(e)
    /\ Goto(e, "launching")
    /\ UNCHANGED <<request, disk, crashes>>

\* The session exists. The reranker's is filed at once, the embedder's only
\* once its canary has passed.
BuildOk(e) ==
    /\ At(e, "building")
    /\ IF e = "rerank" THEN Keep(e, Unlaunched) ELSE UNCHANGED resident
    /\ Goto(e, "launching")
    /\ UNCHANGED <<request, claim, disk, crashes>>
-----------------------------------------------------------------------------
(***************************************************************************)
(* The execution provider, at the first kernel launch of a session.        *)
(***************************************************************************)

\* The slice the path names holds a program: it is loaded as it is.
LaunchFromCache(e) ==
    /\ At(e, "launching")
    /\ path # Absent
    /\ disk[path] # Absent
    /\ loaded' = [loaded EXCEPT ![e] = disk[path]]
    /\ Goto(e, "launched")
    /\ UNCHANGED <<want, into, healed, resident, claim, disk, crashes>>

\* It holds none: a compile begins, and its file is unfinished.
StartCompile(e) ==
    /\ At(e, "launching")
    /\ path # Absent
    /\ disk[path] = Absent
    /\ into' = [into EXCEPT ![e] = path]
    /\ disk' = [disk EXCEPT ![path] = [made_for |-> Slice(e), sound |-> FALSE]]
    /\ Goto(e, "compiling")
    /\ UNCHANGED <<want, loaded, healed, resident, claim, crashes>>

FinishCompile(e) ==
    /\ At(e, "compiling")
    /\ disk' = [disk EXCEPT ![into[e]] = [made_for |-> Slice(e), sound |-> TRUE]]
    /\ loaded' = [loaded EXCEPT ![e] = disk'[into[e]]]
    /\ Goto(e, "launched")
    /\ UNCHANGED <<want, into, healed, resident, claim, crashes>>

\* The compile answers an error: the session has launched nothing, and its
\* unfinished program stays in the slice.
CompileFails(e) ==
    /\ At(e, "compiling")
    /\ Goto(e, "launching")
    /\ UNCHANGED <<request, resident, claim, disk, crashes>>

\* The process dies and the host starts it again: only the disk remembers.
Crash ==
    /\ crashes < MaxCrashes
    /\ crashes' = crashes + 1
    /\ pc' = [e \in Engines |-> "idle"]
    /\ want' = [e \in Engines |-> Absent]
    /\ resident' = [e \in Engines |-> [s \in Shapes |-> Absent]]
    /\ loaded' = [e \in Engines |-> Absent]
    /\ into' = [e \in Engines |-> Absent]
    /\ healed' = [e \in Engines |-> "no"]
    /\ lease' = "none"
    /\ path' = Absent
    /\ UNCHANGED disk
-----------------------------------------------------------------------------
(***************************************************************************)
(* load_validated_dual, and the two first passes.                          *)
(***************************************************************************)
Own(e) == loaded[e] = [made_for |-> Slice(e), sound |-> TRUE]

\* Mutant of CanaryPasses: the engine rebuilt after a wipe is not checked again.
CanaryPassesOnceHealed(e) ==
    /\ e = "embed"
    /\ At(e, "launched")
    /\ Own(e) \/ healed[e] # "no"
    /\ Keep(e, loaded[e])
    /\ Goto(e, "serving")
    /\ UNCHANGED <<request, claim, disk, crashes>>

\* The canary matches the reference: only the engine's own sound program does.
CanaryPasses(e) ==
    /\ e = "embed"
    /\ At(e, "launched")
    /\ Own(e)
    /\ Keep(e, loaded[e])
    /\ Goto(e, "serving")
    /\ UNCHANGED <<request, claim, disk, crashes>>

\* Mutant of WipeAndRebuild: the rebuild loads the slice that failed.
RebuildWithoutWiping(e) ==
    /\ e = "embed"
    /\ pc[e] \in {"launching", "launched"}
    /\ healed[e] = "no"
    /\ healed' = [healed EXCEPT ![e] = "wiped"]
    /\ Goto(e, "building")
    /\ UNCHANGED <<want, loaded, into, resident, claim, disk, crashes>>

\* wipe() removes the slice under the lease, or swallows the error of a directory
\* it could not remove.
Wipe(e) ==
    \/ /\ healed' = [healed EXCEPT ![e] = "wiped"]
       /\ disk' = [disk EXCEPT ![Slice(e)] = Absent]
    \/ /\ healed' = [healed EXCEPT ![e] = "unwiped"]
       /\ UNCHANGED disk

\* The canary never settled, or was rejected before it launched: the slice is
\* wiped and one clean rebuild follows.
WipeAndRebuild(e) ==
    /\ e = "embed"
    /\ pc[e] \in {"launching", "launched"}
    /\ healed[e] = "no"
    /\ Wipe(e)
    /\ loaded' = [loaded EXCEPT ![e] = Absent]
    /\ Goto(e, "building")
    /\ UNCHANGED <<want, into, resident, claim, crashes>>

\* Still failing after the clean recompile: refuse to serve.
GiveUp(e) ==
    /\ e = "embed"
    /\ pc[e] \in {"launching", "launched"}
    /\ healed[e] # "no"
    /\ Unhold(e)
    /\ Goto(e, "idle")
    /\ UNCHANGED <<request, resident, disk, crashes>>

\* The reranker has no canary: what its first pass launched is what it keeps.
RerankLaunched(e) ==
    /\ e = "rerank"
    /\ At(e, "launched")
    /\ Keep(e, loaded[e])
    /\ Goto(e, "serving")
    /\ UNCHANGED <<request, claim, disk, crashes>>

\* rerank() answered Err before its first launch: the session stays filed.
RerankErrs(e) ==
    /\ e = "rerank"
    /\ At(e, "launching")
    /\ Unhold(e)
    /\ Goto(e, "idle")
    /\ UNCHANGED <<request, resident, disk, crashes>>

\* The pass ended, with rows or with an error; a claim ends with it.
Served(e) ==
    /\ At(e, "serving")
    /\ Unhold(e)
    /\ Goto(e, "idle")
    /\ UNCHANGED <<request, resident, disk, crashes>>

\* An eviction, or a drain by /unload or the idle unloader.
Evict(e, s) ==
    /\ At(e, "idle")
    /\ resident[e][s] # Absent
    /\ resident' = [resident EXCEPT ![e][s] = Absent]
    /\ UNCHANGED <<pc, request, claim, disk, crashes>>

Next ==
    \/ \E e \in Engines :
        \/ \E s \in ShapesOf(e) : Request(e, s) \/ Evict(e, s)
        \/ Hold(e) \/ BuildFails(e) \/ BuildOk(e)
        \/ LaunchFromCache(e) \/ StartCompile(e) \/ FinishCompile(e)
        \/ CompileFails(e)
        \/ CanaryPasses(e) \/ WipeAndRebuild(e) \/ GiveUp(e)
        \/ RerankLaunched(e) \/ RerankErrs(e) \/ Served(e)
    \/ Crash

Spec == Init /\ [][Next]_vars
-----------------------------------------------------------------------------
(***************************************************************************)
(* Properties.                                                             *)
(***************************************************************************)

\* Never serve unverified embeddings: whatever crashes, wipes and foreign
\* programs came before, a resident rung runs the finished program of its own
\* shape.
ResidentRungsAreVerified ==
    \A s \in EmbedShapes :
        resident["embed"][s] # Absent
            => resident["embed"][s] = [made_for |-> <<"embed", s>>, sound |-> TRUE]

\* The 2026-07-27 incident: no program of an embed session is ever compiled into
\* another engine's slice, nor into the slice of another shape.
EmbedCompilesIntoItsOwnSlice ==
    \A d \in Slices : disk[d] # Absent /\ disk[d].made_for[1] = "embed" => disk[d].made_for = d

\* The claim covers the build and the first launch: while an engine stands
\* between them the path cannot be redirected from under it.
PathStaysWithTheBuild ==
    \A e \in Engines :
        (\/ At(e, "building")
         \/ e = "embed" /\ pc[e] \in {"launching", "compiling", "launched"})
            => lease = e /\ path = Slice(e)

\* The heal cannot be undone by what it heals: once the wipe has succeeded, the
\* rebuilt engine never loads the program its canary has just rejected.
RebuildStartsClean ==
    [][\A e \in Engines :
        At(e, "building") /\ healed[e] = "wiped" /\ pc'[e] = "launching" =>
            disk[Slice(e)] = Absent \/ disk[Slice(e)].made_for[1] # "embed"]_vars

(***************************************************************************)
(* The inductive invariant behind them: what a request under way knows.    *)
(***************************************************************************)
RequestsAreOwn ==
    \A e \in Engines :
        /\ ~At(e, "idle") => want[e] \in ShapesOf(e)
        /\ At(e, "compiling") => into[e] \in Slices
        /\ e = "embed" /\ At(e, "compiling") => into[e] = Slice(e)
        /\ At(e, "launched") => loaded[e] \in Programs

\* Only the embedder heals, and what it wiped stays free of its own programs
\* until the rebuilt session launches.
WipedStaysClean ==
    /\ healed["rerank"] = "no"
    /\ At("embed", "claiming") => healed["embed"] = "no"
    /\ At("embed", "building") /\ healed["embed"] = "wiped" =>
          \/ disk[Slice("embed")] = Absent
          \/ disk[Slice("embed")].made_for[1] # "embed"

IInv ==
    /\ TypeOK
    /\ ResidentRungsAreVerified
    /\ EmbedCompilesIntoItsOwnSlice
    /\ PathStaysWithTheBuild
    /\ RequestsAreOwn
    /\ WipedStaysClean

(***************************************************************************)
(* What the repository says and the code does not do.                      *)
(***************************************************************************)

\* The claim is "held across the build and that engine's first pass", so that no
\* engine runs a program compiled for another. A first rerank pass that errs
\* before its launch drops the claim and keeps the session, and the next pass
\* launches it under whatever path was set last.
RerankRunsItsOwnProgram ==
    At("rerank", "serving") =>
        resident["rerank"][RerankShape].made_for = <<"rerank", RerankShape>>
=============================================================================
