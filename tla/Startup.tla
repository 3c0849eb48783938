------------------------------- MODULE Startup -------------------------------
(* How sidecars that share a model cache start (src/src/main.rs, main;       *)
(* src/src/preflight.rs): the checks that end the process, the seeding of    *)
(* the cache from MODEL_CACHE_SEED_DIR, the tokenizers that are read once,   *)
(* and the port.  A sidecar may be killed at any point and started again,    *)
(* and a second one may be starting meanwhile.                               *)
(*                                                                           *)
(* A file is the sequence of its blocks, Size of them when it is whole.      *)
(* fs::copy truncates the target and writes block after block at its own     *)
(* offset, so a block written past the end leaves a hole before it.  The     *)
(* seed directory is never written and all its files are whole.              *)
EXTENDS Integers, Sequences, FiniteSets

CONSTANTS
    Sidecars,
    Files,          \* the files of the seed directory
    Tokenizer,      \* the one among them the registry reads
    Size,           \* blocks of a file
    NoFile,         \* no file is being copied, or none is in the cache
    MaxBoots,       \* bound on the starts of all sidecars together
    MaxFaults       \* bound on file system errors

Blocks == {"good", "hole"}

ASSUME StartupAssumption ==
    /\ Tokenizer \in Files /\ NoFile \notin Files /\ NoFile \notin Seq(Blocks)
    /\ Size \in Nat \ {0}
    /\ MaxBoots \in Nat /\ MaxFaults \in Nat

VARIABLES
    pc,         \* per sidecar: the line of main it has come to
    refuses,    \* per sidecar: the check its machine and settings fail, if any
    seeds,      \* per sidecar: MODEL_CACHE_SEED_DIR names a directory
    todo,       \* per sidecar: seed files the loop has not come to
    copying,    \* per sidecar: the file it found missing or of another size
    offset,     \* per sidecar: blocks written of it, -1 before the target is open
    counts,     \* per sidecar: the registry holds the tokenizer
    cache,      \* the model cache: per file its blocks, or NoFile
    boots, faults,
    crossed,    \* history: files that two starts were copying at once
    marred      \* history: per sidecar, this start met an error or another start

vars == <<pc, refuses, seeds, todo, copying, offset, counts, cache, boots, faults,
          crossed, marred>>

Checks == {"dylib", "mxr", "provider"}
Points == {"off", "seeding", "tokenizers", "threads", "bind", "serving"} \cup Checks

Whole(f) == cache[f] = [i \in 1 .. Size |-> "good"]
SameSize(f) == cache[f] # NoFile /\ Len(cache[f]) = Size

Init == /\ pc = [s \in Sidecars |-> "off"]
        /\ refuses = [s \in Sidecars |-> {}]
        /\ seeds = [s \in Sidecars |-> FALSE]
        /\ todo = [s \in Sidecars |-> {}]
        /\ copying = [s \in Sidecars |-> NoFile]
        /\ offset = [s \in Sidecars |-> -1]
        /\ counts = [s \in Sidecars |-> FALSE]
        /\ cache = [f \in Files |-> NoFile]
        /\ boots = 0 /\ faults = 0
        /\ crossed = {}
        /\ marred = [s \in Sidecars |-> FALSE]

Seeding(s) == pc[s] = "seeding"

(* An error of the file system in the middle of s's start. *)
Fault(s) == /\ faults < MaxFaults /\ faults' = faults + 1
            /\ marred' = [marred EXCEPT ![s] = TRUE]

(* Mutant of After: the registry is read before the cache is seeded. *)
AfterReadingFirst(p) == IF p = "dylib" THEN "mxr" ELSE IF p = "mxr" THEN "tokenizers"
                        ELSE IF p = "tokenizers" THEN "seeding"
                        ELSE IF p = "seeding" THEN "provider"
                        ELSE IF p = "provider" THEN "threads" ELSE "bind"

(* main, in the order of its lines. *)
After(p) == IF p = "dylib" THEN "mxr" ELSE IF p = "mxr" THEN "seeding"
            ELSE IF p = "seeding" THEN "provider" ELSE IF p = "provider" THEN "tokenizers"
            ELSE IF p = "tokenizers" THEN "threads" ELSE "bind"

GoOn(s) == pc' = [pc EXCEPT ![s] = After(pc[s])]

-----------------------------------------------------------------------------
(* A process is started on a machine that passes some of the checks. *)
Boot(s) ==
    /\ pc[s] = "off" /\ boots < MaxBoots
    /\ boots' = boots + 1
    /\ pc' = [pc EXCEPT ![s] = "dylib"]
    /\ \E some \in {{}} \cup { {c} : c \in Checks } :
          refuses' = [refuses EXCEPT ![s] = some]
    /\ \E set \in BOOLEAN :
          /\ seeds' = [seeds EXCEPT ![s] = set]
          /\ todo' = [todo EXCEPT ![s] = IF set THEN Files ELSE {}]
    /\ counts' = [counts EXCEPT ![s] = FALSE]
    /\ marred' = [marred EXCEPT ![s] = FALSE]
    /\ UNCHANGED <<copying, offset, cache, faults, crossed>>

(* The process ends: a check exits, bind panics, or it is killed. *)
Gone(s) == /\ pc' = [pc EXCEPT ![s] = "off"]
           /\ todo' = [todo EXCEPT ![s] = {}]
           /\ copying' = [copying EXCEPT ![s] = NoFile]
           /\ offset' = [offset EXCEPT ![s] = -1]

(* preflight_ort_dylib and preflight_migraphx_cache exit 1, the preflight of *)
(* a provider that is already pinned exits 2.                                *)
Refuse(s) == /\ pc[s] \in Checks /\ pc[s] \in refuses[s]
             /\ Gone(s)
             /\ UNCHANGED <<refuses, seeds, counts, cache, boots, faults, crossed, marred>>

(* The checks are passed; where the seeding is next, this start and any      *)
(* other one that has not read its tokenizers yet are no longer alone.       *)
Passed(s) ==
    /\ pc[s] \in Checks /\ pc[s] \notin refuses[s]
    /\ GoOn(s)
    /\ marred' = IF After(pc[s]) # "seeding" THEN marred
                 ELSE [t \in Sidecars |->
                         \/ marred[t]
                         \/ t = s /\ \E u \in Sidecars : Seeding(u)
                         \/ t # s /\ pc[t] \in {"seeding", "provider", "tokenizers"}]
    /\ UNCHANGED <<refuses, seeds, todo, copying, offset, counts, cache, boots,
                   faults, crossed>>

-----------------------------------------------------------------------------
(* The seed directory cannot be read: a warning, and nothing is copied. *)
SeedUnreadable(s) ==
    /\ Seeding(s) /\ todo[s] = Files /\ copying[s] = NoFile /\ Fault(s)
    /\ todo' = [todo EXCEPT ![s] = {}]
    /\ UNCHANGED <<pc, refuses, seeds, copying, offset, counts, cache, boots, crossed>>

(* Mutant of UpToDate: any file of the name will do. *)
UpToDateIfThere(f, size) == cache[f] # NoFile

(* up_to_date: the target is as long as the source was measured to be. *)
UpToDate(f, size) == cache[f] # NoFile /\ Len(cache[f]) = size

(* The loop body up to the copy: a file of the same size is passed over.  A  *)
(* source that cannot be measured counts as empty.                           *)
Measure(s) ==
    \E f \in todo[s], size \in {0, Size} :
      /\ Seeding(s) /\ copying[s] = NoFile
      /\ todo' = [todo EXCEPT ![s] = @ \ {f}]
      /\ IF size = Size THEN UNCHANGED <<faults, marred>> ELSE Fault(s)
      /\ IF UpToDate(f, size)
           THEN UNCHANGED <<copying, crossed>>
           ELSE /\ copying' = [copying EXCEPT ![s] = f]
                /\ crossed' = IF \E t \in Sidecars : copying[t] = f
                                THEN crossed \cup {f} ELSE crossed
      /\ UNCHANGED <<pc, refuses, seeds, offset, counts, cache, boots>>

(* fs::copy opens the target and empties it. *)
Truncate(s) ==
    /\ copying[s] # NoFile /\ offset[s] = -1
    /\ offset' = [offset EXCEPT ![s] = 0]
    /\ cache' = [cache EXCEPT ![copying[s]] = <<>>]
    /\ UNCHANGED <<pc, refuses, seeds, todo, copying, counts, boots, faults, crossed, marred>>

(* The blocks after one is written at an offset of another writer's file. *)
Written(blocks, at) ==
    [i \in 1 .. (IF Len(blocks) > at THEN Len(blocks) ELSE at + 1) |->
        IF i = at + 1 THEN "good" ELSE IF i <= Len(blocks) THEN blocks[i] ELSE "hole"]

(* Mutant of WriteAt: the length of the target is set before it is written. *)
WriteAtPreallocated(f, at) ==
    [cache EXCEPT ![f] = [i \in 1 .. Size |-> IF i <= at + 1 THEN "good" ELSE "hole"]]

WriteAt(f, at) == [cache EXCEPT ![f] = Written(@, at)]

WriteBlock(s) ==
    /\ offset[s] \in 0 .. Size - 1
    /\ cache' = WriteAt(copying[s], offset[s])
    /\ offset' = [offset EXCEPT ![s] = @ + 1]
    /\ UNCHANGED <<pc, refuses, seeds, todo, copying, counts, boots, faults, crossed, marred>>

Copied(s) ==
    /\ offset[s] = Size
    /\ copying' = [copying EXCEPT ![s] = NoFile]
    /\ offset' = [offset EXCEPT ![s] = -1]
    /\ UNCHANGED <<pc, refuses, seeds, todo, counts, cache, boots, faults, crossed, marred>>

(* The directory, the target or a block cannot be written: a warning, what   *)
(* was written stays, and the loop goes on with the next file.               *)
CopyFails(s) ==
    /\ copying[s] # NoFile /\ offset[s] # Size /\ Fault(s)
    /\ copying' = [copying EXCEPT ![s] = NoFile]
    /\ offset' = [offset EXCEPT ![s] = -1]
    /\ UNCHANGED <<pc, refuses, seeds, todo, counts, cache, boots, crossed>>

Seeded(s) ==
    /\ Seeding(s) /\ todo[s] = {} /\ copying[s] = NoFile
    /\ GoOn(s)
    /\ UNCHANGED <<refuses, seeds, todo, copying, offset, counts, cache, boots, faults,
                   crossed, marred>>

-----------------------------------------------------------------------------
(* TokenizerRegistry::load: each file is looked for and parsed once; one     *)
(* that is absent or not whole is registered as unavailable for good.        *)
LoadTokenizers(s) ==
    /\ pc[s] = "tokenizers"
    /\ counts' = [counts EXCEPT ![s] = Whole(Tokenizer)]
    /\ GoOn(s)
    /\ UNCHANGED <<refuses, seeds, todo, copying, offset, cache, boots, faults, crossed, marred>>

(* prewarm_provenance, the wedge watchdog and the idle unloader. *)
SpawnThreads(s) ==
    /\ pc[s] = "threads"
    /\ GoOn(s)
    /\ UNCHANGED <<refuses, seeds, todo, copying, offset, counts, cache, boots, faults,
                   crossed, marred>>

(* --write-canary-reference: the process writes the oracle and leaves. *)
WriteReference(s) ==
    /\ pc[s] = "threads"
    /\ Gone(s)
    /\ UNCHANGED <<refuses, seeds, counts, cache, boots, faults, crossed, marred>>

PortTaken(s) == \E t \in Sidecars \ {s} : pc[t] = "serving"

Bind(s) ==
    /\ pc[s] = "bind" /\ ~PortTaken(s)
    /\ pc' = [pc EXCEPT ![s] = "serving"]
    /\ UNCHANGED <<refuses, seeds, todo, copying, offset, counts, cache, boots, faults,
                   crossed, marred>>

(* expect("bind failed"). *)
BindPanics(s) ==
    /\ pc[s] = "bind" /\ PortTaken(s)
    /\ Gone(s)
    /\ UNCHANGED <<refuses, seeds, counts, cache, boots, faults, crossed, marred>>

(* Killed, or told to stop. *)
Kill(s) ==
    /\ pc[s] # "off"
    /\ Gone(s)
    /\ UNCHANGED <<refuses, seeds, counts, cache, boots, faults, crossed, marred>>

Main(s) == \/ Refuse(s) \/ Passed(s)
           \/ SeedUnreadable(s) \/ Measure(s) \/ Truncate(s) \/ WriteBlock(s)
           \/ Copied(s) \/ CopyFails(s) \/ Seeded(s)
           \/ LoadTokenizers(s) \/ SpawnThreads(s) \/ WriteReference(s)
           \/ Bind(s) \/ BindPanics(s)

Next == \E s \in Sidecars : Boot(s) \/ Main(s) \/ Kill(s)

Spec == Init /\ [][Next]_vars

-----------------------------------------------------------------------------
TypeOK ==
    /\ pc \in [Sidecars -> Points]
    /\ refuses \in [Sidecars -> SUBSET Checks]
    /\ seeds \in [Sidecars -> BOOLEAN]
    /\ todo \in [Sidecars -> SUBSET Files]
    /\ copying \in [Sidecars -> Files \cup {NoFile}]
    /\ offset \in [Sidecars -> -1 .. Size]
    /\ counts \in [Sidecars -> BOOLEAN]
    /\ cache \in [Files -> Seq(Blocks) \cup {NoFile}]
    /\ boots \in 0 .. MaxBoots /\ faults \in 0 .. MaxFaults
    /\ crossed \subseteq Files
    /\ marred \in [Sidecars -> BOOLEAN]

(* The size is a sound test of a copy that was cut short, at whatever block  *)
(* the process was killed or the disk refused: a file of the right size is   *)
(* whole, unless two starts were copying it at once (preflight.rs,           *)
(* copy_missing_files).                                                      *)
SameSizeIsWhole == \A f \in Files : SameSize(f) => Whole(f) \/ f \in crossed

(* A start repairs what earlier starts left: when its seeding met no error   *)
(* and no other start, every file of the seed is whole in the cache when the *)
(* loop ends (preflight.rs, copy_missing_files; crossed files excepted).     *)
SeedingRepairs ==
    [][\A s \in Sidecars : Seeding(s) /\ pc'[s] \notin {"seeding", "off"} /\ seeds[s] /\ ~marred[s]
          => \A f \in Files : Whole(f) \/ f \in crossed]_vars

(* A whole file stays whole while starts come and go, so a sidecar that is   *)
(* serving from it never sees it cut: only a start that could not measure    *)
(* its source, or two starts copying the file at once, can take it away      *)
(* (preflight.rs, copy_missing_files: never overwrites a same-size file).    *)
WholeFilesStay ==
    [][\A f \in Files : Whole(f) /\ ~Whole(f)'
          => f \in crossed \/ \E s \in Sidecars : marred[s] /\ copying[s] = f]_vars

(* A sidecar that serves after an unmarred seeding counts tokens from its    *)
(* first request: the registry is never read again, so it has to be read     *)
(* when the seeding is over (main.rs and tokens.rs, TokenizerRegistry::load).*)
CountsFromTheFirstStart ==
    \A s \in Sidecars : pc[s] = "serving" /\ seeds[s] /\ ~marred[s]
                          => counts[s] \/ Tokenizer \in crossed

-----------------------------------------------------------------------------
(* The inductive invariant of the theorems. *)

(* Only a seeding start is in the middle of a copy, of a file it has taken   *)
(* from its list.                                                            *)
CopyingIsSeeding ==
    \A s \in Sidecars :
      /\ copying[s] # NoFile => Seeding(s) /\ copying[s] \notin todo[s]
      /\ copying[s] = NoFile => offset[s] = -1
      /\ todo[s] # {} => pc[s] \in {"dylib", "mxr", "seeding"}

(* One start at a time copies a file that never was crossed. *)
OneCopier == \A s, t \in Sidecars :
    s # t /\ copying[s] # NoFile /\ copying[s] = copying[t] => copying[s] \in crossed

(* Such a file is good as far as it goes, which is as far as its copier is.  *)
GoodSoFar == \A f \in Files \ crossed : cache[f] # NoFile =>
    /\ Len(cache[f]) <= Size
    /\ \A i \in 1 .. Len(cache[f]) : cache[f][i] = "good"
    /\ \A s \in Sidecars : copying[s] = f /\ offset[s] # -1 => Len(cache[f]) = offset[s]

OpenIsThere == \A s \in Sidecars : offset[s] # -1 => cache[copying[s]] # NoFile

(* An unmarred start is alone with the cache until it has read its           *)
(* tokenizers, and what it has passed in the seed directory is whole.        *)
Alone == \A s, t \in Sidecars :
    s # t /\ ~marred[s] /\ pc[s] \in {"seeding", "provider", "tokenizers"} => ~Seeding(t)

ListIsFull == \A s \in Sidecars :
    seeds[s] /\ ~marred[s] /\ pc[s] \in {"dylib", "mxr"} => todo[s] = Files

(* What an unmarred start has found wanting, it may cut.                     *)
CutIsWanting == \A s \in Sidecars :
    copying[s] # NoFile /\ offset[s] = -1 /\ ~marred[s] =>
      ~SameSize(copying[s]) \/ copying[s] \in crossed

PassedIsWhole == \A s \in Sidecars :
    seeds[s] /\ ~marred[s] /\ pc[s] \in {"seeding", "provider", "tokenizers"} =>
      \A f \in Files : f \in todo[s] \/ copying[s] = f \/ Whole(f) \/ f \in crossed

ReadIsKept == \A s \in Sidecars :
    seeds[s] /\ ~marred[s] /\ pc[s] \in {"threads", "bind", "serving"} =>
      counts[s] \/ Tokenizer \in crossed

IInv == /\ TypeOK
        /\ CopyingIsSeeding /\ OneCopier /\ GoodSoFar /\ OpenIsThere
        /\ Alone /\ CutIsWanting /\ ListIsFull /\ PassedIsWhole /\ ReadIsKept

-----------------------------------------------------------------------------
(* What the documentation says of the seeding: never overwrites a same-size  *)
(* file (preflight.rs, copy_missing_files).                                  *)
SameSizeIsNeverOverwritten ==
    [][\A f \in Files : SameSize(f) => cache'[f] = cache[f]]_vars
=============================================================================
