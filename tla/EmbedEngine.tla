----------------------------- MODULE EmbedEngine -----------------------------
(***************************************************************************)
(* The embedding engine slot: the mutex around the rung cache, the         *)
(* lock-free commitment a query inherits, the in-flight stamp, and the     *)
(* blocking threads that meet there - /embed passes (embed_blocking,       *)
(* embed_natural) and drains (/unload and the idle unloader, both          *)
(* drain_engines). A step is one effect another thread can observe; what   *)
(* only the lock holder sees is merged into the step that publishes it.    *)
(*                                                                         *)
(* Time is abstracted: a held lock may refuse a waiter at any moment.      *)
(***************************************************************************)
EXTENDS RungCache

CONSTANTS
    Requests,       \* blocking threads that serve /embed
    Unloaders,      \* blocking threads that drain
    NoOne,          \* the owner of a free lock
    Caps,           \* sequence caps a request may state, after Limits::resolve
    Batches,        \* batch sizes a request may state
    Capacity,       \* RungCache::capacity, from EMBED_ENGINE_CACHE_RUNGS
    MaxTeardowns,   \* bound: engine-teardown threads alive at once
    MaxRivals       \* bound: builds the rerank engine starts beside one burst of
                    \* calls; 0 is a sidecar without a compiled-model cache

\* Limits::resolve clamps max_length to 16..8192 and RungCache::new takes
\* capacity.max(1), so 0 in committed_embed_cap can only mean "none".
ASSUME EmbedAssumption ==
    /\ Requests \cap Unloaders = {}
    /\ NoOne \notin Requests \cup Unloaders
    /\ Caps \subseteq Nat \ {0}
    /\ Batches \subseteq Nat \ {0}
    /\ Capacity \in Nat \ {0}
    /\ {MaxTeardowns, MaxRivals} \subseteq Nat

Threads == Requests \cup Unloaders

VARIABLES
    pc,                 \* where each thread stands
    kind,               \* what each request called itself
    cap, batch,         \* each request's Limits: as stated, then as cap_for settled them
    full, scope,        \* what each drain has still to take: everything, or named caps
    owner, poisoned,    \* the mutex Engines::embed
    rungs,              \* the RungCache it guards
    committed,          \* AppState::committed_embed_cap
    inflight,           \* Engines::embed_inflight, reduced to its phase
    loaded_max_batch,   \* AppState::loaded_max_batch, 0 for None
    teardowns,          \* evicted sessions still being torn down off the lock
    lease,              \* CACHE_PATH_LOCK: ours, or the rerank engine's, or lost with it
    rivals,             \* builds the rerank engine started so far
    suspect,            \* history: rungs that were resident when a panic struck
    stale,              \* history: a panic struck and committed was not written since
    ran                 \* history: the batches forward passes were started with

request == <<kind, cap, batch>>
drain   == <<full, scope>>
mutex   == <<owner, poisoned>>
slot    == <<rungs, suspect>>
mirror  == <<committed, stale>>
report  == <<loaded_max_batch, ran>>
engine  == <<pc, request, drain, mutex, slot, mirror, inflight, report, teardowns>>
path    == <<lease, rivals>>
vars    == <<engine, path>>

Kinds  == {"doc", "query"}
Phases == {"none", "Building", "Running"}

\* The program points between acquiring the engine lock and releasing it.
InPass  == {"held", "claiming", "building", "settled", "running", "stuck",
            "unwinding", "panicking"}
Holding == InPass \cup {"draining", "releasing", "poisoning"}
Points  == Holding \cup {"idle", "asked", "waiting", "dropping", "done"}
-----------------------------------------------------------------------------
TypeOK ==
    /\ pc \in [Threads -> Points]
    /\ kind \in [Requests -> Kinds]
    /\ cap \in [Requests -> Caps \cup {0}]
    /\ batch \in [Requests -> Batches \cup {0}]
    /\ full \in [Unloaders -> BOOLEAN]
    /\ scope \in [Unloaders -> SUBSET Caps]
    /\ owner \in Threads \cup {NoOne}
    /\ poisoned \in BOOLEAN
    /\ rungs \in Seq(Caps)
    /\ committed \in Caps \cup {0}
    /\ inflight \in Phases
    /\ loaded_max_batch \in Batches \cup {0}
    /\ teardowns \in 0..MaxTeardowns
    /\ lease \in {"free", "ours", "theirs", "lost"}
    /\ rivals \in 0..MaxRivals
    /\ suspect \subseteq Caps
    /\ stale \in BOOLEAN
    /\ ran \subseteq Batches

Init ==
    /\ pc = [t \in Threads |-> "idle"]
    /\ kind = [r \in Requests |-> "doc"]
    /\ cap = [r \in Requests |-> 0]
    /\ batch = [r \in Requests |-> 0]
    /\ full = [u \in Unloaders |-> FALSE]
    /\ scope = [u \in Unloaders |-> {}]
    /\ owner = NoOne
    /\ poisoned = FALSE
    /\ rungs = <<>>
    /\ committed = 0
    /\ inflight = "none"
    /\ loaded_max_batch = 0
    /\ teardowns = 0
    /\ lease = "free"
    /\ rivals = 0
    /\ suspect = {}
    /\ stale = FALSE
    /\ ran = {}

At(t, point)   == pc[t] = point
Goto(t, point) == pc' = [pc EXCEPT ![t] = point]
-----------------------------------------------------------------------------
(***************************************************************************)
(* The engine lock, shared by both kinds of thread (lock_or_refuse).       *)
(***************************************************************************)

\* try_lock answered Ok: the guard is ours and the cache is as it was left.
Acquire(t) ==
    /\ At(t, "waiting")
    /\ owner = NoOne
    /\ ~poisoned
    /\ owner' = t
    /\ Goto(t, IF t \in Requests THEN "held" ELSE "draining")
    /\ UNCHANGED <<request, drain, poisoned, slot, mirror, inflight, report, teardowns, path>>

\* Mutant of Heal: the poison is cleared and the engines are kept.
HealKeepsEngines(t) ==
    /\ At(t, "waiting")
    /\ owner = NoOne
    /\ poisoned
    /\ owner' = t
    /\ poisoned' = FALSE
    /\ Goto(t, IF t \in Requests THEN "held" ELSE "draining")
    /\ UNCHANGED <<request, drain, slot, mirror, inflight, report, teardowns, path>>

\* try_lock answered Poisoned: clear the poison, discard every engine, go on.
\* The commitment is left to whatever this thread does next.
Heal(t) ==
    /\ At(t, "waiting")
    /\ owner = NoOne
    /\ poisoned
    /\ owner' = t
    /\ poisoned' = FALSE
    /\ rungs' = <<>>
    /\ suspect' = {}
    /\ Goto(t, IF t \in Requests THEN "held" ELSE "draining")
    /\ UNCHANGED <<request, drain, mirror, inflight, report, teardowns, path>>

\* Mutant of Refuse: only a drain has a ceiling, a pass queues forever.
RefuseOnlyDrains(t) ==
    /\ t \in Unloaders
    /\ At(t, "waiting")
    /\ owner # NoOne
    /\ Goto(t, "done")
    /\ UNCHANGED <<request, drain, mutex, slot, mirror, inflight, report, teardowns, path>>

\* The wait passed a ceiling: the holder's (a wedge) or the caller's patience.
Refuse(t) ==
    /\ At(t, "waiting")
    /\ owner # NoOne
    /\ Goto(t, "done")
    /\ UNCHANGED <<request, drain, mutex, slot, mirror, inflight, report, teardowns, path>>

\* The guard is dropped. A guard dropped by an unwinding panic poisons the lock.
Release(t) ==
    /\ pc[t] \in {"releasing", "poisoning"}
    /\ owner' = NoOne
    /\ poisoned' = At(t, "poisoning")
    /\ Goto(t, IF t \in Requests THEN "done" ELSE "dropping")
    /\ UNCHANGED <<request, drain, slot, mirror, inflight, report, teardowns, path>>
-----------------------------------------------------------------------------
(***************************************************************************)
(* /embed: handlers::embed, embed_blocking and embed_natural.              *)
(***************************************************************************)

\* The handler resolved the request's limits and handed it to a blocking thread.
Arrive(r, k, c, b) ==
    /\ At(r, "idle")
    /\ kind' = [kind EXCEPT ![r] = k]
    /\ cap' = [cap EXCEPT ![r] = c]
    /\ batch' = [batch EXCEPT ![r] = b]
    /\ Goto(r, "asked")
    /\ UNCHANGED <<drain, mutex, slot, mirror, inflight, report, teardowns, path>>

\* cap_for: a query runs at what is loaded, a doc at what it stated.
CapFor(k, requested, loaded) ==
    IF k = "query" /\ loaded # 0 THEN loaded ELSE requested

\* Mutant of Decide: every request stamps the commitment with its own cap.
DecideStampsTheCommitment(r) ==
    /\ At(r, "asked")
    /\ cap' = [cap EXCEPT ![r] = CapFor(kind[r], cap[r], committed)]
    /\ committed' = cap'[r]
    /\ loaded_max_batch' = batch[r]
    /\ Goto(r, "waiting")
    /\ UNCHANGED <<kind, batch, drain, mutex, slot, stale, inflight, ran, teardowns, path>>

\* Before the lock: read the commitment, settle the cap, record the batch.
Decide(r) ==
    /\ At(r, "asked")
    /\ cap' = [cap EXCEPT ![r] = CapFor(kind[r], cap[r], committed)]
    /\ loaded_max_batch' = batch[r]
    /\ Goto(r, "waiting")
    /\ UNCHANGED <<kind, batch, drain, mutex, slot, mirror, inflight, ran, teardowns, path>>

\* settle_cap: the commitment follows what the cache holds.
Settle(resident) ==
    /\ committed' = MostRecent(resident)
    /\ stale' = FALSE

\* get_mut found the rung and made it most recently used.
Hit(r) ==
    /\ At(r, "held")
    /\ Resident(rungs, cap[r])
    /\ rungs' = Promote(rungs, cap[r])
    /\ Settle(rungs')
    /\ Goto(r, "settled")
    /\ UNCHANGED <<request, drain, mutex, suspect, inflight, report, teardowns, path>>

\* get_mut found nothing: stamp the build before anything else.
Miss(r) ==
    /\ At(r, "held")
    /\ ~Resident(rungs, cap[r])
    /\ inflight' = "Building"
    /\ Goto(r, "claiming")
    /\ UNCHANGED <<request, drain, mutex, slot, mirror, report, teardowns, path>>

\* CachePathLease::hold, a blocking lock() with no ceiling, taken under the
\* engine lock; then commit_cap: queries that arrive during the build inherit
\* its cap.
Commit(r) ==
    /\ At(r, "claiming")
    /\ lease = "free"
    /\ lease' = "ours"
    /\ committed' = cap[r]
    /\ stale' = FALSE
    /\ Goto(r, "building")
    /\ UNCHANGED <<request, drain, mutex, slot, inflight, report, teardowns, rivals>>

\* A pass that built lets go of the cache path on every way out; one that
\* found its rung resident holds nothing.
LetGo == lease' = (IF lease = "ours" THEN "free" ELSE lease)

\* The session was built and verified: remember_engine files it, and the rung
\* that made room goes to a teardown thread of its own.
BuildOk(r) ==
    /\ At(r, "building")
    /\ rungs' = Insert(rungs, cap[r], Capacity)
    /\ suspect' = suspect \ {cap[r]}
    /\ \/ /\ Evicts(rungs, cap[r], Capacity)
          /\ teardowns < MaxTeardowns
          /\ teardowns' = teardowns + 1
       \/ /\ ~Evicts(rungs, cap[r], Capacity)
          /\ UNCHANGED teardowns
    /\ Settle(rungs')
    /\ Goto(r, "settled")
    /\ UNCHANGED <<request, drain, mutex, inflight, report, path>>

\* Mutant of BuildErr: the claim of a failed build is not rolled back.
BuildErrKeepsTheClaim(r) ==
    /\ At(r, "building")
    /\ Goto(r, "unwinding")
    /\ LetGo
    /\ UNCHANGED <<request, drain, mutex, slot, mirror, inflight, report, teardowns, rivals>>

\* The build or its canary answered Err: the commitment is rolled back.
BuildErr(r) ==
    /\ At(r, "building")
    /\ Settle(rungs)
    /\ Goto(r, "unwinding")
    /\ LetGo
    /\ UNCHANGED <<request, drain, mutex, slot, inflight, report, teardowns, rivals>>

\* Mutant of EnterRunning: the pass runs on under the stamp of the build.
EnterRunningUnstamped(r) ==
    /\ At(r, "settled")
    /\ ran' = ran \cup {batch[r]}
    /\ Goto(r, "running")
    /\ UNCHANGED <<request, drain, mutex, slot, mirror, inflight, loaded_max_batch, teardowns, path>>

\* The pass begins: the stamp's clock restarts under the Running phase.
EnterRunning(r) ==
    /\ At(r, "settled")
    /\ inflight' = "Running"
    /\ ran' = ran \cup {batch[r]}
    /\ Goto(r, "running")
    /\ UNCHANGED <<request, drain, mutex, slot, mirror, loaded_max_batch, teardowns, path>>

\* engine.embed returned, with rows or with an error: the engine stays resident.
PassEnds(r) ==
    /\ At(r, "running")
    /\ Goto(r, "unwinding")
    /\ LetGo
    /\ UNCHANGED <<request, drain, mutex, slot, mirror, inflight, report, teardowns, rivals>>

\* A panic inside the build or the pass unwinds past every explicit cleanup.
Panic(r) ==
    /\ pc[r] \in {"building", "running"}
    /\ suspect' = Range(rungs)
    /\ stale' = TRUE
    /\ Goto(r, "panicking")
    /\ LetGo
    /\ UNCHANGED <<request, drain, mutex, rungs, committed, inflight, report, teardowns, rivals>>

\* The native call never comes back; the lock and the stamp stay as they are.
Hang(r) ==
    /\ pc[r] \in {"building", "running"}
    /\ Goto(r, "stuck")
    /\ UNCHANGED <<request, drain, mutex, slot, mirror, inflight, report, teardowns, path>>

\* Mutant of ClearStamp: a hand-written clear that a panic unwinds past.
ClearStampOnReturnOnly(r) ==
    /\ pc[r] \in {"unwinding", "panicking"}
    /\ inflight' = IF At(r, "unwinding") THEN "none" ELSE inflight
    /\ Goto(r, IF At(r, "panicking") THEN "poisoning" ELSE "releasing")
    /\ UNCHANGED <<request, drain, mutex, slot, mirror, report, teardowns, path>>

\* InFlightStamp::drop runs before the guard is dropped, on every exit.
ClearStamp(r) ==
    /\ pc[r] \in {"unwinding", "panicking"}
    /\ inflight' = "none"
    /\ Goto(r, IF At(r, "panicking") THEN "poisoning" ELSE "releasing")
    /\ UNCHANGED <<request, drain, mutex, slot, mirror, report, teardowns, path>>
-----------------------------------------------------------------------------
(***************************************************************************)
(* Draining: unload and spawn_idle_unloader, through drain_engines.        *)
(***************************************************************************)

\* A full drain, or a partial one that names caps.
AskToDrain(u, everything, caps) ==
    /\ At(u, "idle")
    /\ everything <=> caps = {}
    /\ full' = [full EXCEPT ![u] = everything]
    /\ scope' = [scope EXCEPT ![u] = caps]
    /\ Goto(u, "waiting")
    /\ UNCHANGED <<request, mutex, slot, mirror, inflight, report, teardowns, path>>

\* RungCache::drain, then settle_cap before the guard goes.
DrainAll(u) ==
    /\ At(u, "draining")
    /\ full[u]
    /\ rungs' = <<>>
    /\ suspect' = {}
    /\ Settle(rungs')
    /\ Goto(u, "releasing")
    /\ UNCHANGED <<request, drain, mutex, inflight, report, teardowns, path>>

\* RungCache::remove for one of the caps the request named.
RemoveNamed(u) ==
    /\ At(u, "draining")
    /\ ~full[u]
    /\ \E c \in scope[u] :
        /\ rungs' = Without(rungs, c)
        /\ suspect' = suspect \ {c}
        /\ scope' = [scope EXCEPT ![u] = @ \ {c}]
    /\ UNCHANGED <<pc, request, full, mutex, mirror, inflight, report, teardowns, path>>

\* Every named cap was looked for: settle_cap before the guard goes.
SettleDrain(u) ==
    /\ At(u, "draining")
    /\ ~full[u]
    /\ scope[u] = {}
    /\ Settle(rungs)
    /\ Goto(u, "releasing")
    /\ UNCHANGED <<request, drain, mutex, slot, inflight, report, teardowns, path>>

\* The engines it took are dropped on this thread, after the lock.
Drop(u) ==
    /\ At(u, "dropping")
    /\ Goto(u, "done")
    /\ UNCHANGED <<request, drain, mutex, slot, mirror, inflight, report, teardowns, path>>
-----------------------------------------------------------------------------
\* A teardown thread finished dropping the session it was given.
TornDown ==
    /\ teardowns > 0
    /\ teardowns' = teardowns - 1
    /\ UNCHANGED <<pc, request, drain, mutex, slot, mirror, inflight, report, path>>

\* The rerank engine misses its cache and takes the path for its own build ...
RivalTakes ==
    /\ lease = "free"
    /\ rivals < MaxRivals
    /\ lease' = "theirs"
    /\ rivals' = rivals + 1
    /\ UNCHANGED engine

\* ... gives it back when its first pass is over, or the build failed ...
RivalGives ==
    /\ lease = "theirs"
    /\ lease' = "free"
    /\ UNCHANGED <<engine, rivals>>

\* ... or hangs in native code, and the path is gone with it.
RivalHangs ==
    /\ lease = "theirs"
    /\ lease' = "lost"
    /\ UNCHANGED <<engine, rivals>>

\* Another burst brings other rerank builds.
RivalsAgain ==
    /\ lease = "free"
    /\ rivals = MaxRivals
    /\ rivals' = 0
    /\ UNCHANGED <<engine, lease>>

\* The answer left; the blocking thread is free for another call.
Recycle(t) ==
    /\ At(t, "done")
    /\ Goto(t, "idle")
    /\ kind' = [r \in Requests |-> IF r = t THEN "doc" ELSE kind[r]]
    /\ cap' = [r \in Requests |-> IF r = t THEN 0 ELSE cap[r]]
    /\ batch' = [r \in Requests |-> IF r = t THEN 0 ELSE batch[r]]
    /\ full' = [u \in Unloaders |-> IF u = t THEN FALSE ELSE full[u]]
    /\ scope' = [u \in Unloaders |-> IF u = t THEN {} ELSE scope[u]]
    /\ UNCHANGED <<mutex, slot, mirror, inflight, report, teardowns, path>>

Pass(r) ==
    \/ Decide(r) \/ Hit(r) \/ Miss(r) \/ Commit(r)
    \/ BuildOk(r) \/ BuildErr(r) \/ EnterRunning(r) \/ PassEnds(r)
    \/ ClearStamp(r)

Draining(u) == DrainAll(u) \/ RemoveNamed(u) \/ SettleDrain(u) \/ Drop(u)

Rival == RivalTakes \/ RivalGives \/ RivalHangs

\* One burst of calls: every thread serves at most one.
BurstNext ==
    \/ \E t \in Threads : Acquire(t) \/ Heal(t) \/ Refuse(t) \/ Release(t)
    \/ \E r \in Requests :
        \/ \E k \in Kinds, c \in Caps, b \in Batches : Arrive(r, k, c, b)
        \/ Pass(r) \/ Panic(r) \/ Hang(r)
    \/ \E u \in Unloaders :
        \/ \E everything \in BOOLEAN, caps \in SUBSET Caps : AskToDrain(u, everything, caps)
        \/ Draining(u)
    \/ TornDown
    \/ Rival

Next == BurstNext \/ RivalsAgain \/ \E t \in Threads : Recycle(t)

Spec == Init /\ [][Next]_vars

(***************************************************************************)
(* Fairness. A started step of native code returns unless it hangs, every  *)
(* thread keeps being scheduled, and a waiter behind a holder that will    *)
(* never move again is refused once the holder's ceiling passes. Neither   *)
(* lock is fair among its waiters, so nothing stronger than weak fairness  *)
(* is assumed and the liveness property is stated for one burst of calls   *)
(* beside at most MaxRivals rerank builds. Nothing makes a build wait for  *)
(* less than the cache path: behind a lost one Commit is never enabled.    *)
(***************************************************************************)
Progress(t) ==
    \/ Acquire(t) \/ Heal(t) \/ Release(t)
    \/ t \in Requests /\ Pass(t)
    \/ t \in Unloaders /\ Draining(t)

\* The build waits for a path that a hung rerank build will never give back.
Stranded(t) == At(t, "claiming") /\ lease = "lost"

\* Either way the holder's stamp passes the ceiling of its phase.
RefuseWedged(t) == Refuse(t) /\ \E r \in Requests : At(r, "stuck") \/ Stranded(r)

BurstSpec ==
    /\ Init /\ [][BurstNext]_vars
    /\ \A t \in Threads : WF_vars(Progress(t)) /\ WF_vars(RefuseWedged(t))
    /\ WF_vars(TornDown) /\ WF_vars(RivalGives)
-----------------------------------------------------------------------------
(***************************************************************************)
(* Safety.                                                                 *)
(***************************************************************************)

\* RungCache: no cap is filed twice and the operator's capacity is never
\* exceeded, whatever mixture of builds, drains and heals came before.
RungsWithinCapacity == Distinct(rungs) /\ Len(rungs) <= Capacity

\* The engine lock excludes: exactly the thread that owns it stands between
\* acquiring and releasing.
OneHolder == \A t \in Threads : pc[t] \in Holding <=> owner = t

\* The mirror: whenever nobody holds the engine and no panic is waiting to be
\* healed, the lock-free commitment equals the most recently used rung.
CommitmentMirrorsResidency ==
    owner = NoOne /\ ~poisoned => committed = MostRecent(rungs)

\* At any moment, held lock or not, the cap a query would inherit is resident
\* or being built - except after a panic, and while a drain is taking rungs.
CommitmentIsBacked ==
    committed # 0 /\ ~stale =>
        \/ Resident(rungs, committed)
        \/ \E r \in Requests :
              owner = r /\ cap[r] = committed /\ pc[r] \in {"building", "stuck"}
        \/ \E u \in Unloaders : At(u, "draining")

\* A stamp is never left behind: it names a phase only while a pass holds the
\* engine, so no later caller is refused because of a phantom.
NoPhantomStamp == inflight # "none" => \E r \in Requests : owner = r /\ pc[r] \in InPass

\* Native code never runs unstamped, and never under the other phase's ceiling:
\* a hang there is always visible to /health and the watchdog.
NativeCallIsStamped ==
    \A r \in Requests :
        /\ At(r, "building") => inflight = "Building"
        /\ At(r, "running") => inflight = "Running"
        /\ At(r, "stuck") => inflight # "none"

\* The expect("just loaded") of embed_natural cannot fire: when a pass starts,
\* its rung is resident, and most recently used.
PassFindsItsRung ==
    \A r \in Requests : pc[r] \in {"settled", "running"} => MostRecent(rungs) = cap[r]

\* No engine that was resident when a panic struck ever serves a later pass.
SuspectEngineNeverServes ==
    \A r \in Requests : pc[r] \in {"settled", "running"} => cap[r] \notin suspect

\* What is left of "a query never moves the cap": a query builds only when the
\* commitment is no longer the cap it settled on, or a panic made it stale.
QueryBuildsOnlyAfterTheCommitmentMoved ==
    [][\A r \in Requests :
        kind[r] = "query" /\ At(r, "held") /\ pc'[r] = "claiming"
            => committed # cap[r] \/ stale]_vars

(***************************************************************************)
(* The slot implements the service its callers were promised.  A pass or a *)
(* drain is a client; the engines are the caps of the cache, in any order; *)
(* an engine is in use from the Running stamp to the end of the pass, and  *)
(* the service is broken from a panic to the heal.                         *)
(***************************************************************************)
StageOf(point) ==
    CASE point = "idle" -> "idle"
      [] point \in {"asked", "waiting"} -> "waiting"
      [] point \in Holding -> "inside"
      [] point \in {"dropping", "done"} -> "answered"

InUse == IF inflight = "Running" /\ owner \in Requests THEN cap[owner] ELSE 0

Broken == poisoned \/ \E r \in Requests : pc[r] \in {"panicking", "poisoning"}

Service == INSTANCE EngineService WITH
    Clients  <- Threads,
    stage    <- [t \in Threads |-> StageOf(pc[t])],
    user     <- owner,
    resident <- Range(rungs),
    using    <- InUse,
    broken   <- Broken,
    offer    <- committed

\* Whatever the locks, stamps and rungs do in between, callers see the service
\* of EngineService: exclusive use, a bounded set of engines, no pass on an
\* engine that is not there, no engine that survives a panic, and an offer
\* that is true whenever the engine is free (inference.rs, embed_natural;
\* introspection.rs, drain_engines; bookkeeping.rs, settle_cap).
ImplementsService == Service!Spec

(***************************************************************************)
(* The inductive invariant behind the safety properties: what the holder   *)
(* of the lock, at each point of its pass, owes to the lock-free mirrors.  *)
(***************************************************************************)

\* A call that arrived stated limits the resolver had clamped.
CallsStateLimits ==
    \A r \in Requests : ~At(r, "idle") => cap[r] \in Caps /\ batch[r] \in Batches

\* A poisoned lock is free, a pass does not drain, and a drain has no native
\* call to panic in.
LockDiscipline ==
    /\ OneHolder
    /\ poisoned => owner = NoOne
    /\ \A r \in Requests : ~At(r, "draining")
    /\ \A u \in Unloaders : pc[u] \in Holding => pc[u] \in {"draining", "releasing"}

\* The stamp follows the program point of the pass that holds the lock.
StampFollowsHolder ==
    /\ owner \notin Requests => inflight = "none"
    /\ \A r \in Requests :
        /\ pc[r] \in {"held", "releasing", "poisoning"} => inflight = "none"
        /\ pc[r] \in {"claiming", "building"} => inflight = "Building"
        /\ At(r, "settled") => inflight # "Running"
        /\ At(r, "running") => inflight = "Running"
        /\ At(r, "stuck") => inflight # "none"

Settled == committed = MostRecent(rungs) /\ ~stale

\* The commitment is settled whenever the lock is free and unpoisoned, and at
\* every point of a pass but the build it announces; a panic unsettles it
\* until somebody settles it again.
MirrorFollowsHolder ==
    /\ owner = NoOne => IF poisoned THEN stale ELSE Settled
    /\ \A u \in Unloaders : At(u, "releasing") => Settled
    /\ \A r \in Requests :
        /\ pc[r] \in {"held", "claiming"} => stale \/ Settled
        /\ pc[r] \in {"building", "stuck"} => committed = cap[r] /\ ~stale
        /\ pc[r] \in {"settled", "running"} => Settled /\ committed = cap[r]
        /\ pc[r] \in {"unwinding", "releasing"} => Settled
        /\ pc[r] \in {"panicking", "poisoning"} => stale

\* Suspect engines exist only between the panic and the heal.
SuspectsAwaitHealing ==
    suspect # {} => poisoned \/ \E r \in Requests : pc[r] \in {"panicking", "poisoning"}

IInv ==
    /\ TypeOK
    /\ CallsStateLimits
    /\ LockDiscipline
    /\ RungsWithinCapacity
    /\ StampFollowsHolder
    /\ MirrorFollowsHolder
    /\ SuspectsAwaitHealing

(***************************************************************************)
(* What the repository says of this component and the code does not do.    *)
(***************************************************************************)

\* The commitment is "the most recently used resident rung, or the one a build
\* is materialising right now": with the lock free nothing is being built, so
\* a cap in it must be resident. A panicking build breaks this.
CommitmentNamesALiveRung ==
    owner = NoOne /\ committed # 0 => Resident(rungs, committed)

\* "A query runs at whatever is already resident and never moves the cap": the
\* build of a query evicts nobody. The cap is settled before the wait, so a
\* query that queued behind a doc of another rung breaks this.
QueryNeverEvicts ==
    [][\A r \in Requests :
        kind[r] = "query" /\ At(r, "building") /\ pc'[r] = "settled"
            => Range(rungs) \subseteq Range(rungs')]_vars

\* loaded_max_batch is "the batch the most recent embed actually ran at": once
\* everybody has been answered, some pass ran at it. It is written before the
\* lock, so a refused request or a failed build breaks this.
ReportedBatchWasRun ==
    (\A t \in Threads : pc[t] \in {"idle", "done"}) /\ loaded_max_batch # 0
        => loaded_max_batch \in ran
-----------------------------------------------------------------------------
(***************************************************************************)
(* Liveness, for one burst of calls.                                       *)
(***************************************************************************)

\* Every call that reached the engine gets its answer - rows, a drain, an
\* error or a refusal - whichever engine hangs in native code, but two: the
\* call that hangs itself, and the one whose build holds this engine and waits
\* for the cache path that a hung rerank build took with it
\* (CachePathLease::hold has no ceiling). Everybody queued behind either of
\* them is still refused.
EveryCallIsAnswered ==
    \A t \in Threads :
        At(t, "waiting") ~> At(t, "done") \/ At(t, "stuck") \/ Stranded(t)
=============================================================================
