----------------------------- MODULE HealthProbe -----------------------------
(***************************************************************************)
(* GET /health and GET /models: a reply is read field by field, each under *)
(* its own try_lock or none, while the engines go on. Between two fields   *)
(* anything may happen, so a reply is a state nobody was ever in; this     *)
(* module says what it can be trusted for all the same.                    *)
(*                                                                         *)
(* The two engine slots are one machine, indexed by the engine, as         *)
(* loaded_now and lock_or_refuse are generic over EngineSlot: the reranker *)
(* is a cache of one rung, without a commitment and without a canary. A    *)
(* try_lock may also find another reader inside (Collide). Time is         *)
(* abstracted: a stamped hold may pass its ceiling at any moment.          *)
(***************************************************************************)
EXTENDS RungCache

CONSTANTS
    Caps,           \* sequence caps an embed request may settle on
    RerankCap,      \* the one cap of the reranker
    Capacity,       \* RungCache::capacity of the embed slot
    Attributions,   \* what SoloBuildWindow::close may answer
    Cached,         \* a compiled-model cache is configured
    MaxBuilds,      \* bound: sessions built
    MaxTears        \* bound: steps of the engines and collisions within one reply

ASSUME ProbeAssumption ==
    /\ 0 \notin Caps
    /\ RerankCap \notin Caps
    /\ Capacity \in Nat \ {0}
    /\ Attributions \subseteq {"Measured", "Overlapped", "NotSampled", "NoGrowth"}
    /\ Cached \in BOOLEAN
    /\ {MaxBuilds, MaxTears} \subseteq Nat

Engines   == {"embed", "rerank"}
CapsOf(e) == IF e = "embed" THEN Caps ELSE {RerankCap}
RoomOf(e) == IF e = "embed" THEN Capacity ELSE 1

VARIABLES
    stage,      \* where the holder of each engine lock stands, "free" without one
    want,       \* the cap it wants
    rungs,      \* what each slot holds
    poisoned,   \* each engine mutex
    stamp,      \* each in-flight record, reduced to its phase
    late,       \* its elapsed time is past the ceiling of that phase
    committed,  \* AppState::committed_embed_cap
    healing,    \* load_validated_dual is on the rebuild after its wipe
    builds,     \* sessions built so far
    ready,      \* AppState::active_provider is Some
    filed,      \* VramLedger: what was ever recorded
    selfCheck,  \* AppState::self_check, with the cap it was about
    measured,   \* AppState::loaded_embed_dimension is Some
    asked,      \* the request that is being answered, "none" without one
    read,       \* how many fields of its reply were read
    reply,      \* what they said
    moves,      \* history: steps the engines took meanwhile,
    collided,   \* history: fields that were read while another reader was inside,
    hung        \* history: the engines that were hung and late when it was asked

slots   == <<stage, want, rungs, poisoned>>
stamps  == <<stamp, late>>
records == <<ready, filed, selfCheck, measured>>
engines == <<slots, stamps, committed, healing, builds, records>>
probe   == <<asked, read, reply, moves, collided, hung>>
vars    == <<engines, probe>>

\* Mutant of Script: the ledger is read before the provider.
ScriptReadsTheLedgerFirst ==
    [health |-> <<"vram", "ready", "embed", "rerank", "dense", "sparse", "reranker",
                  "self_check", "loaded_cap", "resident_caps">>,
     models |-> <<"dimension", "loaded_cap", "dense", "reranker">>]

\* The order in which each handler reads what it reports.
HealthFields ==
    <<"ready", "embed", "rerank", "dense", "sparse", "reranker",
      "vram", "self_check", "loaded_cap", "resident_caps">>

ModelsFields == <<"dimension", "loaded_cap", "dense", "reranker">>

Script == [health |-> HealthFields, models |-> ModelsFields]

\* What try_lock guards: everything but committed_embed_cap, an atomic.
TryLocked == (UNION {Range(Script[k]) : k \in DOMAIN Script}) \ {"loaded_cap"}

NoCheck == [serving |-> FALSE, cap |-> 0]
Checks  == [serving : BOOLEAN, cap : Caps] \cup {NoCheck}

Asked    == asked # "none"
Fields   == IF Asked THEN Script[asked] ELSE <<>>
Answered == Asked /\ read = Len(Fields)
Here     == Fields[read + 1]

InBuild == {"building", "recorded", "checking", "filing", "failing"}
Stages  == InBuild \cup {"free", "held", "claiming", "settled", "running", "hung",
                         "unwinding", "panicking", "releasing", "poisoning", "draining"}
-----------------------------------------------------------------------------
EnginesTyped ==
    /\ stage \in [Engines -> Stages]
    /\ want \in [Engines -> Caps \cup {RerankCap, 0}]
    /\ \A e \in Engines : rungs[e] \in Seq(CapsOf(e))
    /\ DOMAIN rungs = Engines
    /\ poisoned \in [Engines -> BOOLEAN]
    /\ stamp \in [Engines -> {"none", "Building", "Running"}]
    /\ late \in [Engines -> BOOLEAN]
    /\ committed \in Caps \cup {0}
    /\ healing \in BOOLEAN /\ ready \in BOOLEAN /\ measured \in BOOLEAN
    /\ builds \in 0..MaxBuilds
    /\ filed \subseteq Attributions
    /\ selfCheck \in Checks

ProbeTyped ==
    /\ asked \in DOMAIN Script \cup {"none"}
    /\ read \in 0..Len(Fields)
    /\ DOMAIN reply = {Fields[i] : i \in 1..read}
    /\ moves \in 0..MaxTears
    /\ collided \subseteq TryLocked
    /\ hung \subseteq Engines

TypeOK == EnginesTyped /\ ProbeTyped

Init ==
    /\ stage = [e \in Engines |-> "free"]
    /\ want = [e \in Engines |-> 0]
    /\ rungs = [e \in Engines |-> <<>>]
    /\ poisoned = [e \in Engines |-> FALSE]
    /\ stamp = [e \in Engines |-> "none"]
    /\ late = [e \in Engines |-> FALSE]
    /\ committed = 0 /\ healing = FALSE /\ builds = 0
    /\ ready = FALSE /\ filed = {} /\ measured = FALSE
    /\ selfCheck = NoCheck
    /\ asked = "none" /\ read = 0 /\ reply = <<>>
    /\ moves = 0 /\ collided = {} /\ hung = {}

Goto(e, point) == stage' = [stage EXCEPT ![e] = point]
Hold(e, held)  == rungs' = [rungs EXCEPT ![e] = held]

\* InFlightStamp::enter: the record is written anew and its clock restarts.
Enter(e, phase) ==
    /\ stamp' = [stamp EXCEPT ![e] = phase]
    /\ late' = [late EXCEPT ![e] = FALSE]

\* settle_cap: only the embed slot has a mirror.
Settle(e, held) == committed' = IF e = "embed" THEN MostRecent(held) ELSE committed
-----------------------------------------------------------------------------
(***************************************************************************)
(* The engines.                                                            *)
(***************************************************************************)

\* lock_or_refuse: a poisoned slot is discarded whole and used.
Taken(e) == IF poisoned[e] THEN <<>> ELSE rungs[e]

Acquire(e) ==
    /\ stage[e] = "free"
    /\ \E c \in CapsOf(e) : want' = [want EXCEPT ![e] = c]
    /\ Hold(e, Taken(e))
    /\ poisoned' = [poisoned EXCEPT ![e] = FALSE]
    /\ Goto(e, "held")
    /\ UNCHANGED <<stamps, committed, healing, builds, records>>

Hit(e) ==
    /\ stage[e] = "held"
    /\ Resident(rungs[e], want[e])
    /\ Hold(e, Promote(rungs[e], want[e]))
    /\ Settle(e, rungs'[e])
    /\ Goto(e, "settled")
    /\ UNCHANGED <<want, poisoned, stamps, healing, builds, records>>

Miss(e) ==
    /\ stage[e] = "held"
    /\ ~Resident(rungs[e], want[e])
    /\ Enter(e, "Building")
    /\ Goto(e, IF e = "embed" THEN "claiming" ELSE "building")
    /\ UNCHANGED <<want, rungs, poisoned, committed, healing, builds, records>>

Claim(e) ==
    /\ stage[e] = "claiming"
    /\ committed' = want[e]
    /\ Goto(e, "building")
    /\ UNCHANGED <<want, rungs, poisoned, stamps, healing, builds, records>>

\* load_session, the session exists: the window's verdict is filed first ...
SessionBuilt(e) ==
    /\ stage[e] = "building"
    /\ builds < MaxBuilds
    /\ builds' = builds + 1
    /\ \E a \in Attributions : filed' = filed \cup {a}
    /\ Goto(e, "recorded")
    /\ UNCHANGED <<want, rungs, poisoned, stamps, committed, healing, ready, selfCheck,
                   measured>>

\* ... and record_session_outcome promotes the provider after it.
Promoted(e) ==
    /\ stage[e] = "recorded"
    /\ ready' = TRUE
    /\ Goto(e, IF e = "embed" THEN "checking" ELSE "filing")
    /\ UNCHANGED <<want, rungs, poisoned, stamps, committed, healing, builds, filed, selfCheck,
                   measured>>

\* The canary cleared the serving bar, and perhaps the verified one.
CanaryPasses(e) ==
    /\ stage[e] = "checking"
    /\ selfCheck' = [serving |-> TRUE, cap |-> want[e]]
    /\ healing' = FALSE
    /\ Goto(e, "filing")
    /\ UNCHANGED <<want, rungs, poisoned, stamps, committed, builds, ready, filed, measured>>

\* The canary failed, or the engine threw. With a cache to wipe the first
\* failure buys one rebuild and is not recorded; any other is the answer.
CanaryFails(e) ==
    /\ stage[e] = "checking"
    /\ IF Cached /\ ~healing
         THEN healing' = TRUE /\ Goto(e, "building") /\ UNCHANGED selfCheck
         ELSE healing' = FALSE /\ Goto(e, "failing")
              /\ selfCheck' = [serving |-> FALSE, cap |-> want[e]]
    /\ UNCHANGED <<want, rungs, poisoned, stamps, committed, builds, ready, filed, measured>>

\* Mutant of BuildErr: the claim outlives the build that failed.
BuildErrKeepsTheClaim(e) ==
    /\ stage[e] \in {"building", "failing"}
    /\ healing' = IF e = "embed" THEN FALSE ELSE healing
    /\ Goto(e, "unwinding")
    /\ UNCHANGED <<want, rungs, poisoned, stamps, committed, builds, records>>

\* Every way a load answers Err: the claim is rolled back to what is held.
BuildErr(e) ==
    /\ stage[e] \in {"building", "failing"}
    /\ healing' = IF e = "embed" THEN FALSE ELSE healing
    /\ Settle(e, rungs[e])
    /\ Goto(e, "unwinding")
    /\ UNCHANGED <<want, rungs, poisoned, stamps, builds, records>>

\* remember_engine, and the mirror after it.
File(e) ==
    /\ stage[e] = "filing"
    /\ Hold(e, Insert(rungs[e], want[e], RoomOf(e)))
    /\ Settle(e, rungs'[e])
    /\ Goto(e, "settled")
    /\ UNCHANGED <<want, poisoned, stamps, healing, builds, records>>

Run(e) ==
    /\ stage[e] = "settled"
    /\ Enter(e, "Running")
    /\ Goto(e, "running")
    /\ UNCHANGED <<want, rungs, poisoned, committed, healing, builds, records>>

\* The pass returned, and rows have a width to record.
PassEnds(e) ==
    /\ stage[e] = "running"
    /\ \E rows \in BOOLEAN : measured' = (measured \/ (e = "embed" /\ rows))
    /\ Goto(e, "unwinding")
    /\ UNCHANGED <<want, rungs, poisoned, stamps, committed, healing, builds, ready, filed,
                   selfCheck>>

\* A native call panics ...
Panic(e) ==
    /\ stage[e] \in {"building", "checking", "running"}
    /\ healing' = IF e = "embed" THEN FALSE ELSE healing
    /\ Goto(e, "panicking")
    /\ UNCHANGED <<want, rungs, poisoned, stamps, committed, builds, records>>

\* ... or never returns. A build may also wait for ever before its first native
\* call, for the cache path a hung build of the other engine took with it.
Hang(e) ==
    /\ \/ stage[e] \in {"building", "checking", "running"}
       \/ /\ stage[e] = "claiming" /\ Cached
          /\ \E other \in Engines \ {e} : stage[other] = "hung"
    /\ Goto(e, "hung")
    /\ UNCHANGED <<want, rungs, poisoned, stamps, committed, healing, builds, records>>

\* InFlightStamp::drop, before the guard goes.
ClearStamp(e) ==
    /\ stage[e] \in {"unwinding", "panicking"}
    /\ Enter(e, "none")
    /\ Goto(e, IF stage[e] = "panicking" THEN "poisoning" ELSE "releasing")
    /\ UNCHANGED <<want, rungs, poisoned, committed, healing, builds, records>>

Release(e) ==
    /\ stage[e] \in {"releasing", "poisoning"}
    /\ poisoned' = [poisoned EXCEPT ![e] = (stage[e] = "poisoning")]
    /\ want' = [want EXCEPT ![e] = 0]
    /\ Goto(e, "free")
    /\ UNCHANGED <<rungs, stamps, committed, healing, builds, records>>

\* drain_engines takes everything, or what was named one by one, under the lock
\* and without a stamp.
Drain(e) ==
    /\ stage[e] = "free"
    /\ Hold(e, <<>>) \/ Hold(e, Taken(e))
    /\ poisoned' = [poisoned EXCEPT ![e] = FALSE]
    /\ Goto(e, "draining")
    /\ UNCHANGED <<want, stamps, committed, healing, builds, records>>

RemoveNamed(e) ==
    /\ stage[e] = "draining"
    /\ \E c \in CapsOf(e) : Resident(rungs[e], c) /\ Hold(e, Without(rungs[e], c))
    /\ UNCHANGED <<stage, want, poisoned, stamps, committed, healing, builds, records>>

SettleDrain(e) ==
    /\ stage[e] = "draining"
    /\ Settle(e, rungs[e])
    /\ Goto(e, "releasing")
    /\ UNCHANGED <<want, rungs, poisoned, stamps, healing, builds, records>>

\* A hold passes the ceiling of its phase.
Overdue(e) ==
    /\ stamp[e] # "none"
    /\ ~late[e]
    /\ late' = [late EXCEPT ![e] = TRUE]
    /\ UNCHANGED <<slots, stamp, committed, healing, builds, records>>

-----------------------------------------------------------------------------
(***************************************************************************)
(* The probe.                                                              *)
(***************************************************************************)

\* Mutant of LoadedNow: a busy engine is not there.
LoadedNowUnlessBusy(e) == stage[e] = "free" /\ ~poisoned[e] /\ rungs[e] # <<>>

\* loaded_now: a busy lock is an engine, a poisoned one is none.
LoadedNow(e) == stage[e] # "free" \/ (~poisoned[e] /\ rungs[e] # <<>>)

\* caps() under try_lock: a busy or poisoned cache lists nothing.
CapsNow == IF stage["embed"] = "free" /\ ~poisoned["embed"] THEN Range(rungs["embed"]) ELSE {}

\* in_flight_now, InFlightWire::of: the record against the ceiling of its phase.
InFlight(e) == IF stamp[e] = "none" THEN "none" ELSE IF late[e] THEN "wedged" ELSE "held"

\* unavailable_reason: the first that applies, none once a figure exists.
Reason ==
    CASE "Measured" \in filed   -> "figures"
      [] "NotSampled" \in filed -> "no sample"
      [] "Overlapped" \in filed -> "overlaps"
      [] "NoGrowth" \in filed   -> "no growth"
      [] OTHER                  -> "no session built"

\* VramAtLoad::of: a busy ledger is not waited for, it has a reason of its own.
VramAtLoad(busy) == IF busy THEN "busy" ELSE Reason

\* What a field says, and what it says when its try_lock finds a reader inside.
Seen(field) ==
    CASE field = "ready"               -> ready
      [] field = "embed"               -> InFlight("embed")
      [] field = "rerank"              -> InFlight("rerank")
      [] field \in {"dense", "sparse"} -> LoadedNow("embed")
      [] field = "reranker"            -> LoadedNow("rerank")
      [] field = "vram"                -> VramAtLoad(FALSE)
      [] field = "self_check"          -> selfCheck
      [] field = "loaded_cap"          -> committed
      [] field = "resident_caps"       -> CapsNow
      [] field = "dimension"           -> measured

Missed(field) ==
    CASE field \in {"embed", "rerank"}              -> "none"
      [] field \in {"dense", "sparse", "reranker"}  -> TRUE
      [] field = "vram"                             -> VramAtLoad(TRUE)
      [] field = "self_check"                       -> NoCheck
      [] field = "resident_caps"                    -> {}
      [] field \in {"ready", "dimension"}           -> FALSE

Disturbable == moves + Cardinality(collided) < MaxTears

Hung(e) == stage[e] = "hung" /\ late[e]

Ask(k) ==
    /\ ~Asked
    /\ asked' = k
    /\ hung' = {e \in Engines : Hung(e)}
    /\ UNCHANGED <<read, reply, moves, collided>>

\* The next field is answered.
Answer(value) ==
    /\ read' = read + 1
    /\ reply' = [f \in DOMAIN reply \cup {Here} |-> IF f = Here THEN value ELSE reply[f]]
    /\ UNCHANGED <<asked, moves, hung>>

\* The field is read as it is now.
Read ==
    /\ Asked /\ ~Answered
    /\ Answer(Seen(Here))
    /\ UNCHANGED collided

\* Its try_lock found somebody inside for a moment.
Collide ==
    /\ Asked /\ ~Answered
    /\ Here \in TryLocked /\ Disturbable
    /\ Answer(Missed(Here))
    /\ collided' = collided \cup {Here}

Leave ==
    /\ Answered
    /\ asked' = "none" /\ read' = 0 /\ reply' = <<>>
    /\ moves' = 0 /\ collided' = {} /\ hung' = {}

Probing == (\E k \in DOMAIN Script : Ask(k)) \/ Read \/ Collide \/ Leave

Engine(e) ==
    \/ Acquire(e) \/ Hit(e) \/ Miss(e) \/ SessionBuilt(e) \/ Promoted(e) \/ BuildErr(e)
    \/ File(e) \/ Run(e) \/ PassEnds(e) \/ Panic(e) \/ Hang(e) \/ ClearStamp(e) \/ Release(e)
    \/ Drain(e) \/ RemoveNamed(e) \/ SettleDrain(e) \/ Overdue(e)

Elsewhere ==
    \/ \E e \in Engines : Engine(e)
    \/ Claim("embed") \/ CanaryPasses("embed") \/ CanaryFails("embed")

\* The engines go on; what they do while a reply is read tears it.
Torn ==
    /\ Elsewhere
    /\ Asked => ~Answered /\ Disturbable
    /\ moves' = IF Asked THEN moves + 1 ELSE moves
    /\ UNCHANGED <<asked, read, reply, collided, hung>>

Next ==
    \/ Probing /\ UNCHANGED engines
    \/ Torn

Spec == Init /\ [][Next]_vars
-----------------------------------------------------------------------------
\* An engine that was hung and past its ceiling when /health was asked is
\* reported wedged and loaded, with no rung listed, however the rest of the
\* process moved while the reply was read; only a reader inside the stamp at
\* that very moment hides it (the "ok" of a wedged process).
WedgeIsReported ==
    Answered /\ asked = "health" =>
        \A e \in hung :
            /\ e \notin collided => reply[e] = "wedged"
            /\ reply[IF e = "embed" THEN "dense" ELSE "reranker"]
            /\ e = "embed" => reply["sparse"] /\ reply["resident_caps"] = {}

\* The one cross-field fact a torn /health may be read for: a reply that names
\* an active provider never says beside it that no session was built. It holds
\* because a build is filed before its provider is promoted, and read after it.
ReadyBuildsAreCounted ==
    Answered /\ asked = "health" /\ reply["ready"] => reply["vram"] # "no session built"

Undisturbed == Answered /\ moves = 0 /\ collided = {}

\* A reply nothing moved under is one state of the engines, and that state
\* makes sense: what is in flight is loaded; listed rungs come with a verdict,
\* a provider and the commitment to one of them, and none of them is the engine
\* the last verdict found unfit; on /health and /models alike an idle slot that
\* holds nothing is committed to nothing, until a panic is healed.
QuietRepliesAgree ==
    Undisturbed =>
        /\ ~reply["dense"] /\ ~poisoned["embed"] => reply["loaded_cap"] = 0
        /\ asked = "health" =>
            /\ reply["embed"] # "none" => reply["dense"]
            /\ reply["rerank"] # "none" => reply["reranker"]
            /\ reply["resident_caps"] # {} =>
                /\ reply["dense"] /\ reply["ready"]
                /\ reply["loaded_cap"] \in reply["resident_caps"]
                /\ reply["self_check"] # NoCheck
                /\ ~reply["self_check"].serving =>
                    reply["self_check"].cap \notin reply["resident_caps"]

\* "Reads only the tiny stamp mutexes" so a wedge is always seen: refuted, a
\* try_lock that meets another reader of the stamp reads as nothing in flight.
WedgeIsNeverMissed ==
    Answered /\ asked = "health" => \A e \in hung : reply[e] = "wedged"
-----------------------------------------------------------------------------
(***************************************************************************)
(* The inductive invariant: what the engines keep to, and what each field  *)
(* that was read still means.                                              *)
(***************************************************************************)

\* A holder that builds wants a cap of its engine, which is not resident.
HoldersWant ==
    \A e \in Engines :
        /\ stage[e] \in {"held", "claiming"} \cup InBuild => want[e] \in CapsOf(e)
        /\ stage[e] \in {"claiming"} \cup InBuild => ~Resident(rungs[e], want[e])

\* Whoever is not in native code, or on the way there or back, has no stamp.
StampsAreUnderALock ==
    \A e \in Engines :
        stage[e] \in {"free", "held", "releasing", "poisoning", "draining"} => stamp[e] = "none"

\* A holder that hangs was building or in a pass, and both are stamped.
HangsAreStamped ==
    \A e \in Engines :
        stage[e] \in InBuild \cup {"claiming", "running", "hung"} => stamp[e] # "none"

MirrorFollowsHolder ==
    (\/ stage["embed"] \in {"settled", "running", "unwinding", "releasing"}
     \/ stage["embed"] = "free" /\ ~poisoned["embed"])
        => committed = MostRecent(rungs["embed"])

\* A build is filed before its provider is promoted.
BuildsAreFiled ==
    /\ ready => filed # {}
    /\ \A e \in Engines : stage[e] = "recorded" => filed # {}

\* What is resident came through the canary after its provider was promoted,
\* and what the canary found unfit is not resident.
RungsAreVetted ==
    /\ stage["embed"] \in {"checking", "filing"} => ready
    /\ stage["embed"] = "filing" => selfCheck.serving
    /\ rungs["embed"] # <<>> => ready /\ selfCheck # NoCheck
    /\ ~selfCheck.serving => ~Resident(rungs["embed"], selfCheck.cap)

Has(field) == asked = "health" /\ field \in DOMAIN reply

\* An engine that was hung stays hung, and every field read of it says so.
HungFieldsTell ==
    \A e \in hung :
        /\ Hung(e)
        /\ Has(e) /\ e \notin collided => reply[e] = "wedged"
        /\ Has(IF e = "embed" THEN "dense" ELSE "reranker") =>
              reply[IF e = "embed" THEN "dense" ELSE "reranker"]
        /\ e = "embed" /\ Has("sparse") => reply["sparse"]
        /\ e = "embed" /\ Has("resident_caps") => reply["resident_caps"] = {}

\* "ready" is read before the figures, and what was filed stays filed.
ReadyWasFiled ==
    /\ Has("ready") /\ reply["ready"] => filed # {}
    /\ Has("ready") /\ Has("vram") /\ reply["ready"] => reply["vram"] # "no session built"
    /\ Has("vram") => Has("ready")

\* While nothing moved, a field says what it would say now.
QuietFieldsHold ==
    Asked /\ moves = 0 /\ collided = {} => \A f \in DOMAIN reply : reply[f] = Seen(f)

IInv == /\ TypeOK
        /\ HoldersWant /\ StampsAreUnderALock /\ HangsAreStamped
        /\ MirrorFollowsHolder /\ BuildsAreFiled /\ RungsAreVetted
        /\ HungFieldsTell /\ ReadyWasFiled /\ QuietFieldsHold
=============================================================================
