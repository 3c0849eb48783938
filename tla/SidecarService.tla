---------------------------- MODULE SidecarService ----------------------------
(***************************************************************************)
(* The HTTP side of the sidecar: handlers.rs and introspection.rs over the *)
(* two engine slots. A pass is one /embed or /rerank call: its handler     *)
(* touches the idle clock, hands the work to a blocking thread and sets    *)
(* the activity to idle when that thread has answered; a client that hangs *)
(* up drops the handler, never the thread. An unload drains what its body  *)
(* names and answers with the loaded flags of /health. The idle unloader   *)
(* reads the clock, the stamps and the engines one after the other and     *)
(* drains everything when the three agree.                                 *)
(*                                                                         *)
(* What an engine slot holds is abstracted to whether anything is resident *)
(* (EmbedEngine has the rungs), how long a caller waits to nothing         *)
(* (WedgeGate has the ceilings): a wait that ends in a refusal may end so  *)
(* whenever the lock is held.                                              *)
(***************************************************************************)
EXTENDS Naturals, FiniteSets

CONSTANTS
    Passes,     \* /embed and /rerank calls with something in them
    Unloads,    \* /unload calls
    Idler,      \* the idle unloader
    NoOne,      \* nobody holds the lock
    IdleAfter   \* SIDECAR_IDLE_UNLOAD_SECONDS, in checks of the unloader

ASSUME ServiceAssumption ==
    /\ Passes \cap Unloads = {}
    /\ {Idler, NoOne} \cap (Passes \cup Unloads) = {}
    /\ Idler # NoOne
    /\ IdleAfter \in Nat \ {0}

Engines  == {"embed", "rerank"}
Drainers == Unloads \cup {Idler}
Callers  == Passes \cup Drainers

\* UnloadRequest: whether caps are named, and the reranker's flag. An empty body
\* is the default request.
Default   == [caps |-> FALSE, rerank |-> "absent"]
Malformed == [caps |-> FALSE, rerank |-> "malformed"]
Bodies    == [caps : BOOLEAN, rerank : {"absent", "false", "true"}] \cup {Malformed}

VARIABLES
    pc,
    engine,     \* the engine a pass is for
    owner,      \* who holds each engine's mutex
    poisoned,   \* its holder panicked
    resident,   \* something is loaded in the slot
    inflight,   \* the slot's InFlight record is written
    activity,   \* AppState.activity: idle, or what somebody is doing
    quiet,      \* what last_request reads, in checks
    hungUp,     \* passes whose client is gone
    body,       \* what an unload was sent
    left,       \* the engines a drain has still to take
    loaded,     \* the engines an unload's answer called loaded
    seen        \* what the idle unloader has read in this check

locks == <<owner, poisoned>>
drain == <<body, left, loaded>>
vars  == <<pc, engine, locks, resident, inflight, activity, quiet, hungUp, drain, seen>>

PassPoints == {"idle", "waiting", "held", "building", "running", "stuck", "releasing",
               "poisoning", "returned", "done"}
IdlerPoints == {"sleeping", "locking", "timed", "asked", "draining"}

TypeOK ==
    /\ DOMAIN pc = Callers
    /\ \A p \in Passes : pc[p] \in PassPoints
    /\ \A u \in Unloads : pc[u] \in {"idle", "draining", "done"}
    /\ pc[Idler] \in IdlerPoints
    /\ engine \in [Passes -> Engines]
    /\ owner \in [Engines -> Passes \cup {NoOne}]
    /\ poisoned \in [Engines -> BOOLEAN]
    /\ resident \in [Engines -> BOOLEAN]
    /\ inflight \in [Engines -> BOOLEAN]
    /\ activity \in {"idle", "busy"}
    /\ quiet \in 0..IdleAfter
    /\ hungUp \subseteq Passes
    /\ body \in [Unloads -> Bodies]
    /\ left \in [Drainers -> SUBSET Engines]
    /\ loaded \in [Unloads -> SUBSET Engines]
    /\ seen \in [idle : BOOLEAN, busy : BOOLEAN]

Init ==
    /\ pc = [c \in Callers |-> IF c = Idler THEN "sleeping" ELSE "idle"]
    /\ engine \in [Passes -> Engines]
    /\ owner = [e \in Engines |-> NoOne]
    /\ poisoned = [e \in Engines |-> FALSE]
    /\ resident = [e \in Engines |-> FALSE]
    /\ inflight = [e \in Engines |-> FALSE]
    /\ activity = "idle"
    /\ quiet = 0
    /\ hungUp = {}
    /\ body = [u \in Unloads |-> Default]
    /\ left = [d \in Drainers |-> {}]
    /\ loaded = [u \in Unloads |-> {}]
    /\ seen = [idle |-> FALSE, busy |-> FALSE]

At(c, point)   == pc[c] = point
Goto(c, point) == pc' = [pc EXCEPT ![c] = point]
-----------------------------------------------------------------------------
(* A pass: run_pass around embed_blocking or rerank_blocking. *)

\* touch tries the clock's lock: while the unloader reads it, the touch is lost.
\* The blocking thread then says what it waits for.
Arrive(p) ==
    /\ At(p, "idle")
    /\ quiet' = IF At(Idler, "locking") THEN quiet ELSE 0
    /\ activity' = "busy"
    /\ Goto(p, "waiting")
    /\ UNCHANGED <<engine, locks, resident, inflight, hungUp, drain, seen>>

\* lock_or_refuse: a poisoned slot is healed by discarding what is in it.
Acquire(p) ==
    /\ At(p, "waiting")
    /\ owner[engine[p]] = NoOne
    /\ owner' = [owner EXCEPT ![engine[p]] = p]
    /\ poisoned' = [poisoned EXCEPT ![engine[p]] = FALSE]
    /\ resident' = [resident EXCEPT ![engine[p]] = @ /\ ~poisoned[engine[p]]]
    /\ Goto(p, "held")
    /\ UNCHANGED <<engine, inflight, activity, quiet, hungUp, drain, seen>>

Refuse(p) ==
    /\ At(p, "waiting")
    /\ owner[engine[p]] # NoOne
    /\ Goto(p, "returned")
    /\ UNCHANGED <<engine, locks, resident, inflight, activity, quiet, hungUp, drain, seen>>

\* InFlightStamp::enter: the activity, then the record.
Enter(p) ==
    /\ At(p, "held")
    /\ activity' = "busy"
    /\ inflight' = [inflight EXCEPT ![engine[p]] = TRUE]
    /\ Goto(p, IF resident[engine[p]] THEN "running" ELSE "building")
    /\ UNCHANGED <<engine, locks, resident, quiet, hungUp, drain, seen>>

BuildOk(p) ==
    /\ At(p, "building")
    /\ resident' = [resident EXCEPT ![engine[p]] = TRUE]
    /\ activity' = "busy"
    /\ Goto(p, "running")
    /\ UNCHANGED <<engine, locks, inflight, quiet, hungUp, drain, seen>>

\* The build answered an error, or the pass answered at all: the stamp is dropped
\* and then the guard.
Ends(p) ==
    /\ pc[p] \in {"building", "running"}
    /\ inflight' = [inflight EXCEPT ![engine[p]] = FALSE]
    /\ Goto(p, "releasing")
    /\ UNCHANGED <<engine, locks, resident, activity, quiet, hungUp, drain, seen>>

Panic(p) ==
    /\ pc[p] \in {"building", "running"}
    /\ inflight' = [inflight EXCEPT ![engine[p]] = FALSE]
    /\ Goto(p, "poisoning")
    /\ UNCHANGED <<engine, locks, resident, activity, quiet, hungUp, drain, seen>>

\* The native call never returns.
Hang(p) ==
    /\ pc[p] \in {"building", "running"}
    /\ Goto(p, "stuck")
    /\ UNCHANGED <<engine, locks, resident, inflight, activity, quiet, hungUp, drain, seen>>

Release(p) ==
    /\ pc[p] \in {"releasing", "poisoning"}
    /\ owner' = [owner EXCEPT ![engine[p]] = NoOne]
    /\ poisoned' = [poisoned EXCEPT ![engine[p]] = At(p, "poisoning")]
    /\ Goto(p, "returned")
    /\ UNCHANGED <<engine, resident, inflight, activity, quiet, hungUp, drain, seen>>

\* Mutant of Answer: the activity is cleared on the way of success only.
AnswerClearsOnReturn(p) ==
    /\ At(p, "returned")
    /\ activity' = IF poisoned[engine[p]] THEN activity ELSE "idle"
    /\ Goto(p, "done")
    /\ UNCHANGED <<engine, locks, resident, inflight, quiet, hungUp, drain, seen>>

\* The handler is resumed, whatever the thread answered.
Answer(p) ==
    /\ At(p, "returned")
    /\ activity' = "idle"
    /\ Goto(p, "done")
    /\ UNCHANGED <<engine, locks, resident, inflight, quiet, hungUp, drain, seen>>

\* The client had closed its connection: the handler was dropped at its await and
\* the thread's answer reaches nobody.
AnswerNobody(p) ==
    /\ At(p, "returned")
    /\ hungUp' = hungUp \cup {p}
    /\ Goto(p, "done")
    /\ UNCHANGED <<engine, locks, resident, inflight, activity, quiet, drain, seen>>
-----------------------------------------------------------------------------
(* Draining: unload, spawn_idle_unloader and drain_engines. *)

\* Mutant of Named: what was specified is told from its value.
NamedByValue(b) ==
    LET some == {e \in Engines : IF e = "embed" THEN b.caps ELSE b.rerank = "true"}
    IN  IF some = {} /\ b # Malformed THEN Engines ELSE some

\* parse_unload_request, is_full_drain and the two conditions of drain_engines.
Named(b) ==
    IF b = Default THEN Engines
    ELSE {e \in Engines : IF e = "embed" THEN b.caps ELSE b.rerank = "true"}

\* A malformed body drains nothing and is answered at once.
AskToUnload(u) ==
    /\ At(u, "idle")
    /\ \E b \in Bodies :
        /\ body' = [body EXCEPT ![u] = b]
        /\ left' = [left EXCEPT ![u] = Named(b)]
    /\ Goto(u, "draining")
    /\ UNCHANGED <<engine, locks, resident, inflight, activity, quiet, hungUp, loaded, seen>>

\* The embed engine first.
NextOf(d) == IF "embed" \in left[d] THEN "embed" ELSE "rerank"

\* Caps that are named may not be resident, and other rungs stay.
MayStay(d, e) == e = "embed" /\ d \in Unloads /\ body[d] # Default

\* The slot is emptied under its lock; the guard goes before the sessions do.
TakeEngine(d) ==
    /\ At(d, "draining")
    /\ left[d] # {}
    /\ LET e == NextOf(d)
       IN  /\ owner[e] = NoOne
           /\ poisoned' = [poisoned EXCEPT ![e] = FALSE]
           /\ \E stays \in BOOLEAN :
                /\ stays => MayStay(d, e) /\ resident[e] /\ ~poisoned[e]
                /\ resident' = [resident EXCEPT ![e] = stays]
           /\ left' = [left EXCEPT ![d] = @ \ {e}]
    /\ UNCHANGED <<pc, engine, owner, inflight, activity, quiet, hungUp, body, loaded, seen>>

\* Drained.refused: the lock stayed taken for the whole ceiling.
RefuseDrain(d) ==
    /\ At(d, "draining")
    /\ left[d] # {}
    /\ owner[NextOf(d)] # NoOne
    /\ left' = [left EXCEPT ![d] = @ \ {NextOf(d)}]
    /\ UNCHANGED <<pc, engine, locks, resident, inflight, activity, quiet, hungUp, body, loaded,
                   seen>>

\* loaded_now: busy is loaded, poisoned is not.
LoadedNow(e) ==
    IF owner[e] # NoOne THEN TRUE ELSE ~poisoned[e] /\ resident[e]

\* unload ends with the answer of /health.
Report(u) ==
    /\ At(u, "draining")
    /\ left[u] = {}
    /\ loaded' = [loaded EXCEPT ![u] = {e \in Engines : LoadedNow(e)}]
    /\ body' = [body EXCEPT ![u] = Default]
    /\ Goto(u, "done")
    /\ UNCHANGED <<engine, locks, resident, inflight, activity, quiet, hungUp, left, seen>>

\* The unloader sleeps; the next check begins by taking the clock's lock.
WakeUp ==
    /\ At(Idler, "sleeping")
    /\ quiet' = IF quiet < IdleAfter THEN quiet + 1 ELSE quiet
    /\ Goto(Idler, "locking")
    /\ UNCHANGED <<engine, locks, resident, inflight, activity, hungUp, drain, seen>>

ReadClock ==
    /\ At(Idler, "locking")
    /\ seen' = [seen EXCEPT !.idle = quiet = IdleAfter]
    /\ Goto(Idler, "timed")
    /\ UNCHANGED <<engine, locks, resident, inflight, activity, quiet, hungUp, drain>>

ReadStamps ==
    /\ At(Idler, "timed")
    /\ seen' = [seen EXCEPT !.busy = \E e \in Engines : inflight[e]]
    /\ Goto(Idler, "asked")
    /\ UNCHANGED <<engine, locks, resident, inflight, activity, quiet, hungUp, drain>>

\* Mutant of Decide: there is something to give back when both engines are loaded.
DecideIfAllLoaded ==
    /\ At(Idler, "asked")
    /\ IF seen.idle /\ ~seen.busy /\ \A e \in Engines : LoadedNow(e)
       THEN Goto(Idler, "draining") /\ left' = [left EXCEPT ![Idler] = Engines]
       ELSE Goto(Idler, "sleeping") /\ UNCHANGED left
    /\ seen' = [idle |-> FALSE, busy |-> FALSE]
    /\ UNCHANGED <<engine, locks, resident, inflight, activity, quiet, hungUp, body, loaded>>

Decide ==
    /\ At(Idler, "asked")
    /\ IF seen.idle /\ ~seen.busy /\ \E e \in Engines : LoadedNow(e)
       THEN Goto(Idler, "draining") /\ left' = [left EXCEPT ![Idler] = Engines]
       ELSE Goto(Idler, "sleeping") /\ UNCHANGED left
    /\ seen' = [idle |-> FALSE, busy |-> FALSE]
    /\ UNCHANGED <<engine, locks, resident, inflight, activity, quiet, hungUp, body, loaded>>

\* Refused engines stay loaded and are retried by a later check.
CheckEnds ==
    /\ At(Idler, "draining")
    /\ left[Idler] = {}
    /\ Goto(Idler, "sleeping")
    /\ UNCHANGED <<engine, locks, resident, inflight, activity, quiet, hungUp, drain, seen>>
-----------------------------------------------------------------------------
PassStep(p) ==
    \/ Acquire(p)
    \/ Refuse(p)
    \/ Enter(p)
    \/ BuildOk(p)
    \/ Ends(p)
    \/ Panic(p)
    \/ Release(p)
    \/ Answer(p)
    \/ AnswerNobody(p)

DrainStep(d) ==
    \/ TakeEngine(d)
    \/ RefuseDrain(d)

UnloadStep(u) == DrainStep(u) \/ Report(u)

IdlerStep ==
    \/ DrainStep(Idler)
    \/ WakeUp
    \/ ReadClock
    \/ ReadStamps
    \/ Decide
    \/ CheckEnds

Next ==
    \/ \E p \in Passes : Arrive(p) \/ PassStep(p) \/ Hang(p)
    \/ \E u \in Unloads : AskToUnload(u) \/ UnloadStep(u)
    \/ IdlerStep

\* Threads run and locks that are free are taken; clients come or stay away, and
\* nothing makes a native call return.
Fairness ==
    /\ \A p \in Passes : WF_vars(PassStep(p))
    /\ \A u \in Unloads : WF_vars(UnloadStep(u))
    /\ WF_vars(IdlerStep)

Spec == Init /\ [][Next]_vars /\ Fairness
-----------------------------------------------------------------------------
\* The mutex serializes: an InFlight record belongs to the pass that holds the
\* lock, and a drain never finds one (drain_engines, InFlightStamp).
StampsUnderTheLock ==
    \A e \in Engines : inflight[e] => owner[e] \in Passes

\* handlers.rs run_pass: once every pass has been answered the sidecar does not
\* report itself busy, whichever of them failed - if nobody hung up.
IdleOnceAnswered ==
    (hungUp = {} /\ \A p \in Passes : pc[p] \in {"idle", "done"}) => activity = "idle"

\* An engine leaves its slot under a drain that was asked for it, or because a
\* panic condemned it (parse_unload_request, drain_engines, lock_or_refuse).
AsksFor(d, e) ==
    \/ d = Idler
    \/ body[d].rerank = "absent" /\ ~body[d].caps
    \/ IF e = "embed" THEN body[d].caps ELSE body[d].rerank = "true"

OnlyTheNamedLeave ==
    [][\A e \in Engines : resident[e] /\ ~resident'[e] =>
          poisoned[e] \/ \E d \in Drainers : At(d, "draining") /\ AsksFor(d, e)]_vars

\* A handover that answers "not loaded" is one: nothing is resident, unless a
\* panic has condemned what is (loaded_now on a lock that is busy).
HandoversAreTrue ==
    [][\A u \in Unloads :
          ~At(u, "done") /\ pc'[u] = "done" =>
              \A e \in Engines : e \in loaded'[u] \/ ~resident[e] \/ poisoned[e]]_vars

\* spawn_idle_unloader: once nobody calls and nothing hangs, the card is given
\* back in the end - save what a panic has condemned.
IdleCardIsGivenBack ==
    (\A e \in Engines : <>[](owner[e] = NoOne)) =>
        \A e \in Engines : <>[](~resident[e] \/ poisoned[e])

\* introspection.rs: "engines are dropped after {}s with no request".
IdleEnginesAreDropped ==
    (\A e \in Engines : <>[](owner[e] = NoOne)) => \A e \in Engines : <>[]~resident[e]
-----------------------------------------------------------------------------
\* The inductive invariant of the theorems.
Holding == {"held", "building", "running", "stuck", "releasing", "poisoning"}

HoldersHold ==
    /\ \A p \in Passes : pc[p] \in Holding => owner[engine[p]] = p
    /\ \A e \in Engines : owner[e] # NoOne => engine[owner[e]] = e /\ pc[owner[e]] \in Holding

StampsAreTheHolders ==
    \A e \in Engines : inflight[e] =>
        owner[e] # NoOne /\ pc[owner[e]] \in {"building", "running", "stuck"}

DrainsAreNamed ==
    \A d \in Drainers : left[d] # {} =>
        At(d, "draining") /\ (d = Idler \/ left[d] \subseteq Named(body[d]))

IInv == /\ TypeOK /\ HoldersHold /\ StampsAreTheHolders /\ DrainsAreNamed
        /\ IdleOnceAnswered
=============================================================================
