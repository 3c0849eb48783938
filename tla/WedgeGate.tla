------------------------------ MODULE WedgeGate ------------------------------
(***************************************************************************)
(* The ceiling on waiting: lock_or_refuse, the in-flight stamps it reads,  *)
(* and the watchdog that reads the same stamps. This module keeps what     *)
(* EmbedEngine abstracts - time, and the fact that a stamp is read through *)
(* a try_lock that may fail - and drops what it models: the caches.        *)
(*                                                                         *)
(* Time passes in ticks of one policy.poll. A native call takes any number *)
(* of ticks, a hung one all of them; the code around it takes none, and a  *)
(* sleeping waiter polls at every tick.                                    *)
(***************************************************************************)
EXTENDS Integers, FiniteSets

CONSTANTS
    Passes,         \* blocking threads that serve /embed and /rerank
    Unloads,        \* blocking threads that drain
    Nobody,         \* the owner of a free engine
    RunningAfter,   \* WedgePolicy::running_after
    BuildingAfter,  \* WedgePolicy::building_after
    UnloadWait,     \* WedgePolicy::unload_wait
    WedgeExit,      \* is WEDGE_EXIT set?
    ExitAfter,      \* WedgePolicy::exit_after_wedged, when it is
    WatchEvery,     \* WEDGE_WATCHDOG_TICK
    Contended       \* may a try_lock of a stamp meet another reader (/health)?

\* Every duration but the watchdog's tick is an operator's setting (env_parse):
\* nothing orders them, and nothing keeps them from being nought.
ASSUME WedgeAssumption ==
    /\ Passes \cap Unloads = {}
    /\ Nobody \notin Passes \cup Unloads
    /\ {RunningAfter, BuildingAfter, UnloadWait, ExitAfter} \subseteq Nat
    /\ WatchEvery \in Nat \ {0}
    /\ {WedgeExit, Contended} \subseteq BOOLEAN

Threads == Passes \cup Unloads
Engines == {"embed", "rerank"}
Phases  == {"none", "Building", "Running"}

Later(a, b) == IF a < b THEN b ELSE a

\* Bounds: past this age of a phase, and past this wait of a caller, every
\* comparison of the code and of the properties has been decided.
MaxAge  == Later(RunningAfter, BuildingAfter) + ExitAfter + WatchEvery + 1
MaxWait == Later(RunningAfter, UnloadWait)
MaxSpent == 2 * UnloadWait + 1

VARIABLES
    pc,         \* where each thread stands
    asked,      \* the engines each call was asked for
    target,     \* the one it is about now
    waited,     \* ticks since waiting_since, while it waits for that one
    spent,      \* history: ticks a drain has waited in all
    owner,      \* the engine mutexes
    stamp,      \* Engines::{embed,rerank}_inflight: the phase and its age
    due,        \* ticks until the watchdog wakes
    round,      \* the engines its current round has still to look at
    announced,  \* the watchdog's flags
    told,       \* history: announcements since the phase was entered, up to 2
    lost        \* history: has the watchdog missed a reading of this phase?

call     == <<asked, target>>
wait     == <<waited, spent>>
calls    == <<pc, call, wait>>
watchdog == <<due, round, announced, told, lost>>
vars     == <<calls, owner, stamp, watchdog>>

Free     == [phase |-> "none", age |-> 0]

Waiting  == {"polling", "looking", "asleep"}
Points   == Waiting \cup {"away", "held", "building", "running", "leaving", "draining", "gone"}

TypeOK ==
    /\ pc \in [Threads -> Points]
    /\ target \in [Threads -> Engines]
    /\ asked \in [Threads -> SUBSET Engines]
    /\ waited \in [Threads -> 0..MaxWait]
    /\ spent \in [Unloads -> 0..MaxSpent]
    /\ owner \in [Engines -> Threads \cup {Nobody}]
    /\ stamp \in [Engines -> [phase : Phases, age : 0..MaxAge]]
    /\ due \in 0..WatchEvery
    /\ round \subseteq Engines
    /\ announced \in [Engines -> BOOLEAN]
    /\ told \in [Engines -> 0..2]
    /\ lost \in [Engines -> BOOLEAN]

Init ==
    /\ pc = [t \in Threads |-> "away"]
    /\ asked = [t \in Threads |-> {}]
    /\ target = [t \in Threads |-> "embed"]
    /\ waited = [t \in Threads |-> 0]
    /\ spent = [u \in Unloads |-> 0]
    /\ owner = [e \in Engines |-> Nobody]
    /\ stamp = [e \in Engines |-> Free]
    /\ due = WatchEvery
    /\ round = {}
    /\ announced = [e \in Engines |-> FALSE]
    /\ told = [e \in Engines |-> 0]
    /\ lost = [e \in Engines |-> FALSE]
-----------------------------------------------------------------------------
(***************************************************************************)
(* What a reading of a stamp means.                                        *)
(***************************************************************************)

\* WedgePolicy::ceiling, and running_after when nothing is stamped.
Ceiling(phase) == IF phase = "Building" THEN BuildingAfter ELSE RunningAfter

\* inflight_now: the record, or nothing when its mutex is taken.
Readings(e) == {stamp[e]} \cup (IF Contended THEN {Free} ELSE {})

\* Mutant of HeldFor: a hold that nothing stamped has no age.
HeldForStampedOnly(t, seen) == seen.age

\* held_for: the age of the phase, or how long this caller has waited.
HeldFor(t, seen) == IF seen.phase = "none" THEN waited[t] ELSE seen.age

Wedged(e) == stamp[e].phase # "none" /\ stamp[e].age >= Ceiling(stamp[e].phase)

At(t, point)   == pc[t] = point
Goto(t, point) == pc' = [pc EXCEPT ![t] = point]
-----------------------------------------------------------------------------
(***************************************************************************)
(* lock_or_refuse.                                                         *)
(***************************************************************************)
\* A pass wants one engine, a drain either or both of them: embed comes first.
Arrive(t, wanted) ==
    /\ At(t, "away")
    /\ wanted # {}
    /\ t \in Passes => wanted # Engines
    /\ asked' = [asked EXCEPT ![t] = wanted]
    /\ target' = [target EXCEPT ![t] = IF "embed" \in wanted THEN "embed" ELSE "rerank"]
    /\ Goto(t, "polling")
    /\ UNCHANGED <<wait, owner, stamp, watchdog>>

\* try_lock answered Ok.
Acquire(t) ==
    /\ At(t, "polling")
    /\ owner[target[t]] = Nobody
    /\ owner' = [owner EXCEPT ![target[t]] = t]
    /\ waited' = [waited EXCEPT ![t] = 0]
    /\ Goto(t, IF t \in Passes THEN "held" ELSE "draining")
    /\ UNCHANGED <<call, spent, stamp, watchdog>>

\* try_lock answered WouldBlock; the stamp is read in a step of its own.
WouldBlock(t) ==
    /\ At(t, "polling")
    /\ owner[target[t]] # Nobody
    /\ Goto(t, "looking")
    /\ UNCHANGED <<call, wait, owner, stamp, watchdog>>

\* The first of two engines of a drain is behind it.
HasMore(t) == asked[t] = Engines /\ target[t] = "embed"

\* drain_engines: whatever became of the first engine, the second has its turn
\* and a patience of its own; everybody else is answered.
GoOn(t) ==
    /\ Goto(t, IF HasMore(t) THEN "polling" ELSE "away")
    /\ target' = [target EXCEPT ![t] = IF HasMore(t) THEN "rerank" ELSE "embed"]
    /\ asked' = [asked EXCEPT ![t] = IF HasMore(t) THEN Engines ELSE {}]
    /\ waited' = [waited EXCEPT ![t] = 0]
    /\ spent' = [u \in Unloads |-> IF u = t /\ ~HasMore(t) THEN 0 ELSE spent[u]]

\* What the waiter saw has passed its ceiling.
RefuseWedged(t) ==
    /\ At(t, "looking")
    /\ \E seen \in Readings(target[t]) : HeldFor(t, seen) >= Ceiling(seen.phase)
    /\ GoOn(t)
    /\ UNCHANGED <<owner, stamp, watchdog>>

\* Mutant of Patient: a drain measures its patience with the holder's clock.
PatientByTheHoldersClock(t, seen) == t \in Unloads => seen.age < UnloadWait

\* Patience: a drain gives up after unload_wait, a pass never does.
Patient(t, seen) == t \in Unloads => waited[t] < UnloadWait

\* The holder is alive and Patience::AtMost ran out.
RefuseBusy(t) ==
    /\ At(t, "looking")
    /\ \E seen \in Readings(target[t]) :
        HeldFor(t, seen) < Ceiling(seen.phase) /\ ~Patient(t, seen)
    /\ GoOn(t)
    /\ UNCHANGED <<owner, stamp, watchdog>>

\* The holder is alive and so is the caller's patience.
Sleep(t) ==
    /\ At(t, "looking")
    /\ \E seen \in Readings(target[t]) :
        HeldFor(t, seen) < Ceiling(seen.phase) /\ Patient(t, seen)
    /\ Goto(t, "asleep")
    /\ UNCHANGED <<call, wait, owner, stamp, watchdog>>
-----------------------------------------------------------------------------
(***************************************************************************)
(* The holder: InFlightStamp::enter restarts the clock, its drop clears    *)
(* the record, and the guard goes last.                                    *)
(***************************************************************************)

Enter(t, phase) ==
    /\ stamp' = [stamp EXCEPT ![target[t]] = [phase |-> phase, age |-> 0]]
    /\ told' = [told EXCEPT ![target[t]] = 0]
    /\ lost' = [lost EXCEPT ![target[t]] = FALSE]

EnterBuilding(t) ==
    /\ At(t, "held")
    /\ t \in Passes
    /\ Enter(t, "Building")
    /\ Goto(t, "building")
    /\ UNCHANGED <<call, wait, owner, due, round, announced>>

EnterRunning(t) ==
    /\ pc[t] \in {"held", "building"}
    /\ Enter(t, "Running")
    /\ Goto(t, "running")
    /\ UNCHANGED <<call, wait, owner, due, round, announced>>

\* The build failed, or the pass returned: the stamp is dropped first.
DropStamp(t) ==
    /\ pc[t] \in {"building", "running"}
    /\ stamp' = [stamp EXCEPT ![target[t]] = Free]
    /\ Goto(t, "leaving")
    /\ UNCHANGED <<call, wait, owner, watchdog>>

\* The guard is dropped; a drain took the engines under it and stamped nothing.
Leave(t) ==
    /\ pc[t] \in {"leaving", "draining"}
    /\ owner' = [owner EXCEPT ![target[t]] = Nobody]
    /\ GoOn(t)
    /\ UNCHANGED <<stamp, watchdog>>
-----------------------------------------------------------------------------
(***************************************************************************)
(* spawn_wedge_watchdog: one round over the engines per wake-up.           *)
(***************************************************************************)
\* tokio's sleep ended: a round over the engines begins, in either order.
Wake ==
    /\ due = 0
    /\ round = {}
    /\ due' = WatchEvery
    /\ round' = Engines
    /\ UNCHANGED <<calls, owner, stamp, announced, told, lost>>

\* Mutant of ExitDue: the ceiling is counted once more on top of the verdict.
ExitDueOnceMore(seen) ==
    WedgeExit /\ seen.phase # "none" /\ seen.age >= 2 * Ceiling(seen.phase) + ExitAfter

\* wedge_action: the exit is measured from the wedge verdict.
ExitDue(seen) ==
    WedgeExit /\ seen.phase # "none" /\ seen.age >= Ceiling(seen.phase) + ExitAfter

ReportDue(seen) ==
    seen.phase # "none" /\ seen.age >= Ceiling(seen.phase) /\ ~ExitDue(seen)

\* Mutant of LookHealthy: the flag outlives the wedge it was raised for.
LookHealthyKeepsTheFlag(e) ==
    /\ e \in round
    /\ \E seen \in Readings(e) :
        /\ seen.phase = "none" \/ seen.age < Ceiling(seen.phase)
        /\ lost' = [lost EXCEPT ![e] = @ \/ seen # stamp[e]]
    /\ round' = round \ {e}
    /\ UNCHANGED <<calls, owner, stamp, due, announced, told>>

\* Nothing was read, or WedgeAction::Nothing.
LookHealthy(e) ==
    /\ e \in round
    /\ \E seen \in Readings(e) :
        /\ seen.phase = "none" \/ seen.age < Ceiling(seen.phase)
        /\ lost' = [lost EXCEPT ![e] = @ \/ seen # stamp[e]]
    /\ announced' = [announced EXCEPT ![e] = FALSE]
    /\ round' = round \ {e}
    /\ UNCHANGED <<calls, owner, stamp, due, told>>

\* WedgeAction::Report, announced or not.
LookWedged(e) ==
    /\ e \in round
    /\ \E seen \in Readings(e) : ReportDue(seen)
    /\ announced' = [announced EXCEPT ![e] = TRUE]
    /\ told' = [told EXCEPT ![e] =
                  IF announced[e] \/ told[e] = 2 THEN told[e] ELSE told[e] + 1]
    /\ round' = round \ {e}
    /\ UNCHANGED <<calls, owner, stamp, due, lost>>

\* WedgeAction::Exit: every thread of the process is gone.
Exit(e) ==
    /\ e \in round
    /\ \E seen \in Readings(e) : ExitDue(seen)
    /\ pc' = [t \in Threads |-> "gone"]
    /\ asked' = [t \in Threads |-> {}]
    /\ target' = [t \in Threads |-> "embed"]
    /\ waited' = [t \in Threads |-> 0]
    /\ spent' = [u \in Unloads |-> 0]
    /\ owner' = [o \in Engines |-> Nobody]
    /\ stamp' = [o \in Engines |-> Free]
    /\ due' = WatchEvery
    /\ round' = {}
    /\ announced' = [o \in Engines |-> FALSE]
    /\ told' = [o \in Engines |-> 0]
    /\ lost' = [o \in Engines |-> FALSE]

\* The host restarts the sidecar.
Restart ==
    /\ \A t \in Threads : At(t, "gone")
    /\ pc' = [t \in Threads |-> "away"]
    /\ UNCHANGED <<call, wait, owner, stamp, watchdog>>
-----------------------------------------------------------------------------
UpTo(bound, n) == IF n < bound THEN n + 1 ELSE n

\* One poll interval passes: only native calls and sleepers take time.
Tick ==
    /\ \A t \in Threads : pc[t] \in {"away", "asleep", "building", "running"}
    /\ round = {}
    /\ due > 0
    /\ due' = due - 1
    /\ pc' = [t \in Threads |-> IF At(t, "asleep") THEN "polling" ELSE pc[t]]
    /\ waited' = [t \in Threads |-> IF At(t, "asleep") THEN UpTo(MaxWait, waited[t]) ELSE waited[t]]
    /\ spent' = [u \in Unloads |-> IF At(u, "asleep") THEN UpTo(MaxSpent, spent[u]) ELSE spent[u]]
    /\ stamp' = [e \in Engines |->
                   IF stamp[e].phase = "none" THEN Free
                   ELSE [stamp[e] EXCEPT !.age = UpTo(MaxAge, @)]]
    /\ UNCHANGED <<call, owner, round, announced, told, lost>>

Next ==
    \/ \E t \in Threads :
        \/ \E wanted \in SUBSET Engines : Arrive(t, wanted)
        \/ Acquire(t) \/ WouldBlock(t) \/ RefuseWedged(t) \/ RefuseBusy(t) \/ Sleep(t)
        \/ EnterBuilding(t) \/ EnterRunning(t) \/ DropStamp(t) \/ Leave(t)
    \/ Wake
    \/ \E e \in Engines : LookHealthy(e) \/ LookWedged(e) \/ Exit(e)
    \/ Tick
    \/ Restart

Spec == Init /\ [][Next]_vars
-----------------------------------------------------------------------------
(***************************************************************************)
(* Properties.                                                             *)
(***************************************************************************)

\* The missing ceiling was the defect: nobody who has waited running_after
\* sleeps on behind a holder past its ceiling, even when the stamp cannot be
\* read at any poll. A phase of age nought was entered since the last poll.
NoSleepBehindAWedge ==
    \A t \in Threads :
        At(t, "asleep") /\ Wedged(target[t]) /\ stamp[target[t]].age > 0
            => waited[t] < RunningAfter

\* "/unload: answer the caller within a bound, whatever the holder is doing": a
\* drain waits unload_wait at most for each engine it was asked for, so a full
\* one twice that, however the holders change phase and whoever of them hangs.
UnloadAnswersInTime ==
    \A u \in Unloads : spent[u] <= (IF asked[u] = Engines THEN 2 ELSE 1) * UnloadWait

\* The watchdog wakes at least once within every phase that becomes wedged: 30 s
\* against 900 s and 3600 s by default, though no setting is refused.
WatchIsFine == WatchEvery < RunningAfter /\ WatchEvery < BuildingAfter

\* The watchdog is silent about a wedge only after it has announced it: the
\* flag of an earlier wedge never swallows the announcement of the next.
SilenceMeansTold ==
    WatchIsFine => \A e \in Engines : announced[e] /\ Wedged(e) => told[e] > 0

\* A wedge is on the log within one watchdog period of becoming one, unless a
\* reading of its stamp was lost to another reader.
WedgeReachesTheLog ==
    WatchIsFine => \A e \in Engines :
        Wedged(e) /\ stamp[e].age > Ceiling(stamp[e].phase) + WatchEvery /\ ~lost[e]
            => told[e] > 0

\* "Exit the process once an engine has been WEDGED for this long on top of its
\* ceiling": with WEDGE_EXIT no wedge is older than that by more than one
\* watchdog period, whatever the phases, the rounds and the callers did before,
\* unless a reading of its stamp was lost to another reader.
WedgeEndsTheProcess ==
    WedgeExit => \A e \in Engines :
        stamp[e].phase # "none" /\ ~lost[e]
            => stamp[e].age <= Ceiling(stamp[e].phase) + ExitAfter + WatchEvery

(***************************************************************************)
(* The inductive invariant behind them: how far a phase can age before the *)
(* watchdog has looked at it.                                              *)
(***************************************************************************)

\* A flag raised for an earlier phase does not survive the first round that
\* looks at the present one, and that round comes before the ceiling does.
OldFlagsFall ==
    \A e \in Engines :
        announced[e] /\ stamp[e].phase # "none" /\ told[e] = 0
            => \/ stamp[e].age + due <= WatchEvery
               \/ e \in round /\ stamp[e].age <= WatchEvery

\* A phase nothing was said about was looked at before its ceiling, and will be
\* looked at again within a period of that.
LookedAtInTime ==
    \A e \in Engines :
        stamp[e].phase # "none" /\ told[e] = 0 /\ ~lost[e]
            => \/ stamp[e].age + due < Ceiling(stamp[e].phase) + WatchEvery
               \/ e \in round /\ stamp[e].age < Ceiling(stamp[e].phase) + WatchEvery

\* A phase the watchdog has not ended will be looked at within a period of the
\* moment it may end.
EndedInTime ==
    \A e \in Engines :
        stamp[e].phase # "none" /\ ~lost[e]
            => LET last == Ceiling(stamp[e].phase) + ExitAfter + WatchEvery
               IN  stamp[e].age + due <= last \/ (e \in round /\ stamp[e].age <= last)

\* What a drain has waited in all is what it waits for this engine, and at most
\* unload_wait for the one before.
Before(u) == IF asked[u] = Engines /\ target[u] = "rerank" THEN UnloadWait ELSE 0

WaitsAreAccounted ==
    \A u \in Unloads :
        /\ waited[u] <= UnloadWait
        /\ At(u, "asleep") => waited[u] < UnloadWait
        /\ spent[u] <= Before(u) + IF pc[u] \in Waiting THEN waited[u] ELSE UnloadWait
        /\ pc[u] \in {"away", "gone"} => spent[u] = 0

IInv ==
    /\ TypeOK
    /\ NoSleepBehindAWedge
    /\ WaitsAreAccounted
    /\ WatchIsFine => OldFlagsFall /\ LookedAtInTime
    /\ WedgeExit => EndedInTime

(***************************************************************************)
(* What the repository says and the code does not do.                      *)
(***************************************************************************)

\* "Held by a healthy holder - a first-ever shape compile is minutes of CORRECT
\* slowness. Wait.": no pass is turned away from a holder within its ceiling, or
\* from nobody.
HealthyHolderIsWaitedFor ==
    [][\A t \in Passes :
        At(t, "looking") /\ pc'[t] = "away" => Wedged(target[t])]_vars

\* "One announcement per wedge, not one per tick".
OneAnnouncementPerWedge == \A e \in Engines : told[e] <= 1
=============================================================================
