--------------------------- MODULE WedgeGateProofs ---------------------------
(***************************************************************************)
(* The ceiling on waiting, for any number of callers and any setting of    *)
(* the policy, nought included: nobody sleeps behind a wedge past          *)
(* running_after, /unload answers within unload_wait of each engine it is  *)
(* asked for, the watchdog neither misses a wedge nor keeps silent about   *)
(* one, and with WEDGE_EXIT it ends the process in time.                   *)
(***************************************************************************)
EXTENDS WedgeGate, TLAPS

LEMMA Settings ==
    /\ MaxAge \in Nat /\ MaxWait \in Nat /\ MaxSpent \in Nat
    /\ \A phase : Ceiling(phase) \in Nat
    /\ RunningAfter \in Nat /\ UnloadWait \in Nat /\ ExitAfter \in Nat
    /\ WatchEvery \in Nat \ {0}
    /\ UnloadWait <= MaxWait
    /\ WatchIsFine => \A phase : WatchEvery < Ceiling(phase)
    /\ \A t \in Threads : t # Nobody
BY WedgeAssumption DEF MaxAge, MaxWait, MaxSpent, Later, Ceiling, WatchIsFine, Threads

\* Counting up to a bound stays within it.
LEMMA UpToBound ==
    ASSUME NEW bound \in Nat, NEW n \in 0..bound
    PROVE  /\ UpTo(bound, n) \in 0..bound /\ UpTo(bound, n) <= n + 1
           /\ n < bound => UpTo(bound, n) = n + 1
BY DEF UpTo

\* What a stamp is, field by field.
LEMMA StampType ==
    ASSUME TypeOK, NEW e \in Engines
    PROVE  /\ stamp[e].phase \in Phases
           /\ stamp[e].age \in 0..MaxAge
BY DEF TypeOK

LEMMA FreeType == Free \in [phase : Phases, age : 0..MaxAge] /\ Free.phase = "none" /\ Free.age = 0
BY Settings DEF Free, Phases

\* What one tick does to a stamp.
LEMMA TickType ==
    ASSUME TypeOK, Tick, NEW e \in Engines
    PROVE  /\ stamp'[e].phase = stamp[e].phase
           /\ stamp[e].phase # "none" =>
                /\ stamp'[e].age <= stamp[e].age + 1
                /\ stamp'[e].age \in 0..MaxAge
           /\ stamp'[e] \in [phase : Phases, age : 0..MaxAge]
<1> DEFINE older == [stamp[e] EXCEPT !.age = UpTo(MaxAge, stamp[e].age)]
<1>1. stamp'[e] = IF stamp[e].phase = "none" THEN Free ELSE older
  BY DEF Tick
<1>2. /\ stamp[e] \in [phase : Phases, age : 0..MaxAge]
      /\ stamp[e].age \in 0..MaxAge /\ stamp[e].phase \in Phases
  BY StampType DEF TypeOK
<1>3. UpTo(MaxAge, stamp[e].age) \in 0..MaxAge /\ UpTo(MaxAge, stamp[e].age) <= stamp[e].age + 1
  BY <1>2, Settings, UpToBound
<1> HIDE DEF older
<1>4. /\ older.phase = stamp[e].phase /\ older.age = UpTo(MaxAge, stamp[e].age)
      /\ older \in [phase : Phases, age : 0..MaxAge]
  BY <1>2, <1>3 DEF older
<1>5. CASE stamp[e].phase = "none"
  BY <1>1, <1>5, FreeType
<1>6. CASE stamp[e].phase # "none"
  BY <1>1, <1>3, <1>4, <1>6
<1>7. QED
  BY <1>5, <1>6

-----------------------------------------------------------------------------
\* drain_engines' next engine, or the answer.
LEMMA GoOnType ==
    ASSUME TypeOK, NEW t \in Threads, GoOn(t)
    PROVE  /\ pc' \in [Threads -> Points] /\ target' \in [Threads -> Engines]
           /\ asked' \in [Threads -> SUBSET Engines] /\ waited' \in [Threads -> 0..MaxWait]
           /\ spent' \in [Unloads -> 0..MaxSpent]
<1> USE Settings DEF TypeOK, GoOn, Goto
<1>1. pc' \in [Threads -> Points]
  BY DEF Points, Waiting
<1>2. target' \in [Threads -> Engines] /\ asked' \in [Threads -> SUBSET Engines]
  BY DEF Engines
<1>3. waited' \in [Threads -> 0..MaxWait]
  OBVIOUS
<1>4. spent' \in [Unloads -> 0..MaxSpent]
  OBVIOUS
<1>5. QED
  BY <1>1, <1>2, <1>3, <1>4

LEMMA TypeStep == TypeOK /\ [Next]_vars => TypeOK'
<1> SUFFICES ASSUME TypeOK, [Next]_vars PROVE TypeOK'
  OBVIOUS
<1> USE Settings DEF TypeOK, Points, Waiting, At, Goto, call, wait
<1>1. CASE UNCHANGED vars
  BY <1>1 DEF vars, calls, watchdog
<1>2. ASSUME NEW t \in Threads, NEW wanted \in SUBSET Engines, Arrive(t, wanted) PROVE TypeOK'
  BY <1>2 DEF Arrive, watchdog, Engines
<1>3. ASSUME NEW t \in Threads, Acquire(t) PROVE TypeOK'
  BY <1>3 DEF Acquire, watchdog
<1>4. ASSUME NEW t \in Threads, WouldBlock(t) \/ Sleep(t) PROVE TypeOK'
  BY <1>4 DEF WouldBlock, Sleep, watchdog
<1>16. ASSUME NEW t \in Threads, RefuseWedged(t) \/ RefuseBusy(t) PROVE TypeOK'
  <2>1. GoOn(t) /\ UNCHANGED <<owner, stamp, watchdog>>
    BY <1>16 DEF RefuseWedged, RefuseBusy
  <2>2. QED
    BY <2>1, GoOnType DEF watchdog
<1>5. ASSUME NEW t \in Threads, NEW phase \in {"Building", "Running"}, Enter(t, phase)
      PROVE  /\ stamp' \in [Engines -> [phase : Phases, age : 0..MaxAge]]
             /\ told' \in [Engines -> 0..2] /\ lost' \in [Engines -> BOOLEAN]
  <2>1. [phase |-> phase, age |-> 0] \in [phase : Phases, age : 0..MaxAge]
    BY DEF Phases
  <2>2. QED
    BY <1>5, <2>1 DEF Enter
<1>6. ASSUME NEW t \in Threads, EnterBuilding(t) \/ EnterRunning(t) PROVE TypeOK'
  <2>1. \E phase \in {"Building", "Running"} : Enter(t, phase)
    BY <1>6 DEF EnterBuilding, EnterRunning
  <2>2. QED
    BY <1>5, <1>6, <2>1 DEF EnterBuilding, EnterRunning
<1>7. ASSUME NEW t \in Threads, DropStamp(t) PROVE TypeOK'
  BY <1>7, FreeType DEF DropStamp, watchdog
<1>8. ASSUME NEW t \in Threads, Leave(t) PROVE TypeOK'
  <2>1. GoOn(t) /\ owner' = [owner EXCEPT ![target[t]] = Nobody] /\ UNCHANGED <<stamp, watchdog>>
    BY <1>8 DEF Leave
  <2>2. QED
    BY <2>1, GoOnType DEF watchdog
<1>9. CASE Wake
  BY <1>9 DEF Wake, calls
<1>10. ASSUME NEW e \in Engines, LookHealthy(e) PROVE TypeOK'
  <2>1. lost' \in [Engines -> BOOLEAN]
    BY <1>10 DEF LookHealthy
  <2>2. QED
    BY <1>10, <2>1 DEF LookHealthy, calls
<1>11. ASSUME NEW e \in Engines, LookWedged(e) PROVE TypeOK'
  <2>1. told' \in [Engines -> 0..2]
    BY <1>11 DEF LookWedged
  <2>2. QED
    BY <1>11, <2>1 DEF LookWedged, calls
<1>12. ASSUME NEW e \in Engines, Exit(e) PROVE TypeOK'
  BY <1>12, FreeType DEF Exit, Engines
<1>13. CASE Restart
  BY <1>13 DEF Restart, watchdog
<1>14. CASE Tick
  <2>1. stamp' \in [Engines -> [phase : Phases, age : 0..MaxAge]]
    <3>1. \A e \in Engines : stamp'[e] \in [phase : Phases, age : 0..MaxAge]
      BY <1>14, TickType
    <3>2. \E f : stamp' = [e \in Engines |-> f[e]]
      <4>1. stamp' = [e \in Engines |-> stamp'[e]]
        BY <1>14 DEF Tick
      <4>2. QED
        BY <4>1
    <3>3. QED
      BY <3>1, <3>2
  <2>2. waited' \in [Threads -> 0..MaxWait]
    <3>1. \A t \in Threads : UpTo(MaxWait, waited[t]) \in 0..MaxWait
      BY UpToBound
    <3>2. QED
      BY <1>14, <3>1 DEF Tick
  <2>5. spent' \in [Unloads -> 0..MaxSpent]
    <3>1. \A u \in Unloads : UpTo(MaxSpent, spent[u]) \in 0..MaxSpent
      BY UpToBound
    <3>2. QED
      BY <1>14, <3>1 DEF Tick
  <2>3. pc' \in [Threads -> Points] /\ due' \in 0..WatchEvery
    BY <1>14 DEF Tick
  <2>4. QED
    BY <1>14, <2>1, <2>2, <2>3, <2>5 DEF Tick
<1>15. QED
  BY <1>1, <1>2, <1>3, <1>4, <1>6, <1>7, <1>8, <1>9, <1>10, <1>11, <1>12, <1>13, <1>14, <1>16 DEF Next
-----------------------------------------------------------------------------
\* What a step does to a sleeper: it falls asleep now, or it slept before
\* and neither its wait nor its engine has changed.
LEMMA Sleepers ==
    ASSUME TypeOK, [Next]_vars, NEW t \in Threads, pc'[t] = "asleep"
    PROVE  /\ t \in Threads /\ target'[t] = target[t] /\ waited'[t] = waited[t]
           /\ \/ Sleep(t)
              \/ pc[t] = "asleep" /\ ~Tick
<1> USE DEF TypeOK, At, Goto, call, wait
<1>1. CASE UNCHANGED vars
  BY <1>1 DEF vars, calls, Tick, watchdog
<1>2. ASSUME NEW u \in Threads, NEW wanted \in SUBSET Engines, Arrive(u, wanted)
      PROVE  /\ target'[t] = target[t] /\ waited'[t] = waited[t]
             /\ pc[t] = "asleep" /\ ~Tick
  <2>1. t # u
    BY <1>2 DEF Arrive
  <2>2. pc[t] = "asleep"
    BY <1>2, <2>1 DEF Arrive
  <2>3. QED
    BY <1>2, <2>1, <2>2 DEF Arrive, Tick
<1>3. ASSUME NEW u \in Threads, NEW point \in Points \ {"asleep"}, Goto(u, point),
             u # t => target'[t] = target[t] /\ waited'[t] = waited[t]
      PROVE  /\ target'[t] = target[t] /\ waited'[t] = waited[t]
             /\ pc[t] = "asleep" /\ ~Tick
  <2>1. t # u /\ pc[t] = "asleep"
    BY <1>3
  <2>2. ~Tick
    BY <2>1 DEF Tick
  <2>3. QED
    BY <1>3, <2>1, <2>2
<1>8. ASSUME NEW u \in Threads,
             WouldBlock(u) \/ EnterBuilding(u) \/ EnterRunning(u) \/ DropStamp(u)
      PROVE  /\ target'[t] = target[t] /\ waited'[t] = waited[t]
             /\ pc[t] = "asleep" /\ ~Tick
  <2>1. UNCHANGED <<target, waited>>
    BY <1>8 DEF WouldBlock, EnterBuilding, EnterRunning, DropStamp
  <2>2. \E point \in Points \ {"asleep"} : Goto(u, point)
    BY <1>8 DEF WouldBlock, EnterBuilding, EnterRunning, DropStamp, Points, Waiting
  <2>3. QED
    BY <1>3, <2>1, <2>2
<1>9. ASSUME NEW u \in Threads, Acquire(u)
      PROVE  /\ target'[t] = target[t] /\ waited'[t] = waited[t]
             /\ pc[t] = "asleep" /\ ~Tick
  <2>1. \E point \in Points \ {"asleep"} : Goto(u, point)
    BY <1>9 DEF Acquire, Points
  <2>2. u # t => target'[t] = target[t] /\ waited'[t] = waited[t]
    BY <1>9 DEF Acquire
  <2>3. QED
    BY <1>3, <2>1, <2>2
<1>10. ASSUME NEW u \in Threads, GoOn(u)
       PROVE  /\ target'[t] = target[t] /\ waited'[t] = waited[t]
              /\ pc[t] = "asleep" /\ ~Tick
  <2>1. \E point \in Points \ {"asleep"} : Goto(u, point)
    BY <1>10 DEF GoOn, Points, Waiting
  <2>2. u # t => target'[t] = target[t] /\ waited'[t] = waited[t]
    BY <1>10 DEF GoOn
  <2>3. QED
    BY <1>3, <2>1, <2>2
<1>11. ASSUME NEW u \in Threads, RefuseWedged(u) \/ RefuseBusy(u) \/ Leave(u) PROVE GoOn(u)
  BY <1>11 DEF RefuseWedged, RefuseBusy, Leave
<1>4. ASSUME NEW u \in Threads, Sleep(u)
      PROVE  /\ target'[t] = target[t] /\ waited'[t] = waited[t]
             /\ Sleep(t) \/ (pc[t] = "asleep" /\ ~Tick)
  <2>1. t # u => pc[t] = "asleep"
    BY <1>4 DEF Sleep
  <2>2. pc[t] = "asleep" => ~Tick
    BY DEF Tick
  <2>3. QED
    BY <1>4, <2>1, <2>2 DEF Sleep
<1>5. CASE Wake \/ \E e \in Engines : LookHealthy(e) \/ LookWedged(e)
  BY <1>5 DEF Wake, LookHealthy, LookWedged, calls, Tick
<1>6. CASE (\E e \in Engines : Exit(e)) \/ Restart \/ Tick
  <2>1. pc'[t] # "asleep"
    BY <1>6 DEF Exit, Restart, Tick
  <2>2. QED
    BY <2>1
<1>7. QED
  BY <1>1, <1>2, <1>4, <1>5, <1>6, <1>8, <1>9, <1>10, <1>11 DEF Next

\* What a step that is not a tick does to a stamp: it stays, or a phase starts
\* at age nought, or it is dropped.
LEMMA Stamps ==
    ASSUME TypeOK, [Next]_vars, ~Tick, NEW e \in Engines
    PROVE  stamp'[e] = stamp[e] \/ stamp'[e].phase = "none" \/ stamp'[e].age = 0
<1> USE DEF TypeOK
<1>1. CASE UNCHANGED vars
  BY <1>1 DEF vars
<1>2. ASSUME NEW t \in Threads, NEW wanted \in SUBSET Engines, Arrive(t, wanted) PROVE UNCHANGED stamp
  BY <1>2 DEF Arrive
<1>3. ASSUME NEW t \in Threads,
             \/ Acquire(t) \/ WouldBlock(t) \/ RefuseWedged(t) \/ RefuseBusy(t) \/ Sleep(t)
             \/ Leave(t)
      PROVE  UNCHANGED stamp
  BY <1>3 DEF Acquire, WouldBlock, RefuseWedged, RefuseBusy, Sleep, Leave
<1>4. ASSUME NEW t \in Threads, EnterBuilding(t) \/ EnterRunning(t)
      PROVE  stamp'[e] = stamp[e] \/ stamp'[e].age = 0
  BY <1>4 DEF EnterBuilding, EnterRunning, Enter
<1>5. ASSUME NEW t \in Threads, DropStamp(t)
      PROVE  stamp'[e] = stamp[e] \/ stamp'[e].phase = "none"
  BY <1>5, FreeType DEF DropStamp
<1>6. CASE Wake \/ Restart \/ \E f \in Engines : LookHealthy(f) \/ LookWedged(f)
  BY <1>6 DEF Wake, Restart, LookHealthy, LookWedged
<1>7. ASSUME NEW f \in Engines, Exit(f) PROVE stamp'[e].phase = "none"
  BY <1>7, FreeType DEF Exit
<1>8. QED
  BY <1>1, <1>2, <1>3, <1>4, <1>5, <1>6, <1>7 DEF Next

\* A waiter that goes to sleep saw a holder within its ceiling, or counted its
\* own wait against running_after.
LEMMA SleepStep ==
    ASSUME TypeOK, NoSleepBehindAWedge, [Next]_vars
    PROVE  NoSleepBehindAWedge'
<1>1. ASSUME NEW t \in Threads, Sleep(t)
      PROVE  /\ Wedged(target[t]) => waited[t] < RunningAfter
             /\ UNCHANGED stamp
  <2>1. PICK seen \in Readings(target[t]) : HeldFor(t, seen) < Ceiling(seen.phase)
    BY <1>1 DEF Sleep
  <2>2. seen = stamp[target[t]] \/ seen = Free
    BY <2>1 DEF Readings
  <2>3. CASE seen.phase = "none"
    BY <1>1, <2>1, <2>3 DEF HeldFor, Ceiling, Sleep
  <2>4. CASE seen.phase # "none"
    <3>1. seen = stamp[target[t]]
      BY <2>2, <2>4, FreeType
    <3>2. target[t] \in Engines
      BY DEF TypeOK
    <3>3. stamp[target[t]].age \in Nat /\ Ceiling(stamp[target[t]].phase) \in Nat
      <4>1. stamp[target[t]].age \in 0..MaxAge
        BY <3>2, StampType
      <4>2. QED
        BY <4>1, Settings
    <3>4. ~Wedged(target[t])
      BY <2>1, <2>4, <3>1, <3>3 DEF HeldFor, Wedged
    <3>5. QED
      BY <1>1, <3>4 DEF Sleep
  <2>5. QED
    BY <2>3, <2>4
<1>2. ASSUME NEW t \in Threads, pc'[t] = "asleep", Wedged(target[t])', stamp'[target'[t]].age > 0
      PROVE  waited'[t] < RunningAfter
  <2>1. target'[t] = target[t] /\ waited'[t] = waited[t] /\ target[t] \in Engines
    BY <1>2, Sleepers DEF TypeOK
  <2>2. CASE Sleep(t)
    BY <1>1, <1>2, <2>1, <2>2 DEF Wedged
  <2>3. CASE pc[t] = "asleep" /\ ~Tick
    <3>1. \/ stamp'[target[t]] = stamp[target[t]]
          \/ stamp'[target[t]].phase = "none" \/ stamp'[target[t]].age = 0
      BY <2>1, <2>3, Stamps
    <3>2. stamp'[target[t]].phase # "none" /\ stamp'[target[t]].age > 0
      BY <1>2, <2>1 DEF Wedged
    <3>3. stamp'[target[t]] = stamp[target[t]]
      BY <3>1, <3>2
    <3>4. Wedged(target[t])
      BY <1>2, <2>1, <3>3 DEF Wedged
    <3>5. stamp[target[t]].age > 0
      BY <3>2, <3>3
    <3>6. QED
      BY <2>1, <2>3, <3>4, <3>5 DEF NoSleepBehindAWedge, At
  <2>4. QED
    BY <1>2, <2>2, <2>3, Sleepers
<1>3. QED
  BY <1>2 DEF NoSleepBehindAWedge, At
-----------------------------------------------------------------------------
\* drain_engines: a drain that goes on to its second engine brings at most one
\* unload_wait with it, and one that is answered starts afresh.
LEMMA WaitsStep ==
    ASSUME TypeOK, WaitsAreAccounted, [Next]_vars
    PROVE  WaitsAreAccounted'
<1> DEFINE Told(u) == IF pc[u] \in Waiting THEN waited[u] ELSE UnloadWait
           Fine(u) == /\ waited[u] <= UnloadWait
                      /\ pc[u] = "asleep" => waited[u] < UnloadWait
                      /\ spent[u] <= Before(u) + Told(u)
                      /\ pc[u] \in {"away", "gone"} => spent[u] = 0
<1>1. SUFFICES ASSUME NEW u \in Unloads PROVE Fine(u)'
  BY DEF WaitsAreAccounted, At
<1>2. Fine(u) /\ u \in Threads /\ u \notin Passes
  BY WedgeAssumption DEF WaitsAreAccounted, At, Threads
<1>3. /\ UnloadWait \in Nat /\ MaxWait \in Nat /\ MaxSpent \in Nat /\ UnloadWait <= MaxWait
      /\ waited[u] \in 0..MaxWait /\ spent[u] \in 0..MaxSpent
      /\ waited[u] \in Nat /\ spent[u] \in Nat /\ Before(u) \in Nat
      /\ target[u] \in Engines /\ Nobody \notin Threads
  BY <1>2, Settings DEF TypeOK, Before
<1>4. ASSUME UNCHANGED <<pc[u], asked[u], target[u], waited[u], spent[u]>> PROVE Fine(u)'
  BY <1>2, <1>4 DEF Before
<1>5. CASE UNCHANGED calls
  BY <1>4, <1>5 DEF calls, call, wait
<1>6. ASSUME NEW t \in Threads, NEW wanted \in SUBSET Engines, Arrive(t, wanted) PROVE Fine(u)'
  <2>1. CASE t # u
    BY <1>4, <1>6, <2>1 DEF Arrive, Goto, wait, TypeOK
  <2>2. CASE t = u
    <3>1. pc'[u] = "polling" /\ waited'[u] = waited[u] /\ spent'[u] = 0
      BY <1>2, <1>6, <2>2 DEF Arrive, At, Goto, wait, TypeOK
    <3>2. Before(u)' \in Nat
      BY <1>3 DEF Before
    <3>3. QED
      BY <1>2, <1>3, <3>1, <3>2 DEF Waiting
  <2>3. QED
    BY <2>1, <2>2
<1>7. ASSUME NEW t \in Threads, GoOn(t), pc[t] \notin {"away", "gone"} PROVE Fine(u)'
  <2>1. CASE t # u
    BY <1>4, <1>7, <2>1, <1>2 DEF GoOn, Goto, TypeOK
  <2>2. CASE t = u /\ HasMore(u)
    <3>1. /\ pc'[u] = "polling" /\ target'[u] = "rerank" /\ asked'[u] = Engines
          /\ waited'[u] = 0 /\ spent'[u] = spent[u]
      BY <1>2, <1>7, <2>2 DEF GoOn, Goto, TypeOK
    <3>2. Before(u) = 0 /\ Before(u)' = UnloadWait
      BY <2>2, <3>1 DEF Before, HasMore
    <3>3. spent[u] <= UnloadWait
      BY <1>2, <1>3, <3>2
    <3>4. QED
      BY <1>3, <3>1, <3>2, <3>3 DEF Waiting
  <2>3. CASE t = u /\ ~HasMore(u)
    <3>1. pc'[u] = "away" /\ waited'[u] = 0 /\ spent'[u] = 0
      BY <1>2, <1>7, <2>3 DEF GoOn, Goto, TypeOK
    <3>2. Before(u)' \in Nat
      BY <1>3 DEF Before
    <3>3. QED
      BY <1>3, <3>1, <3>2 DEF Waiting
  <2>4. QED
    BY <2>1, <2>2, <2>3
<1>8. ASSUME NEW t \in Threads, RefuseWedged(t) \/ RefuseBusy(t) \/ Leave(t) PROVE Fine(u)'
  <2>1. GoOn(t) /\ pc[t] \notin {"away", "gone"}
    BY <1>8 DEF RefuseWedged, RefuseBusy, Leave, At
  <2>2. QED
    BY <1>7, <2>1
<1>9. ASSUME NEW t \in Threads, Acquire(t) PROVE Fine(u)'
  <2>1. CASE t # u
    BY <1>4, <1>9, <2>1 DEF Acquire, Goto, call, TypeOK
  <2>2. CASE t = u
    <3>1. pc[u] = "polling" /\ pc'[u] = "draining" /\ waited'[u] = 0 /\ spent'[u] = spent[u]
      BY <1>2, <1>9, <2>2 DEF Acquire, At, Goto, TypeOK
    <3>2. Before(u)' = Before(u)
      BY <1>9 DEF Acquire, call, Before
    <3>3. spent[u] <= Before(u) + waited[u]
      BY <1>2, <3>1 DEF Waiting
    <3>4. QED
      BY <1>2, <1>3, <3>1, <3>2, <3>3 DEF Waiting
  <2>3. QED
    BY <2>1, <2>2
<1>10. ASSUME NEW t \in Threads, WouldBlock(t) PROVE Fine(u)'
  <2>1. CASE t # u
    BY <1>4, <1>10, <2>1 DEF WouldBlock, Goto, call, wait, TypeOK
  <2>2. CASE t = u
    <3>1. /\ pc[u] = "polling" /\ pc'[u] = "looking"
          /\ waited'[u] = waited[u] /\ spent'[u] = spent[u] /\ Before(u)' = Before(u)
      BY <1>2, <1>10, <2>2 DEF WouldBlock, At, Goto, call, wait, TypeOK, Before
    <3>2. QED
      BY <1>2, <1>3, <3>1 DEF Waiting
  <2>3. QED
    BY <2>1, <2>2
<1>11. ASSUME NEW t \in Threads, Sleep(t) PROVE Fine(u)'
  <2>1. CASE t # u
    BY <1>4, <1>11, <2>1 DEF Sleep, Goto, call, wait, TypeOK
  <2>2. CASE t = u
    <3>1. /\ pc[u] = "looking" /\ pc'[u] = "asleep"
          /\ waited'[u] = waited[u] /\ spent'[u] = spent[u] /\ Before(u)' = Before(u)
      BY <1>2, <1>11, <2>2 DEF Sleep, At, Goto, call, wait, TypeOK, Before
    <3>2. waited[u] < UnloadWait
      BY <1>11, <2>2 DEF Sleep, Patient
    <3>3. QED
      BY <1>2, <1>3, <3>1, <3>2 DEF Waiting
  <2>3. QED
    BY <2>1, <2>2
<1>12. ASSUME NEW t \in Threads, EnterBuilding(t) \/ EnterRunning(t) \/ DropStamp(t) PROVE Fine(u)'
  <2>1. CASE t # u
    <3>1. UNCHANGED <<asked, target, waited, spent>>
      BY <1>12 DEF EnterBuilding, EnterRunning, DropStamp, call, wait
    <3>2. \E point : Goto(t, point)
      BY <1>12 DEF EnterBuilding, EnterRunning, DropStamp
    <3>3. pc'[u] = pc[u]
      BY <1>2, <2>1, <3>2 DEF Goto, TypeOK
    <3>4. QED
      BY <1>4, <3>1, <3>3
  <2>2. CASE t = u
    <3>1. pc[u] \notin Waiting /\ pc'[u] \notin Waiting \cup {"away", "gone"}
      BY <1>2, <1>12, <2>2 DEF EnterBuilding, EnterRunning, DropStamp, At, Goto, Waiting, TypeOK
    <3>2. waited'[u] = waited[u] /\ spent'[u] = spent[u] /\ Before(u)' = Before(u)
      BY <1>12 DEF EnterBuilding, EnterRunning, DropStamp, call, wait, Before
    <3>3. QED
      BY <1>2, <3>1, <3>2 DEF Waiting
  <2>3. QED
    BY <2>1, <2>2
<1>13. ASSUME NEW e \in Engines, Exit(e) PROVE Fine(u)'
  <2>1. pc'[u] = "gone" /\ waited'[u] = 0 /\ spent'[u] = 0
    BY <1>2, <1>13 DEF Exit
  <2>2. Before(u)' \in Nat
    BY <1>3 DEF Before
  <2>3. QED
    BY <1>3, <2>1, <2>2 DEF Waiting
<1>14. CASE Restart
  <2>1. pc[u] = "gone"
    BY <1>2, <1>14 DEF Restart, At
  <2>2. pc'[u] = "away" /\ waited'[u] = waited[u] /\ spent'[u] = spent[u] /\ Before(u)' = Before(u)
    BY <1>2, <1>14 DEF Restart, call, wait, Before
  <2>3. QED
    BY <1>2, <1>3, <2>1, <2>2 DEF Waiting
<1>16. CASE Tick
  <2>1. /\ pc'[u] = IF pc[u] = "asleep" THEN "polling" ELSE pc[u]
        /\ waited'[u] = IF pc[u] = "asleep" THEN UpTo(MaxWait, waited[u]) ELSE waited[u]
        /\ spent'[u] = IF pc[u] = "asleep" THEN UpTo(MaxSpent, spent[u]) ELSE spent[u]
        /\ Before(u)' = Before(u)
    BY <1>2, <1>16 DEF Tick, At, call, Before
  <2>2. CASE pc[u] = "asleep"
    <3>1. waited[u] < UnloadWait /\ spent[u] <= Before(u) + waited[u]
      BY <1>2, <2>2 DEF Waiting
    <3>2. waited'[u] = waited[u] + 1
      <4>1. waited'[u] = UpTo(MaxWait, waited[u]) /\ waited[u] < MaxWait
        BY <1>3, <2>1, <2>2, <3>1
      <4>2. QED
        BY <4>1 DEF UpTo
    <3>3. spent'[u] <= spent[u] + 1 /\ spent'[u] \in Nat
      <4>1. spent'[u] = UpTo(MaxSpent, spent[u])
        BY <2>1, <2>2
      <4>2. QED
        BY <1>3, <4>1 DEF UpTo
    <3>4. pc'[u] = "polling"
      BY <2>1, <2>2
    <3>5. QED
      BY <1>3, <2>1, <3>1, <3>2, <3>3, <3>4 DEF Waiting
  <2>3. CASE pc[u] # "asleep"
    BY <1>2, <2>1, <2>3
  <2>4. QED
    BY <2>2, <2>3
<1>17. CASE Wake \/ \E e \in Engines : LookHealthy(e) \/ LookWedged(e)
  BY <1>5, <1>17 DEF Wake, LookHealthy, LookWedged
<1>18. CASE UNCHANGED vars
  BY <1>5, <1>18 DEF vars
<1>19. QED
  BY <1>6, <1>8, <1>9, <1>10, <1>11, <1>12, <1>13, <1>14, <1>16, <1>17, <1>18 DEF Next
-----------------------------------------------------------------------------
\* A tick never crosses a round, and every other step leaves the watchdog's
\* clock alone but Wake, which starts a round over every engine.
LEMMA WatchStep ==
    ASSUME TypeOK, OldFlagsFall, LookedAtInTime, WatchIsFine, [Next]_vars
    PROVE  OldFlagsFall' /\ LookedAtInTime'
<1> DEFINE Quiet(e) == stamp[e].age + due <= WatchEvery \/ (e \in round /\ stamp[e].age <= WatchEvery)
           Limit(e) == Ceiling(stamp[e].phase) + WatchEvery
           Soon(e)  == stamp[e].age + due < Limit(e) \/ (e \in round /\ stamp[e].age < Limit(e))
           Fine(e)  == stamp[e].phase # "none" /\ told[e] = 0
                          => (announced[e] => Quiet(e)) /\ (~lost[e] => Soon(e))
<1>1. /\ \A phase : Ceiling(phase) \in Nat /\ WatchEvery < Ceiling(phase)
      /\ WatchEvery \in Nat \ {0} /\ MaxAge \in Nat
  BY Settings
<1>2. \A e \in Engines : Fine(e)
  BY DEF OldFlagsFall, LookedAtInTime
<1>3. \A e \in Engines : /\ stamp[e].age \in 0..MaxAge /\ stamp[e].phase \in Phases
                          /\ told[e] \in 0..2 /\ announced[e] \in BOOLEAN /\ lost[e] \in BOOLEAN
  BY StampType DEF TypeOK
<1>4. due \in 0..WatchEvery /\ due \in Nat
  BY <1>1 DEF TypeOK
<1>5. SUFFICES ASSUME NEW e \in Engines PROVE Fine(e)'
  BY DEF OldFlagsFall, LookedAtInTime
<1>6. CASE UNCHANGED <<stamp, watchdog>>
  BY <1>2, <1>6 DEF watchdog
<1>7. ASSUME NEW t \in Threads, NEW phase, Enter(t, phase),
             UNCHANGED <<due, round, announced>>, target[t] \in Engines
      PROVE  Fine(e)'
  <2>1. CASE e = target[t]
    <3>1. stamp'[e].age = 0 /\ due' = due
      BY <1>7, <2>1 DEF Enter, TypeOK
    <3>2. Quiet(e)' /\ Soon(e)'
      BY <1>1, <1>4, <3>1
    <3>3. QED
      BY <3>2
  <2>2. CASE e # target[t]
    <3>1. stamp'[e] = stamp[e] /\ told'[e] = told[e] /\ lost'[e] = lost[e]
      BY <1>7, <2>2 DEF Enter, TypeOK
    <3>2. QED
      BY <1>2, <1>7, <3>1
  <2>3. QED
    BY <2>1, <2>2
<1>8. ASSUME NEW t \in Threads, EnterBuilding(t) \/ EnterRunning(t) PROVE Fine(e)'
  <2>1. target[t] \in Engines
    BY DEF TypeOK
  <2>2. QED
    BY <1>7, <1>8, <2>1 DEF EnterBuilding, EnterRunning
<1>9. ASSUME NEW t \in Threads, DropStamp(t) PROVE Fine(e)'
  <2>1. stamp'[e] = stamp[e] \/ stamp'[e].phase = "none"
    BY <1>9, FreeType DEF DropStamp, TypeOK
  <2>2. QED
    BY <1>2, <1>9, <2>1 DEF DropStamp, watchdog
<1>10. CASE Wake
  <2>1. due = 0 /\ e \in round' /\ round = {}
        /\ UNCHANGED <<stamp, announced, told, lost>>
    BY <1>10 DEF Wake
  <2>2. Quiet(e) => Quiet(e)'
    BY <1>3, <2>1
  <2>3. Soon(e) => Soon(e)'
    BY <1>1, <1>3, <2>1
  <2>4. QED
    BY <1>2, <2>1, <2>2, <2>3
<1>11. ASSUME NEW f \in Engines, LookHealthy(f) PROVE Fine(e)'
  <2>1. /\ UNCHANGED <<stamp, due, told>>
        /\ round' = round \ {f} /\ announced'[f] = FALSE
        /\ e # f => announced'[e] = announced[e] /\ lost'[e] = lost[e]
    BY <1>11 DEF LookHealthy, TypeOK
  <2>2. CASE e # f
    BY <1>2, <2>1, <2>2
  <2>3. CASE e = f
    <3>1. PICK seen \in Readings(e) :
              /\ seen.phase = "none" \/ seen.age < Ceiling(seen.phase)
              /\ lost'[e] = (lost[e] \/ seen # stamp[e])
      BY <1>11, <2>3 DEF LookHealthy, TypeOK
    <3>2. ~lost'[e] => seen = stamp[e] /\ ~lost[e]
      BY <3>1
    <3>3. ~lost'[e] /\ stamp[e].phase # "none" => stamp[e].age + due < Limit(e)
      <4>1. ~lost'[e] /\ stamp[e].phase # "none" => stamp[e].age < Ceiling(stamp[e].phase)
        BY <3>1, <3>2
      <4>2. due <= WatchEvery
        BY <1>1, <1>4
      <4>3. QED
        BY <1>1, <1>3, <1>4, <4>1, <4>2
    <3>4. QED
      BY <2>1, <2>3, <3>3
  <2>4. QED
    BY <2>2, <2>3
<1>12. ASSUME NEW f \in Engines, LookWedged(f) PROVE Fine(e)'
  <2>1. /\ UNCHANGED <<stamp, due, lost>>
        /\ round' = round \ {f}
        /\ e # f => announced'[e] = announced[e] /\ told'[e] = told[e]
    BY <1>12 DEF LookWedged, TypeOK
  <2>2. CASE e # f
    BY <1>2, <2>1, <2>2
  <2>3. CASE e = f
    <3>1. told'[e] = IF announced[e] \/ told[e] = 2 THEN told[e] ELSE told[e] + 1
      BY <1>12, <2>3 DEF LookWedged, TypeOK
    <3>2. stamp[e].phase # "none" /\ stamp[e].age >= Ceiling(stamp[e].phase)
      <4>1. PICK seen \in Readings(e) : ReportDue(seen)
        BY <1>12, <2>3 DEF LookWedged
      <4>2. seen = stamp[e]
        BY <4>1, FreeType DEF Readings, ReportDue
      <4>3. QED
        BY <4>1, <4>2 DEF ReportDue
    <3>3. ~Quiet(e)
      BY <1>1, <1>3, <1>4, <3>2
    <3>4. told'[e] # 0
      BY <1>2, <1>3, <3>1, <3>2, <3>3
    <3>5. QED
      BY <3>4
  <2>4. QED
    BY <2>2, <2>3
<1>13. ASSUME NEW f \in Engines, Exit(f) PROVE Fine(e)'
  <2>1. stamp'[e].phase = "none"
    BY <1>13, FreeType DEF Exit
  <2>2. QED
    BY <2>1
<1>14. CASE Tick
  <2>1. /\ round = {} /\ due > 0 /\ due' = due - 1
        /\ UNCHANGED <<round, announced, told, lost>>
    BY <1>14 DEF Tick
  <2>2. CASE stamp[e].phase # "none"
    <3>1. /\ stamp'[e].phase = stamp[e].phase /\ stamp'[e].age <= stamp[e].age + 1
          /\ stamp'[e].age \in 0..MaxAge
      BY <1>14, <2>2, TickType
    <3>2. Quiet(e) => Quiet(e)'
      BY <1>1, <1>3, <1>4, <2>1, <3>1
    <3>3. Soon(e) => Soon(e)'
      BY <1>1, <1>3, <1>4, <2>1, <3>1
    <3>4. QED
      BY <1>2, <2>1, <2>2, <3>1, <3>2, <3>3
  <2>3. CASE stamp[e].phase = "none"
    <3>1. stamp'[e].phase = "none"
      BY <1>14, <2>3, TickType
    <3>2. QED
      BY <3>1
  <2>4. QED
    BY <2>2, <2>3
<1>15. CASE (\E t \in Threads : (\E wanted \in SUBSET Engines : Arrive(t, wanted)) \/ Acquire(t) \/ WouldBlock(t)
              \/ RefuseWedged(t) \/ RefuseBusy(t) \/ Sleep(t) \/ Leave(t)) \/ Restart
  <2>1. UNCHANGED <<stamp, watchdog>>
    BY <1>15 DEF Arrive, Acquire, WouldBlock, RefuseWedged, RefuseBusy, Sleep, Leave, Restart
  <2>2. QED
    BY <1>6, <2>1
<1>16. CASE UNCHANGED vars
  BY <1>6, <1>16 DEF vars
<1>17. QED
  BY <1>8, <1>9, <1>10, <1>11, <1>12, <1>13, <1>14, <1>15, <1>16 DEF Next
\* spawn_wedge_watchdog: every round that could read a stamp ended the process or
\* found the phase short of its end.
LEMMA EndStep ==
    ASSUME TypeOK, EndedInTime, WedgeExit, [Next]_vars
    PROVE  EndedInTime'
<1> DEFINE Last(e) == Ceiling(stamp[e].phase) + ExitAfter + WatchEvery
           Fine(e) == stamp[e].phase # "none" /\ ~lost[e]
                        => \/ stamp[e].age + due <= Last(e)
                           \/ e \in round /\ stamp[e].age <= Last(e)
<1>1. /\ \A phase : Ceiling(phase) \in Nat
      /\ WatchEvery \in Nat /\ ExitAfter \in Nat /\ MaxAge \in Nat
  BY Settings
<1>2. \A e \in Engines : Fine(e)
  BY DEF EndedInTime
<1>3. SUFFICES ASSUME NEW e \in Engines PROVE Fine(e)'
  BY DEF EndedInTime
<1>4. /\ stamp[e].age \in 0..MaxAge /\ stamp[e].phase \in Phases /\ lost[e] \in BOOLEAN
      /\ due \in 0..WatchEvery /\ due \in Nat /\ due <= WatchEvery
  BY <1>1, StampType DEF TypeOK
<1>5. CASE UNCHANGED <<stamp, watchdog>>
  BY <1>2, <1>5 DEF watchdog
<1>6. ASSUME NEW t \in Threads, EnterBuilding(t) \/ EnterRunning(t) PROVE Fine(e)'
  <2>1. PICK phase \in {"Building", "Running"} : Enter(t, phase)
    BY <1>6 DEF EnterBuilding, EnterRunning
  <2>2. target[t] \in Engines /\ UNCHANGED <<due, round>>
    BY <1>6 DEF EnterBuilding, EnterRunning, TypeOK
  <2>3. CASE e = target[t]
    <3>1. stamp'[e].age = 0
      BY <2>1, <2>3 DEF Enter, TypeOK
    <3>2. QED
      BY <1>1, <1>4, <2>2, <3>1
  <2>4. CASE e # target[t]
    <3>1. stamp'[e] = stamp[e] /\ lost'[e] = lost[e]
      BY <2>1, <2>4 DEF Enter, TypeOK
    <3>2. QED
      BY <1>2, <2>2, <3>1
  <2>5. QED
    BY <2>3, <2>4
<1>7. ASSUME NEW t \in Threads, DropStamp(t) PROVE Fine(e)'
  <2>1. stamp'[e] = stamp[e] \/ stamp'[e].phase = "none"
    BY <1>7, FreeType DEF DropStamp, TypeOK
  <2>2. QED
    BY <1>2, <1>7, <2>1 DEF DropStamp, watchdog
<1>8. CASE Wake
  <2>1. due = 0 /\ e \in round' /\ round = {} /\ UNCHANGED <<stamp, lost>>
    BY <1>8 DEF Wake
  <2>2. QED
    BY <1>1, <1>2, <1>4, <2>1
<1>9. ASSUME NEW f \in Engines, LookHealthy(f) PROVE Fine(e)'
  <2>1. /\ UNCHANGED <<stamp, due>> /\ round' = round \ {f}
        /\ e # f => lost'[e] = lost[e]
    BY <1>9 DEF LookHealthy, TypeOK
  <2>2. CASE e # f
    BY <1>2, <2>1, <2>2
  <2>3. CASE e = f
    <3>1. PICK seen \in Readings(e) :
              /\ seen.phase = "none" \/ seen.age < Ceiling(seen.phase)
              /\ lost'[e] = (lost[e] \/ seen # stamp[e])
      BY <1>9, <2>3 DEF LookHealthy, TypeOK
    <3>2. ~lost'[e] /\ stamp[e].phase # "none" => stamp[e].age < Ceiling(stamp[e].phase)
      BY <3>1
    <3>3. ~lost'[e] /\ stamp[e].phase # "none" => stamp[e].age + due <= Last(e)
      BY <1>1, <1>4, <3>2
    <3>4. QED
      BY <2>1, <3>3
  <2>4. QED
    BY <2>2, <2>3
<1>10. ASSUME NEW f \in Engines, LookWedged(f) PROVE Fine(e)'
  <2>1. UNCHANGED <<stamp, due, lost>> /\ round' = round \ {f}
    BY <1>10 DEF LookWedged
  <2>2. CASE e # f
    BY <1>2, <2>1, <2>2
  <2>3. CASE e = f
    <3>1. PICK seen \in Readings(e) : ReportDue(seen)
      BY <1>10, <2>3 DEF LookWedged
    <3>2. seen = stamp[e]
      BY <3>1, FreeType DEF Readings, ReportDue
    <3>3. ~(stamp[e].age >= Ceiling(stamp[e].phase) + ExitAfter)
      BY <3>1, <3>2 DEF ReportDue, ExitDue
    <3>4. stamp[e].age + due <= Last(e)
      BY <1>1, <1>4, <3>3
    <3>5. QED
      BY <2>1, <3>4
  <2>4. QED
    BY <2>2, <2>3
<1>11. ASSUME NEW f \in Engines, Exit(f) PROVE Fine(e)'
  <2>1. stamp'[e].phase = "none"
    BY <1>11, FreeType DEF Exit
  <2>2. QED
    BY <2>1
<1>12. CASE Tick
  <2>1. round = {} /\ due > 0 /\ due' = due - 1 /\ lost' = lost
    BY <1>12 DEF Tick
  <2>2. CASE stamp[e].phase # "none"
    <3>1. /\ stamp'[e].phase = stamp[e].phase /\ stamp'[e].age <= stamp[e].age + 1
          /\ stamp'[e].age \in 0..MaxAge
      BY <1>12, <2>2, TickType
    <3>2. ~lost[e] => stamp[e].age + due <= Last(e)
      BY <1>2, <2>1, <2>2
    <3>3. ~lost[e] => stamp'[e].age + due' <= Last(e)
      BY <1>1, <1>4, <2>1, <3>1, <3>2
    <3>4. Last(e)' = Last(e)
      BY <3>1
    <3>5. QED
      BY <2>1, <3>3, <3>4
  <2>3. CASE stamp[e].phase = "none"
    <3>1. stamp'[e].phase = "none"
      BY <1>12, <2>3, TickType
    <3>2. QED
      BY <3>1
  <2>4. QED
    BY <2>2, <2>3
<1>13. CASE (\E t \in Threads : (\E wanted \in SUBSET Engines : Arrive(t, wanted)) \/ Acquire(t)
              \/ WouldBlock(t) \/ RefuseWedged(t) \/ RefuseBusy(t) \/ Sleep(t) \/ Leave(t)) \/ Restart
  <2>1. UNCHANGED <<stamp, watchdog>>
    BY <1>13 DEF Arrive, Acquire, WouldBlock, RefuseWedged, RefuseBusy, Sleep, Leave, Restart
  <2>2. QED
    BY <1>5, <2>1
<1>14. CASE UNCHANGED vars
  BY <1>5, <1>14 DEF vars
<1>15. QED
  BY <1>6, <1>7, <1>8, <1>9, <1>10, <1>11, <1>12, <1>13, <1>14 DEF Next
-----------------------------------------------------------------------------
LEMMA InitEstablishes == Init => IInv
<1> SUFFICES ASSUME Init PROVE IInv
  OBVIOUS
<1>1. TypeOK
  BY Settings, FreeType DEF Init, TypeOK, Points, Engines
<1>2. \A t \in Threads : pc[t] = "away" /\ waited[t] = 0
  BY DEF Init
<1>3. \A e \in Engines : stamp[e].phase = "none"
  BY FreeType DEF Init
<1>4. NoSleepBehindAWedge
  BY <1>2 DEF NoSleepBehindAWedge, At
<1>5. WaitsAreAccounted
  <2>1. \A u \in Unloads : spent[u] = 0 /\ u \in Threads
    BY DEF Init, Threads
  <2>2. \A u \in Unloads : Before(u) \in Nat
    BY Settings DEF Before
  <2>3. QED
    BY <1>2, <2>1, <2>2, Settings DEF WaitsAreAccounted, At, Waiting
<1>6. OldFlagsFall /\ LookedAtInTime /\ EndedInTime
  BY <1>3 DEF OldFlagsFall, LookedAtInTime, EndedInTime
<1>7. QED
  BY <1>1, <1>4, <1>5, <1>6 DEF IInv

LEMMA NextPreserves == IInv /\ [Next]_vars => IInv'
<1> SUFFICES ASSUME IInv, [Next]_vars PROVE IInv'
  OBVIOUS
<1>1. TypeOK'
  BY TypeStep DEF IInv
<1>2. NoSleepBehindAWedge'
  BY SleepStep DEF IInv
<1>3. WaitsAreAccounted'
  BY WaitsStep DEF IInv
<1>4. WatchIsFine => OldFlagsFall' /\ LookedAtInTime'
  BY WatchStep DEF IInv
<1>5. WedgeExit => EndedInTime'
  BY EndStep DEF IInv
<1>6. QED
  BY <1>1, <1>2, <1>3, <1>4, <1>5 DEF IInv, WatchIsFine

\* Every reachable state is well typed, no sleeper is behind a wedge past its
\* patience, every tick a drain waited is accounted for, and the watchdog's clock
\* is ahead of every phase it has not told or ended.
THEOREM Inductive == Spec => []IInv
<1>1. Init => IInv
  BY InitEstablishes
<1>2. IInv /\ [Next]_vars => IInv'
  BY NextPreserves
<1>3. QED
  BY <1>1, <1>2, PTL DEF Spec

\* Stamps, waits, owners and the watchdog's flags keep their types.
THEOREM TypeCorrect == Spec => []TypeOK
<1>1. IInv => TypeOK
  BY DEF IInv
<1>2. QED
  BY <1>1, Inductive, PTL

\* lock_or_refuse: nobody who has waited running_after sleeps on behind a holder
\* past its ceiling, whatever the stamp's readers saw.
THEOREM NobodySleepsBehindAWedge == Spec => []NoSleepBehindAWedge
<1>1. IInv => NoSleepBehindAWedge
  BY DEF IInv
<1>2. QED
  BY <1>1, Inductive, PTL

\* drain_engines: /unload waits unload_wait at most for each engine it was asked
\* for, over both of them in turn, whatever their holders do.
THEOREM UnloadsAnswerInTime == Spec => []UnloadAnswersInTime
<1>1. IInv => UnloadAnswersInTime
  <2> SUFFICES ASSUME IInv, NEW u \in Unloads
               PROVE  spent[u] <= (IF asked[u] = Engines THEN 2 ELSE 1) * UnloadWait
    BY DEF UnloadAnswersInTime
  <2>1. u \in Threads
    BY DEF Threads
  <2>2. UnloadWait \in Nat /\ waited[u] \in Nat /\ spent[u] \in Nat
    BY <2>1, Settings DEF IInv, TypeOK
  <2>3. spent[u] <= Before(u) + UnloadWait
    BY <2>2 DEF IInv, WaitsAreAccounted, Before
  <2>4. asked[u] # Engines => spent[u] <= UnloadWait
    BY <2>2, <2>3 DEF Before
  <2>5. spent[u] <= 2 * UnloadWait
    BY <2>2, <2>3 DEF Before
  <2>6. QED
    BY <2>2, <2>4, <2>5
<1>2. QED
  BY <1>1, Inductive, PTL

\* spawn_wedge_watchdog: a flag that silences a wedge was raised for that wedge.
THEOREM SilenceIsAfterTelling == Spec => []SilenceMeansTold
<1>1. IInv => SilenceMeansTold
  <2> SUFFICES ASSUME IInv, WatchIsFine, NEW e \in Engines, announced[e], Wedged(e), told[e] = 0
               PROVE  FALSE
    BY StampType DEF SilenceMeansTold, IInv, TypeOK
  <2>1. stamp[e].age \in Nat /\ due \in Nat /\ WatchEvery \in Nat
    BY Settings, StampType DEF IInv, TypeOK
  <2>2. stamp[e].age <= WatchEvery
    BY <2>1 DEF IInv, OldFlagsFall, Wedged
  <2>3. stamp[e].age >= Ceiling(stamp[e].phase) /\ Ceiling(stamp[e].phase) \in Nat
        /\ WatchEvery < Ceiling(stamp[e].phase)
    BY Settings DEF Wedged
  <2>4. QED
    BY <2>1, <2>2, <2>3
<1>2. QED
  BY <1>1, Inductive, PTL

\* spawn_wedge_watchdog: a wedge whose stamp could be read is on the log within
\* one WEDGE_WATCHDOG_TICK of its ceiling.
THEOREM WedgesReachTheLog == Spec => []WedgeReachesTheLog
<1>1. IInv => WedgeReachesTheLog
  <2> SUFFICES ASSUME IInv, WatchIsFine, NEW e \in Engines, Wedged(e), ~lost[e], told[e] = 0,
                      stamp[e].age > Ceiling(stamp[e].phase) + WatchEvery
               PROVE  FALSE
    BY StampType DEF WedgeReachesTheLog, IInv, TypeOK
  <2>1. stamp[e].age \in Nat /\ due \in Nat /\ WatchEvery \in Nat
        /\ Ceiling(stamp[e].phase) \in Nat
    BY Settings, StampType DEF IInv, TypeOK
  <2>2. stamp[e].age < Ceiling(stamp[e].phase) + WatchEvery
    BY <2>1 DEF IInv, LookedAtInTime, Wedged
  <2>3. QED
    BY <2>1, <2>2
<1>2. QED
  BY <1>1, Inductive, PTL

\* wedge_action and spawn_wedge_watchdog: with WEDGE_EXIT a wedge whose stamp could
\* be read ends the process within one WEDGE_WATCHDOG_TICK of exit_after_wedged.
THEOREM WedgesEndTheProcess == Spec => []WedgeEndsTheProcess
<1>1. IInv => WedgeEndsTheProcess
  <2> SUFFICES ASSUME IInv, WedgeExit, NEW e \in Engines, stamp[e].phase # "none", ~lost[e]
               PROVE  stamp[e].age <= Ceiling(stamp[e].phase) + ExitAfter + WatchEvery
    BY DEF WedgeEndsTheProcess
  <2>1. /\ stamp[e].age \in Nat /\ due \in Nat
        /\ Ceiling(stamp[e].phase) \in Nat /\ ExitAfter \in Nat /\ WatchEvery \in Nat
    BY Settings, StampType DEF IInv, TypeOK
  <2>2. \/ stamp[e].age + due <= Ceiling(stamp[e].phase) + ExitAfter + WatchEvery
        \/ stamp[e].age <= Ceiling(stamp[e].phase) + ExitAfter + WatchEvery
    BY DEF IInv, EndedInTime
  <2>3. QED
    BY <2>1, <2>2
<1>2. QED
  BY <1>1, Inductive, PTL
=============================================================================
