------------------------ MODULE SidecarServiceProofs ------------------------
(***************************************************************************)
(* The handlers, the drains and the idle unloader for any number of calls. *)
(***************************************************************************)
EXTENDS SidecarService, TLAPS

LEMMA Constants ==
    /\ Idler \notin Passes /\ Idler \notin Unloads /\ NoOne \notin Passes /\ Idler # NoOne
    /\ \A u \in Unloads : u \notin Passes
    /\ IdleAfter \in Nat \ {0}
    /\ Idler \in Drainers /\ Idler \in Callers /\ Unloads \subseteq Drainers
    /\ Unloads \subseteq Callers /\ Passes \subseteq Callers
    /\ \A d \in Drainers : d \in Callers /\ d \notin Passes
    /\ \A d \in Drainers : d \in Unloads \/ d = Idler
BY ServiceAssumption DEF Drainers, Callers

LEMMA Points ==
    /\ Holding \subseteq PassPoints
    /\ \A e \in Engines : e = "embed" \/ e = "rerank"
    /\ "embed" \in Engines /\ "rerank" \in Engines
    /\ Default \in Bodies /\ \A b \in Bodies : Named(b) \subseteq Engines
    /\ Named(Default) = Engines
BY DEF Holding, PassPoints, Engines, Default, Bodies, Named

LEMMA InitEstablishes == Init => IInv
<1> SUFFICES ASSUME Init PROVE IInv
  OBVIOUS
<1> USE Constants, Points
<1>1. TypeOK
  BY DEF Init, TypeOK, PassPoints, IdlerPoints
<1>2. HoldersHold
  BY DEF Init, HoldersHold, Holding
<1>3. StampsAreTheHolders /\ DrainsAreNamed /\ IdleOnceAnswered
  BY DEF Init, StampsAreTheHolders, DrainsAreNamed, IdleOnceAnswered
<1> QED BY <1>1, <1>2, <1>3 DEF IInv

\* A step of a pass leaves every drain alone.
LEMMA PassesLeaveDrains ==
    ASSUME IInv, NEW p \in Passes, NEW x, Goto(p, x), UNCHANGED <<body, left>>
    PROVE  DrainsAreNamed'
<1> SUFFICES ASSUME NEW d \in Drainers, left'[d] # {}
             PROVE  pc'[d] = "draining" /\ (d = Idler \/ left'[d] \subseteq Named(body'[d]))
  BY DEF DrainsAreNamed, At
<1>1. pc'[d] = pc[d]
  BY Constants DEF IInv, TypeOK, Goto
<1> QED BY <1>1 DEF IInv, DrainsAreNamed, At

\* A step of a pass that keeps its lock, or goes without it as before.
LEMMA PassesKeepLocks ==
    ASSUME IInv, NEW p \in Passes, NEW x, Goto(p, x), UNCHANGED <<engine, owner>>,
           pc[p] \in Holding <=> x \in Holding
    PROVE  HoldersHold'
<1>1. pc'[p] = x /\ \A q \in Passes \ {p} : pc'[q] = pc[q]
  BY Constants DEF IInv, TypeOK, Goto
<1>2. ASSUME NEW q \in Passes, pc'[q] \in Holding PROVE owner'[engine'[q]] = q
  BY <1>1, <1>2 DEF IInv, HoldersHold
<1>3. ASSUME NEW e \in Engines, owner'[e] # NoOne
      PROVE  engine'[owner'[e]] = e /\ pc'[owner'[e]] \in Holding
  <2>1. owner[e] \in Passes /\ engine[owner[e]] = e /\ pc[owner[e]] \in Holding
    BY <1>3 DEF IInv, TypeOK, HoldersHold
  <2> QED BY <1>1, <2>1
<1> QED BY <1>2, <1>3 DEF HoldersHold

LEMMA PassesMove ==
    ASSUME IInv, NEW p \in Passes, NEW x \in PassPoints, Goto(p, x)
    PROVE  /\ pc'[p] = x /\ \A c \in Callers \ {p} : pc'[c] = pc[c]
           /\ DOMAIN pc' = Callers /\ \A q \in Passes : pc'[q] \in PassPoints
           /\ \A u \in Unloads : pc'[u] \in {"idle", "draining", "done"}
           /\ pc'[Idler] \in IdlerPoints
BY Constants DEF IInv, TypeOK, Goto

\* A record that is written is of a pass that holds the lock, and at work.
LEMMA StampsOfPasses ==
    ASSUME IInv, NEW p \in Passes, NEW x \in PassPoints, Goto(p, x), UNCHANGED <<engine, owner>>,
           \A e \in Engines : inflight'[e] =>
              \/ inflight[e] /\ e # engine[p]
              \/ inflight[e] /\ pc[p] \notin Holding
              \/ e = engine[p] /\ pc[p] \in Holding /\ x \in {"building", "running", "stuck"}
    PROVE  StampsAreTheHolders'
<1> SUFFICES ASSUME NEW e \in Engines, inflight'[e]
             PROVE  owner'[e] # NoOne /\ pc'[owner'[e]] \in {"building", "running", "stuck"}
  BY DEF StampsAreTheHolders
<1>1. pc'[p] = x /\ \A c \in Callers \ {p} : pc'[c] = pc[c]
  BY PassesMove
<1>2. CASE inflight[e] /\ (e # engine[p] \/ pc[p] \notin Holding)
  <2>1. /\ owner[e] # NoOne /\ pc[owner[e]] \in {"building", "running", "stuck"}
        /\ owner[e] \in Passes
    BY <1>2 DEF IInv, TypeOK, StampsAreTheHolders
  <2>2. owner[e] # p
    BY <1>2, <2>1 DEF IInv, HoldersHold, Holding
  <2> QED BY <1>1, <2>1, <2>2, Constants
<1>3. CASE e = engine[p] /\ pc[p] \in Holding /\ x \in {"building", "running", "stuck"}
  <2>1. owner[e] = p
    BY <1>3 DEF IInv, HoldersHold
  <2> QED BY <1>1, <1>3, <2>1, Constants
<1> QED BY <1>2, <1>3

\* A pass at work excuses a busy report.
LEMMA AtWorkIsBusy ==
    ASSUME IInv, NEW p \in Passes, NEW x \in PassPoints \ {"idle", "done"}, Goto(p, x)
    PROVE  IdleOnceAnswered'
BY PassesMove DEF IdleOnceAnswered

LEMMA ArriveKeeps == ASSUME IInv, NEW p \in Passes, Arrive(p) PROVE IInv'
<1> USE Constants DEF Arrive, At, locks, drain
<1>1. /\ "waiting" \in PassPoints \ {"idle", "done"}
      /\ "waiting" \notin Holding /\ pc[p] \notin Holding
  BY DEF PassPoints, Holding
<1>2. TypeOK'
  BY <1>1, PassesMove DEF IInv, TypeOK
<1>3. HoldersHold' /\ DrainsAreNamed' /\ IdleOnceAnswered'
  BY <1>1, PassesKeepLocks, PassesLeaveDrains, AtWorkIsBusy
<1>4. StampsAreTheHolders'
  BY <1>1, StampsOfPasses
<1> QED BY <1>2, <1>3, <1>4 DEF IInv

LEMMA AcquireKeeps == ASSUME IInv, NEW p \in Passes, Acquire(p) PROVE IInv'
<1> USE Constants DEF Acquire, At, drain
<1>1. "held" \in PassPoints \ {"idle", "done"} /\ "held" \in Holding /\ pc[p] \notin Holding
  BY DEF PassPoints, Holding
<1>2. pc'[p] = "held" /\ \A c \in Callers \ {p} : pc'[c] = pc[c]
  BY <1>1, PassesMove
<1>3. /\ engine[p] \in Engines /\ owner'[engine[p]] = p
      /\ \A e \in Engines \ {engine[p]} : owner'[e] = owner[e]
  BY DEF IInv, TypeOK
<1>4. TypeOK'
  BY <1>1, PassesMove DEF IInv, TypeOK
<1>5. HoldersHold'
  <2>1. ASSUME NEW q \in Passes, pc'[q] \in Holding PROVE owner'[engine'[q]] = q
    <3>1. CASE q = p
      BY <3>1, <1>3
    <3>2. CASE q # p
      <4>1. owner[engine[q]] = q /\ engine[q] \in Engines
        BY <3>2, <2>1, <1>2 DEF IInv, TypeOK, HoldersHold
      <4> QED BY <4>1, <1>3
    <3> QED BY <3>1, <3>2
  <2>2. ASSUME NEW e \in Engines, owner'[e] # NoOne
        PROVE  engine'[owner'[e]] = e /\ pc'[owner'[e]] \in Holding
    <3>1. CASE e = engine[p]
      BY <3>1, <1>1, <1>2, <1>3
    <3>2. CASE e # engine[p]
      <4>1. owner[e] \in Passes /\ engine[owner[e]] = e /\ pc[owner[e]] \in Holding
        BY <3>2, <2>2, <1>3 DEF IInv, TypeOK, HoldersHold
      <4> QED BY <4>1, <3>2, <1>1, <1>2, <1>3
    <3> QED BY <3>1, <3>2
  <2> QED BY <2>1, <2>2 DEF HoldersHold
<1>6. StampsAreTheHolders'
  <2> SUFFICES ASSUME NEW e \in Engines, inflight'[e]
               PROVE  owner'[e] # NoOne /\ pc'[owner'[e]] \in {"building", "running", "stuck"}
    BY DEF StampsAreTheHolders
  <2>1. /\ owner[e] # NoOne /\ pc[owner[e]] \in {"building", "running", "stuck"}
        /\ owner[e] \in Passes
    BY DEF IInv, TypeOK, StampsAreTheHolders
  <2> QED BY <1>1, <1>2, <1>3, <2>1 DEF Holding
<1>7. DrainsAreNamed' /\ IdleOnceAnswered'
  BY <1>1, PassesLeaveDrains, AtWorkIsBusy
<1> QED BY <1>4, <1>5, <1>6, <1>7 DEF IInv

LEMMA ReleaseKeeps == ASSUME IInv, NEW p \in Passes, Release(p) PROVE IInv'
<1> USE Constants DEF Release, At, drain
<1>1. "returned" \in PassPoints \ {"idle", "done"} /\ "returned" \notin Holding /\ pc[p] \in Holding
  BY DEF PassPoints, Holding
<1>2. pc'[p] = "returned" /\ \A c \in Callers \ {p} : pc'[c] = pc[c]
  BY <1>1, PassesMove
<1>3. /\ engine[p] \in Engines /\ owner[engine[p]] = p /\ owner'[engine[p]] = NoOne
      /\ \A e \in Engines \ {engine[p]} : owner'[e] = owner[e]
  BY <1>1 DEF IInv, TypeOK, HoldersHold
<1>4. TypeOK'
  BY <1>1, PassesMove DEF IInv, TypeOK
<1>5. HoldersHold'
  <2>1. ASSUME NEW q \in Passes, pc'[q] \in Holding PROVE owner'[engine'[q]] = q
    <3>1. q # p /\ owner[engine[q]] = q /\ engine[q] \in Engines
      BY <2>1, <1>1, <1>2 DEF IInv, TypeOK, HoldersHold
    <3> QED BY <3>1, <1>3
  <2>2. ASSUME NEW e \in Engines, owner'[e] # NoOne
        PROVE  engine'[owner'[e]] = e /\ pc'[owner'[e]] \in Holding
    <3>1. /\ e # engine[p] /\ owner[e] \in Passes /\ engine[owner[e]] = e
          /\ pc[owner[e]] \in Holding
      BY <2>2, <1>3 DEF IInv, TypeOK, HoldersHold
    <3> QED BY <3>1, <1>2, <1>3
  <2> QED BY <2>1, <2>2 DEF HoldersHold
<1>6. StampsAreTheHolders'
  <2> SUFFICES ASSUME NEW e \in Engines, inflight'[e]
               PROVE  owner'[e] # NoOne /\ pc'[owner'[e]] \in {"building", "running", "stuck"}
    BY DEF StampsAreTheHolders
  <2>1. /\ owner[e] # NoOne /\ pc[owner[e]] \in {"building", "running", "stuck"}
        /\ owner[e] \in Passes
    BY DEF IInv, TypeOK, StampsAreTheHolders
  <2>2. e # engine[p]
    BY <1>3, <2>1
  <2> QED BY <1>2, <1>3, <2>1, <2>2
<1>7. DrainsAreNamed' /\ IdleOnceAnswered'
  BY <1>1, PassesLeaveDrains, AtWorkIsBusy
<1> QED BY <1>4, <1>5, <1>6, <1>7 DEF IInv

LEMMA RefuseKeeps == ASSUME IInv, NEW p \in Passes, Refuse(p) PROVE IInv'
<1> USE Constants DEF Refuse, At, locks, drain
<1>1. /\ "returned" \in PassPoints \ {"idle", "done"}
      /\ "returned" \notin Holding /\ pc[p] \notin Holding
  BY DEF PassPoints, Holding
<1>2. TypeOK'
  BY <1>1, PassesMove DEF IInv, TypeOK
<1>3. HoldersHold' /\ DrainsAreNamed' /\ IdleOnceAnswered'
  BY <1>1, PassesKeepLocks, PassesLeaveDrains, AtWorkIsBusy
<1>4. StampsAreTheHolders'
  BY <1>1, StampsOfPasses
<1> QED BY <1>2, <1>3, <1>4 DEF IInv

\* The steps under the lock.
LEMMA EnterKeeps == ASSUME IInv, NEW p \in Passes, Enter(p) PROVE IInv'
<1> USE Constants DEF Enter, At, locks, drain
<1>1. PICK x : x = (IF resident[engine[p]] THEN "running" ELSE "building")
  OBVIOUS
<1>2. /\ x \in PassPoints \ {"idle", "done"} /\ x \in {"building", "running"} /\ Goto(p, x)
      /\ x \in Holding /\ pc[p] \in Holding
  BY <1>1 DEF PassPoints, Holding
<1>3. /\ \A e \in Engines \ {engine[p]} : inflight'[e] = inflight[e]
      /\ engine[p] \in Engines /\ inflight'[engine[p]] = TRUE
  BY DEF IInv, TypeOK
<1>4. TypeOK'
  BY <1>2, PassesMove DEF IInv, TypeOK
<1>5. HoldersHold' /\ DrainsAreNamed' /\ IdleOnceAnswered'
  BY <1>2, PassesKeepLocks, PassesLeaveDrains, AtWorkIsBusy
<1>6. StampsAreTheHolders'
  BY <1>2, <1>3, StampsOfPasses
<1> QED BY <1>4, <1>5, <1>6 DEF IInv

LEMMA BuildOkKeeps == ASSUME IInv, NEW p \in Passes, BuildOk(p) PROVE IInv'
<1> USE Constants DEF BuildOk, At, locks, drain
<1>1. /\ "running" \in PassPoints \ {"idle", "done"}
      /\ "running" \in Holding /\ pc[p] \in Holding
  BY DEF PassPoints, Holding
<1>2. TypeOK'
  BY <1>1, PassesMove DEF IInv, TypeOK
<1>3. HoldersHold' /\ DrainsAreNamed' /\ IdleOnceAnswered'
  BY <1>1, PassesKeepLocks, PassesLeaveDrains, AtWorkIsBusy
<1>4. StampsAreTheHolders'
  BY <1>1, StampsOfPasses
<1> QED BY <1>2, <1>3, <1>4 DEF IInv

LEMMA EndsKeeps == ASSUME IInv, NEW p \in Passes, Ends(p) \/ Panic(p) PROVE IInv'
<1> USE Constants DEF Ends, Panic, At, locks, drain
<1>1. PICK x \in {"releasing", "poisoning"} : Goto(p, x)
  OBVIOUS
<1>2. /\ x \in PassPoints \ {"idle", "done"} /\ x \in Holding /\ pc[p] \in Holding
  BY <1>1 DEF PassPoints, Holding
<1>3. \A e \in Engines : inflight'[e] => inflight[e] /\ e # engine[p]
  BY DEF IInv, TypeOK
<1>4. TypeOK'
  BY <1>1, <1>2, PassesMove DEF IInv, TypeOK
<1>5. HoldersHold' /\ DrainsAreNamed' /\ IdleOnceAnswered'
  BY <1>1, <1>2, PassesKeepLocks, PassesLeaveDrains, AtWorkIsBusy
<1>6. StampsAreTheHolders'
  BY <1>1, <1>2, <1>3, StampsOfPasses
<1> QED BY <1>4, <1>5, <1>6 DEF IInv

LEMMA HangKeeps == ASSUME IInv, NEW p \in Passes, Hang(p) PROVE IInv'
<1> USE Constants DEF Hang, At, locks, drain
<1>1. /\ "stuck" \in PassPoints \ {"idle", "done"}
      /\ "stuck" \in Holding /\ pc[p] \in Holding
  BY DEF PassPoints, Holding
<1>2. TypeOK'
  BY <1>1, PassesMove DEF IInv, TypeOK
<1>3. HoldersHold' /\ DrainsAreNamed' /\ IdleOnceAnswered'
  BY <1>1, PassesKeepLocks, PassesLeaveDrains, AtWorkIsBusy
<1>4. StampsAreTheHolders'
  BY <1>1, StampsOfPasses
<1> QED BY <1>2, <1>3, <1>4 DEF IInv

\* The pass is over: idle is reported, or the report is nobody's.
LEMMA AnswerKeeps == ASSUME IInv, NEW p \in Passes, Answer(p) \/ AnswerNobody(p) PROVE IInv'
<1> USE Constants DEF Answer, AnswerNobody, At, locks, drain
<1>1. /\ "done" \in PassPoints /\ "done" \notin Holding /\ pc[p] \notin Holding
  BY DEF PassPoints, Holding
<1>2. TypeOK'
  BY <1>1, PassesMove DEF IInv, TypeOK
<1>3. HoldersHold' /\ DrainsAreNamed'
  BY <1>1, PassesKeepLocks, PassesLeaveDrains
<1>4. IdleOnceAnswered'
  BY DEF IdleOnceAnswered
<1>5. StampsAreTheHolders'
  BY <1>1, StampsOfPasses
<1> QED BY <1>2, <1>3, <1>4, <1>5 DEF IInv

-----------------------------------------------------------------------------
(* The drains. *)

LEMMA DrainsLeaveLocks ==
    ASSUME IInv, \A p \in Passes : pc'[p] = pc[p],
           UNCHANGED <<engine, owner, inflight, activity, hungUp>>
    PROVE  HoldersHold' /\ StampsAreTheHolders' /\ IdleOnceAnswered'
<1>1. HoldersHold' /\ StampsAreTheHolders'
  BY DEF IInv, TypeOK, HoldersHold, StampsAreTheHolders
<1>2. IdleOnceAnswered'
  BY DEF IInv, IdleOnceAnswered
<1> QED BY <1>1, <1>2

LEMMA DrainersMove ==
    ASSUME IInv, NEW d \in Drainers, NEW x, Goto(d, x),
           IF d = Idler THEN x \in IdlerPoints ELSE x \in {"idle", "draining", "done"}
    PROVE  /\ pc'[d] = x /\ \A c \in Callers \ {d} : pc'[c] = pc[c]
           /\ \A p \in Passes : pc'[p] = pc[p]
           /\ DOMAIN pc' = Callers /\ \A q \in Passes : pc'[q] \in PassPoints
           /\ \A u \in Unloads : pc'[u] \in {"idle", "draining", "done"}
           /\ pc'[Idler] \in IdlerPoints
BY Constants DEF IInv, TypeOK, Goto

LEMMA AskKeeps == ASSUME IInv, NEW u \in Unloads, AskToUnload(u) PROVE IInv'
<1> USE Constants, Points DEF AskToUnload, At, locks
<1>1. PICK b \in Bodies : /\ body' = [body EXCEPT ![u] = b]
                          /\ left' = [left EXCEPT ![u] = Named(b)]
  OBVIOUS
<1>2. /\ body'[u] = b /\ left'[u] = Named(b)
      /\ \A v \in Unloads \ {u} : body'[v] = body[v]
      /\ \A d \in Drainers \ {u} : left'[d] = left[d]
  BY <1>1 DEF IInv, TypeOK
<1>3. /\ pc'[u] = "draining" /\ \A c \in Callers \ {u} : pc'[c] = pc[c]
      /\ \A p \in Passes : pc'[p] = pc[p]
  BY DrainersMove
<1>4. TypeOK'
  BY <1>1, DrainersMove DEF IInv, TypeOK
<1>5. DrainsAreNamed'
  BY <1>2, <1>3 DEF IInv, DrainsAreNamed
<1>6. HoldersHold' /\ StampsAreTheHolders' /\ IdleOnceAnswered'
  BY <1>3, DrainsLeaveLocks
<1> QED BY <1>4, <1>5, <1>6 DEF IInv

LEMMA TakeKeeps == ASSUME IInv, NEW d \in Drainers, TakeEngine(d) \/ RefuseDrain(d) PROVE IInv'
<1> USE Constants, Points DEF TakeEngine, RefuseDrain, At, locks
<1>1. /\ pc[d] = "draining" /\ UNCHANGED <<pc, engine, owner, inflight, activity, quiet, hungUp,
                                           body, loaded, seen>>
      /\ left' = [left EXCEPT ![d] = @ \ {NextOf(d)}]
  OBVIOUS
<1>2. /\ left'[d] \subseteq left[d] /\ \A c \in Drainers \ {d} : left'[c] = left[c]
  BY <1>1 DEF IInv, TypeOK
<1>3. poisoned' \in [Engines -> BOOLEAN] /\ resident' \in [Engines -> BOOLEAN]
  <2>1. poisoned \in [Engines -> BOOLEAN] /\ resident \in [Engines -> BOOLEAN]
    BY DEF IInv, TypeOK
  <2>2. CASE RefuseDrain(d)
    BY <2>1, <2>2
  <2>3. CASE TakeEngine(d)
    <3>1. PICK stays \in BOOLEAN : resident' = [resident EXCEPT ![NextOf(d)] = stays]
      BY <2>3
    <3>2. poisoned' = [poisoned EXCEPT ![NextOf(d)] = FALSE]
      BY <2>3
    <3> QED BY ONLY <2>1, <3>1, <3>2, stays \in BOOLEAN
  <2> QED BY <2>2, <2>3
<1>4. TypeOK'
  BY <1>1, <1>3 DEF IInv, TypeOK
<1>5. DrainsAreNamed'
  BY <1>1, <1>2 DEF IInv, DrainsAreNamed
<1>6. HoldersHold' /\ StampsAreTheHolders' /\ IdleOnceAnswered'
  BY <1>1, DrainsLeaveLocks
<1> QED BY <1>4, <1>5, <1>6 DEF IInv

LEMMA ReportKeeps == ASSUME IInv, NEW u \in Unloads, Report(u) PROVE IInv'
<1> USE Constants, Points DEF Report, At, locks
<1>1. /\ pc'[u] = "done" /\ \A c \in Callers \ {u} : pc'[c] = pc[c]
      /\ \A p \in Passes : pc'[p] = pc[p]
  BY DrainersMove
<1>2. TypeOK'
  BY DrainersMove DEF IInv, TypeOK
<1>3. \A v \in Unloads \ {u} : body'[v] = body[v]
  BY DEF IInv, TypeOK
<1>4. DrainsAreNamed'
  <2> SUFFICES ASSUME NEW d \in Drainers, left'[d] # {}
               PROVE  pc'[d] = "draining" /\ (d = Idler \/ left'[d] \subseteq Named(body'[d]))
    BY DEF DrainsAreNamed
  <2>1. left'[d] = left[d] /\ d # u
    OBVIOUS
  <2>2. pc'[d] = pc[d] /\ (d = Idler \/ body'[d] = body[d])
    BY <1>1, <1>3, <2>1
  <2> QED BY <2>1, <2>2 DEF IInv, DrainsAreNamed
<1>5. HoldersHold' /\ StampsAreTheHolders' /\ IdleOnceAnswered'
  BY <1>1, DrainsLeaveLocks
<1> QED BY <1>2, <1>4, <1>5 DEF IInv

LEMMA IdlerKeeps ==
    ASSUME IInv, WakeUp \/ ReadClock \/ ReadStamps \/ Decide \/ CheckEnds
    PROVE  IInv'
<1> USE Constants, Points DEF WakeUp, ReadClock, ReadStamps, Decide, CheckEnds, At, locks, drain
<1>1. PICK x \in IdlerPoints : Goto(Idler, x)
  BY DEF IdlerPoints
<1>2. /\ pc'[Idler] = x /\ \A c \in Callers \ {Idler} : pc'[c] = pc[c]
      /\ \A p \in Passes : pc'[p] = pc[p]
  BY <1>1, DrainersMove
<1>3. left' = left \/ left' = [left EXCEPT ![Idler] = Engines]
  OBVIOUS
<1>4. quiet' \in 0 .. IdleAfter
  <2>1. quiet \in 0 .. IdleAfter /\ IdleAfter \in Nat
    BY DEF IInv, TypeOK
  <2>2. quiet' = quiet \/ (quiet < IdleAfter /\ quiet' = quiet + 1)
    OBVIOUS
  <2> QED BY ONLY <2>1, <2>2
<1>5. seen' \in [idle : BOOLEAN, busy : BOOLEAN]
  <2>1. seen \in [idle : BOOLEAN, busy : BOOLEAN] /\ \A e \in Engines : inflight[e] \in BOOLEAN
    BY DEF IInv, TypeOK
  <2>2. CASE ReadClock
    <3> DEFINE b == (quiet = IdleAfter)
    <3>1. b \in BOOLEAN /\ seen' = [seen EXCEPT !.idle = b]
      BY <2>2
    <3> HIDE DEF b
    <3> QED BY <2>1, <3>1
  <2>3. CASE ReadStamps
    <3> DEFINE b == \E e \in Engines : inflight[e]
    <3>1. b \in BOOLEAN /\ seen' = [seen EXCEPT !.busy = b]
      BY <2>3
    <3> HIDE DEF b
    <3> QED BY <2>1, <3>1
  <2>4. CASE WakeUp \/ CheckEnds
    BY <2>1, <2>4
  <2>5. CASE Decide
    <3>1. seen' = [idle |-> FALSE, busy |-> FALSE]
      BY <2>5
    <3> QED BY ONLY <3>1
  <2> QED BY <2>2, <2>3, <2>4, <2>5
<1>6. TypeOK'
  <2>1. left' \in [Drainers -> SUBSET Engines]
    BY <1>3 DEF IInv, TypeOK
  <2>2. UNCHANGED <<engine, owner, poisoned, resident, inflight, activity, hungUp, body, loaded>>
    OBVIOUS
  <2> QED BY ONLY <1>1, <1>4, <1>5, <2>1, <2>2, IInv, DrainersMove, Constants DEF IInv, TypeOK
<1>7. DrainsAreNamed'
  <2> SUFFICES ASSUME NEW d \in Drainers, left'[d] # {}
               PROVE  pc'[d] = "draining" /\ (d = Idler \/ left'[d] \subseteq Named(body'[d]))
    BY DEF DrainsAreNamed
  <2>1. CASE d # Idler
    <3>1. left'[d] = left[d] /\ pc'[d] = pc[d] /\ body' = body
      BY <2>1, <1>2, <1>3 DEF IInv, TypeOK
    <3> QED BY <2>1, <3>1 DEF IInv, DrainsAreNamed
  <2>2. CASE d = Idler
    <3>1. CASE Decide
      BY <2>2, <3>1, <1>2 DEF IInv, TypeOK, DrainsAreNamed, Goto
    <3>2. CASE WakeUp \/ ReadClock \/ ReadStamps \/ CheckEnds
      BY <2>2, <3>2 DEF IInv, DrainsAreNamed
    <3> QED BY <3>1, <3>2
  <2> QED BY <2>1, <2>2
<1>8. HoldersHold' /\ StampsAreTheHolders' /\ IdleOnceAnswered'
  BY <1>2, DrainsLeaveLocks
<1> QED BY <1>6, <1>7, <1>8 DEF IInv

LEMMA StutterKeeps == ASSUME IInv, UNCHANGED vars PROVE IInv'
BY DEF vars, locks, drain, IInv, TypeOK, HoldersHold, StampsAreTheHolders, DrainsAreNamed, At,
       IdleOnceAnswered

LEMMA NextKeeps == ASSUME IInv, [Next]_vars PROVE IInv'
<1>1. ASSUME NEW p \in Passes, Arrive(p) \/ PassStep(p) \/ Hang(p) PROVE IInv'
  BY <1>1, ArriveKeeps, AcquireKeeps, RefuseKeeps, EnterKeeps, BuildOkKeeps, EndsKeeps, ReleaseKeeps,
     AnswerKeeps, HangKeeps DEF PassStep
<1>2. ASSUME NEW u \in Unloads, AskToUnload(u) \/ UnloadStep(u) PROVE IInv'
  BY <1>2, AskKeeps, TakeKeeps, ReportKeeps, Constants DEF UnloadStep, DrainStep
<1>3. CASE IdlerStep
  BY <1>3, TakeKeeps, IdlerKeeps, Constants DEF IdlerStep, DrainStep
<1>4. CASE UNCHANGED vars
  BY <1>4, StutterKeeps
<1> QED BY <1>1, <1>2, <1>3, <1>4 DEF Next

\* The invariant every theorem below follows from.
THEOREM Inductive == Spec => []IInv
BY InitEstablishes, NextKeeps, PTL DEF Spec

\* Every variable keeps its type (SidecarService.TypeOK).
THEOREM TypeCorrect == Spec => []TypeOK
<1>1. IInv => TypeOK
  BY DEF IInv
<1> QED BY <1>1, Inductive, PTL

\* A record of a pass under way is of the pass that holds the lock (InFlightStamp).
THEOREM StampedUnderTheLock == Spec => []StampsUnderTheLock
<1>1. IInv => StampsUnderTheLock
  BY DEF IInv, TypeOK, StampsAreTheHolders, StampsUnderTheLock
<1> QED BY <1>1, Inductive, PTL

\* Once every pass is answered and nobody hung up, nothing is reported busy
\* (handlers.rs, run_pass).
THEOREM IdleAfterTheLast == Spec => []IdleOnceAnswered
<1>1. IInv => IdleOnceAnswered
  BY DEF IInv
<1> QED BY <1>1, Inductive, PTL

\* An engine leaves its slot under a drain that names it, or because a panic has
\* condemned it (parse_unload_request, drain_engines, lock_or_refuse).
THEOREM NamedOnly == Spec => OnlyTheNamedLeave
<1>1. IInv /\ [Next]_vars =>
        [\A e \in Engines : resident[e] /\ ~resident'[e] =>
            poisoned[e] \/ \E d \in Drainers : At(d, "draining") /\ AsksFor(d, e)]_vars
  <2> SUFFICES ASSUME IInv, Next, NEW e \in Engines, resident[e], ~resident'[e]
               PROVE  poisoned[e] \/ \E d \in Drainers : At(d, "draining") /\ AsksFor(d, e)
    OBVIOUS
  <2>1. \/ \E p \in Passes : Acquire(p)
        \/ \E d \in Drainers : TakeEngine(d)
    <3>1. ASSUME resident' = resident PROVE FALSE
      BY <3>1
    <3>2. ASSUME NEW p \in Passes, BuildOk(p) PROVE FALSE
      BY <3>2 DEF BuildOk, IInv, TypeOK
    <3>3. ASSUME NEW p \in Passes,
                 \/ Arrive(p) \/ Refuse(p) \/ Enter(p) \/ Ends(p) \/ Panic(p) \/ Release(p)
                 \/ Answer(p) \/ AnswerNobody(p) \/ Hang(p)
          PROVE  FALSE
      BY <3>1, <3>3 DEF Arrive, Refuse, Enter, Ends, Panic, Release, Answer, AnswerNobody, Hang
    <3>4. ASSUME NEW u \in Unloads, AskToUnload(u) \/ Report(u) PROVE FALSE
      BY <3>1, <3>4 DEF AskToUnload, Report
    <3>5. ASSUME NEW d \in Drainers, RefuseDrain(d) PROVE FALSE
      BY <3>1, <3>5 DEF RefuseDrain
    <3>6. ASSUME WakeUp \/ ReadClock \/ ReadStamps \/ Decide \/ CheckEnds PROVE FALSE
      BY <3>1, <3>6 DEF WakeUp, ReadClock, ReadStamps, Decide, CheckEnds
    <3> QED BY <3>2, <3>3, <3>4, <3>5, <3>6, Constants
            DEF Next, PassStep, UnloadStep, IdlerStep, DrainStep
  <2>2. ASSUME NEW p \in Passes, Acquire(p) PROVE poisoned[e]
    BY <2>2 DEF Acquire, IInv, TypeOK
  <2>3. ASSUME NEW d \in Drainers, TakeEngine(d)
        PROVE  At(d, "draining") /\ AsksFor(d, e)
    <3>1. At(d, "draining") /\ e = NextOf(d) /\ left[d] # {}
      BY <2>3 DEF TakeEngine, IInv, TypeOK
    <3>2. e \in left[d]
      <4>1. left[d] \subseteq {"embed", "rerank"}
        BY DEF IInv, TypeOK, Engines
      <4> QED BY <3>1, <4>1 DEF NextOf
    <3>3. d = Idler \/ (d \in Unloads /\ e \in Named(body[d]) /\ body[d] \in Bodies)
      BY <3>2, Constants DEF IInv, TypeOK, DrainsAreNamed
    <3> QED BY <3>1, <3>3 DEF AsksFor, Named, Default
  <2> QED BY <2>1, <2>2, <2>3
<1> QED BY <1>1, Inductive, PTL DEF Spec, OnlyTheNamedLeave

\* A handover that answers "not loaded" is one (unload, loaded_now).
THEOREM TrueHandovers == Spec => HandoversAreTrue
<1>1. IInv /\ [Next]_vars =>
        [\A u \in Unloads : ~At(u, "done") /\ pc'[u] = "done" =>
            \A e \in Engines : e \in loaded'[u] \/ ~resident[e] \/ poisoned[e]]_vars
  <2> SUFFICES ASSUME IInv, Next, NEW u \in Unloads, ~At(u, "done"), pc'[u] = "done",
                      NEW e \in Engines
               PROVE  e \in loaded'[u] \/ ~resident[e] \/ poisoned[e]
    OBVIOUS
  <2> USE Constants DEF Goto, At
  <2>1. Report(u)
    <3>0. DOMAIN pc = Callers /\ pc[u] # "done"
      BY DEF IInv, TypeOK
    <3>1. ASSUME NEW p \in Passes, NEW x, Goto(p, x) PROVE FALSE
      BY <3>0, <3>1
    <3>2. ASSUME NEW p \in Passes, Arrive(p) \/ PassStep(p) \/ Hang(p) PROVE FALSE
      <4>1. \E x : Goto(p, x)
        <5>1. CASE Enter(p)
          <6>1. Goto(p, IF resident[engine[p]] THEN "running" ELSE "building")
            BY <5>1 DEF Enter
          <6> QED BY <6>1
        <5>2. CASE Arrive(p) \/ Acquire(p) \/ Refuse(p) \/ BuildOk(p) \/ Ends(p) \/ Panic(p)
          BY <5>2 DEF Arrive, Acquire, Refuse, BuildOk, Ends, Panic
        <5>3. CASE Release(p) \/ Answer(p) \/ AnswerNobody(p) \/ Hang(p)
          BY <5>3 DEF Release, Answer, AnswerNobody, Hang
        <5> QED BY <3>2, <5>1, <5>2, <5>3 DEF PassStep
      <4> QED BY <3>1, <4>1
    <3>3. ASSUME NEW v \in Unloads, AskToUnload(v) \/ (Report(v) /\ v # u) PROVE FALSE
      BY <3>0, <3>3 DEF AskToUnload, Report
    <3>4. ASSUME NEW d \in Drainers, TakeEngine(d) \/ RefuseDrain(d) PROVE FALSE
      BY <3>0, <3>4 DEF TakeEngine, RefuseDrain
    <3>5. ASSUME WakeUp \/ ReadClock \/ ReadStamps \/ Decide \/ CheckEnds PROVE FALSE
      BY <3>0, <3>5 DEF WakeUp, ReadClock, ReadStamps, Decide, CheckEnds
    <3> QED BY <3>2, <3>3, <3>4, <3>5 DEF Next, UnloadStep, IdlerStep, DrainStep
  <2>2. loaded'[u] = {f \in Engines : LoadedNow(f)}
    BY <2>1 DEF Report, IInv, TypeOK
  <2> QED BY <2>2 DEF LoadedNow
<1> QED BY <1>1, Inductive, PTL DEF Spec, HandoversAreTrue
=============================================================================
