---------------------------- MODULE EngineService ----------------------------
(***************************************************************************)
(* What the embedding engine slot promises the threads that call it: one   *)
(* user at a time, a bounded set of resident engines, work only on an      *)
(* engine that is resident, nothing left of the engines a crash touched    *)
(* when the next user enters, and, between users, an offer (the cap a      *)
(* query runs at) that names an engine there is.  How long anybody waits,  *)
(* who leaves to make room, and what is built when, is not said here;      *)
(* EmbedEngine says it, and implements this module.                        *)
(***************************************************************************)
EXTENDS Integers, FiniteSets

CONSTANTS
    Clients,    \* threads that ask for an engine, or for its removal
    NoOne,      \* the user of a free service
    Caps,       \* an engine is known by its sequence cap
    Capacity    \* engines resident at once

VARIABLES
    stage,      \* of each client: idle, waiting, inside, answered
    user,       \* the client that has the service to itself
    resident,   \* the engines that are loaded
    using,      \* the engine the user works on, 0 for none
    broken,     \* a user crashed, and nobody has entered since
    offer       \* the engine a query is told to run at, 0 for none

vars == <<stage, user, resident, using, broken, offer>>

Init ==
    /\ stage = [c \in Clients |-> "idle"]
    /\ user = NoOne
    /\ resident = {}
    /\ using = 0
    /\ broken = FALSE
    /\ offer = 0

To(c, s) == stage' = [stage EXCEPT ![c] = s]

Call(c) ==
    /\ stage[c] = "idle"
    /\ To(c, "waiting")
    /\ UNCHANGED <<user, resident, using, broken, offer>>

\* Only a client that finds the service taken is ever turned away.
TurnAway(c) ==
    /\ stage[c] = "waiting"
    /\ user # NoOne
    /\ To(c, "answered")
    /\ UNCHANGED <<user, resident, using, broken, offer>>

\* Nothing that was resident when a user crashed is still there for the next.
Enter(c) ==
    /\ stage[c] = "waiting"
    /\ user = NoOne
    /\ user' = c
    /\ To(c, "inside")
    /\ resident' = IF broken THEN {} ELSE resident
    /\ broken' = FALSE
    /\ UNCHANGED <<using, offer>>

Advertise(c) ==
    /\ user = c
    /\ offer' \in Caps \cup {0}
    /\ UNCHANGED <<stage, user, resident, using, broken>>

\* An engine comes, and at most one other goes to make room for it.
Load(c, engine) ==
    /\ user = c /\ using = 0
    /\ \E out \in SUBSET resident :
        /\ Cardinality(out) <= 1
        /\ resident' = (resident \ out) \cup {engine}
    /\ Cardinality(resident') <= Capacity
    /\ offer' = engine
    /\ UNCHANGED <<stage, user, using, broken>>

Take(c, out) ==
    /\ user = c /\ using = 0
    /\ resident' = resident \ out
    /\ offer' \in {offer, 0}
    /\ UNCHANGED <<stage, user, using, broken>>

Use(c, engine) ==
    /\ user = c /\ using = 0
    /\ engine \in resident
    /\ using' = engine
    /\ UNCHANGED <<stage, user, resident, broken, offer>>

Finish(c) ==
    /\ user = c /\ using # 0
    /\ using' = 0
    /\ UNCHANGED <<stage, user, resident, broken, offer>>

Crash(c) ==
    /\ user = c
    /\ broken' = TRUE
    /\ UNCHANGED <<stage, user, resident, using, offer>>

\* The user goes.  Unless it crashed, what it leaves on offer is there.
Leave(c) ==
    /\ user = c /\ using = 0
    /\ broken \/ offer \in resident \/ (offer = 0 /\ resident = {})
    /\ user' = NoOne
    /\ To(c, "answered")
    /\ UNCHANGED <<resident, using, broken, offer>>

Forget(c) ==
    /\ stage[c] = "answered"
    /\ To(c, "idle")
    /\ UNCHANGED <<user, resident, using, broken, offer>>

Next ==
    \E c \in Clients :
        \/ Call(c) \/ TurnAway(c) \/ Enter(c)
        \/ \E engine \in Caps : Load(c, engine) \/ Use(c, engine)
        \/ \E out \in SUBSET resident : Take(c, out)
        \/ Advertise(c) \/ Finish(c) \/ Crash(c) \/ Leave(c) \/ Forget(c)

Spec == Init /\ [][Next]_vars
=============================================================================
