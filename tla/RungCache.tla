------------------------------ MODULE RungCache ------------------------------
(***************************************************************************)
(* The per-rung engine cache of engine_cache.rs as operators on the        *)
(* sequence of resident caps, least recently used first. An engine is      *)
(* identified by the sequence cap it was built for: the cap is compiled    *)
(* into its session, and insert() files it under that cap.                 *)
(***************************************************************************)
EXTENDS Integers, SequencesExt

\* Vec::position of the entry filed under cap; meaningful when Resident holds.
Position(rungs, cap) == CHOOSE i \in DOMAIN rungs : rungs[i] = cap

Resident(rungs, cap) == \E i \in DOMAIN rungs : rungs[i] = cap

\* No two entries share a cap, so position() has one answer and retain() drops
\* at most one entry.
Distinct(rungs) == \A i, j \in DOMAIN rungs : rungs[i] = rungs[j] => i = j

\* remove(): one rung leaves, the others keep their order.
Without(rungs, cap) ==
    IF Resident(rungs, cap) THEN RemoveAt(rungs, Position(rungs, cap)) ELSE rungs

\* get_mut() on a hit: the entry moves to the most-recently-used end.
Promote(rungs, cap) == Append(RemoveAt(rungs, Position(rungs, cap)), cap)

\* Mutants of Insert: nothing makes room; the newest rung makes room.
InsertUnbounded(rungs, cap, capacity) == Append(Without(rungs, cap), cap)

InsertEvictsNewest(rungs, cap, capacity) ==
    LET filed == Append(Without(rungs, cap), cap)
    IN  IF Len(filed) > capacity THEN Front(filed) ELSE filed

\* insert(): retain(resident != cap), push, and index 0 makes room when the
\* push went past the capacity.
Insert(rungs, cap, capacity) ==
    LET filed == Append(Without(rungs, cap), cap)
    IN  IF Len(filed) > capacity THEN Tail(filed) ELSE filed

\* What insert() hands back to be torn down: the one entry that made room.
Evicts(rungs, cap, capacity) == Len(Without(rungs, cap)) >= capacity

\* caps().last().copied().unwrap_or(0): the most recently used cap, 0 for none.
MostRecent(rungs) == IF rungs = <<>> THEN 0 ELSE rungs[Len(rungs)]
=============================================================================
