------------------------- MODULE SessionBuildProofs -------------------------
(***************************************************************************)
(* The builds of any number of engines over any candidates: the two-       *)
(* counter argument of SoloBuildWindow, in both directions, the pin, and   *)
(* what /health can explain.                                               *)
(***************************************************************************)
EXTENDS SessionBuild, FiniteSetTheorems, SequenceTheorems, TLAPS

LEMMA Candidates ==
    ASSUME NEW r \in Requests
    PROVE  /\ Order[r] \in Seq(CandidatesOf(r)) \ {<<>>}
           /\ CandidatesOf(r) \subseteq Providers /\ None \notin CandidatesOf(r)
           /\ r # None
BY BuildAssumption DEF Providers

\* A load under way has a candidate left, and it is one of the pin.
LEMMA Trying ==
    ASSUME TypeOK, TriesThePin, NEW e \in Engines, ~At(e, "idle")
    PROVE  /\ pinned \in Requests
           /\ todo[e] \in Seq(CandidatesOf(pinned)) \ {<<>>}
           /\ Candidate(e) \in CandidatesOf(pinned) /\ Candidate(e) \in Providers
           /\ Candidate(e) # None
           /\ Tail(todo[e]) \in Seq(CandidatesOf(pinned))
           /\ Len(todo[e]) # 1 => Tail(todo[e]) # <<>>
<1>1. pinned \in Requests /\ todo[e] \in Seq(CandidatesOf(pinned)) \ {<<>>}
  BY DEF TypeOK, TriesThePin
<1>2. Candidate(e) \in CandidatesOf(pinned)
  BY <1>1 DEF Candidate
<1>3. Tail(todo[e]) \in Seq(CandidatesOf(pinned)) /\ Len(Tail(todo[e])) = Len(todo[e]) - 1
  BY <1>1, HeadTailProperties
<1>4. ASSUME Tail(todo[e]) = <<>> PROVE Len(todo[e]) = 1
  <2>1. Len(Tail(todo[e])) = 0
    BY <1>3, <1>4, EmptySeq
  <2>2. Len(todo[e]) \in Nat
    BY <1>1
  <2>3. QED
    BY <1>3, <2>1, <2>2
<1>5. QED
  BY <1>1, <1>2, <1>3, <1>4, Candidates

LEMMA Wider ==
    ASSUME NEW r \in Requests
    PROVE  Seq(CandidatesOf(r)) \subseteq Seq(Providers)
BY Candidates

LEMMA Names ==
    /\ Counted \subseteq Points /\ Open \subseteq Points
    /\ Inside = {"joining", "building", "allocated", "built"} /\ Inside \subseteq Counted
    /\ Open = {"sampled", "marked"} \cup Inside
BY DEF Counted, Open, Points, Inside
-----------------------------------------------------------------------------
\* BUILDS_IN_FLIGHT is the number of builds that are counted in.
LEMMA Counting ==
    ASSUME TypeOK, NEW e \in Engines, NEW point, Goto(e, point)
    PROVE  /\ (point \in Counted <=> pc[e] \in Counted) => CountedIn' = CountedIn
           /\ point \in Counted /\ pc[e] \notin Counted =>
                Cardinality(CountedIn') = Cardinality(CountedIn) + 1
           /\ point \notin Counted /\ pc[e] \in Counted =>
                Cardinality(CountedIn') = Cardinality(CountedIn) - 1
<1>1. \A o \in Engines : pc'[o] = IF o = e THEN point ELSE pc[o]
  BY DEF Goto, TypeOK
<1>2. IsFiniteSet(CountedIn) /\ Cardinality(CountedIn) \in Nat
  BY BuildAssumption, FS_Subset, FS_CardinalityType DEF CountedIn
<1>3. ASSUME point \in Counted <=> pc[e] \in Counted PROVE CountedIn' = CountedIn
  BY <1>1, <1>3 DEF CountedIn
<1>4. ASSUME point \in Counted, pc[e] \notin Counted
      PROVE  Cardinality(CountedIn') = Cardinality(CountedIn) + 1
  <2>1. CountedIn' = CountedIn \cup {e} /\ e \notin CountedIn
    BY <1>1, <1>4 DEF CountedIn
  <2>2. QED
    BY <1>2, <2>1, FS_AddElement
<1>5. ASSUME point \notin Counted, pc[e] \in Counted
      PROVE  Cardinality(CountedIn') = Cardinality(CountedIn) - 1
  <2>1. CountedIn' = CountedIn \ {e} /\ e \in CountedIn
    BY <1>1, <1>5 DEF CountedIn
  <2>2. QED
    BY <1>2, <2>1, FS_RemoveElement
<1>6. QED
  BY <1>3, <1>4, <1>5

LEMMA InFlightStep ==
    ASSUME TypeOK, inFlight = Cardinality(CountedIn), [Next]_vars
    PROVE  inFlight' = Cardinality(CountedIn')
<1> USE DEF At, Counted
<1>1. ASSUME NEW e \in Engines, CountIn(e) PROVE inFlight' = Cardinality(CountedIn')
  BY <1>1, Counting DEF CountIn
<1>2. ASSUME NEW e \in Engines, BuildPanics(e) PROVE inFlight' = Cardinality(CountedIn')
  BY <1>2, Counting DEF BuildPanics
<1>3. ASSUME NEW e \in Engines, DropWindow(e) PROVE inFlight' = Cardinality(CountedIn')
  <2>1. \E point \in {"promoting", "explaining", "trying"} : Goto(e, point)
    BY <1>3 DEF DropWindow
  <2>2. QED
    BY <1>3, <2>1, Counting DEF DropWindow
<1>4. ASSUME NEW e \in Engines,
             \/ \E hint \in Requests : Begin(e, hint)
             \/ PreflightRefuses(e) \/ PreflightPasses(e) \/ SampleBefore(e) \/ ReadMarks(e)
             \/ Promote(e) \/ ClearError(e) \/ Explain(e)
      PROVE  inFlight' = Cardinality(CountedIn')
  <2>1. \E point \in {"trying", "explaining", "sampling", "sampled", "marked", "clearing", "idle"} :
            Goto(e, point)
    BY <1>4 DEF Begin, PreflightRefuses, PreflightPasses, SampleBefore, ReadMarks, Promote,
                ClearError, Explain
  <2>2. pc[e] \notin Counted /\ UNCHANGED inFlight
    BY <1>4 DEF Begin, PreflightRefuses, PreflightPasses, SampleBefore, ReadMarks, Promote,
                ClearError, Explain, counters
  <2>3. QED
    BY <2>1, <2>2, Counting
<1>5. ASSUME NEW e \in Engines,
             \/ Join(e) \/ (\E bytes \in Sizes : Allocate(e, bytes)) \/ BuildOk(e) \/ BuildErr(e)
             \/ SampleAfter(e) \/ Close(e)
      PROVE  inFlight' = Cardinality(CountedIn')
  <2>1. \E point \in {"building", "allocated", "built", "failed", "closing", "leaving"} :
            Goto(e, point)
    BY <1>5 DEF Join, Allocate, BuildOk, BuildErr, SampleAfter, Close
  <2>2. pc[e] \in Counted /\ UNCHANGED inFlight
    BY <1>5 DEF Join, Allocate, BuildOk, BuildErr, SampleAfter, Close, counters
  <2>3. QED
    BY <2>1, <2>2, Counting
<1>6. CASE TornDown \/ UNCHANGED vars \/ \E e \in Engines : Unload(e)
  BY <1>6 DEF TornDown, Unload, vars, counters, CountedIn
<1>7. QED
  BY <1>1, <1>2, <1>3, <1>4, <1>5, <1>6 DEF Next

-----------------------------------------------------------------------------
LEMMA PcStaysTyped ==
    ASSUME pc \in [Engines -> Points], NEW e \in Engines, NEW point \in Points, Goto(e, point)
    PROVE  pc' \in [Engines -> Points]
BY DEF Goto

LEMMA TypeStep ==
    ASSUME TypeOK, TriesThePin, inFlight' = Cardinality(CountedIn'), [Next]_vars
    PROVE  TypeOK'
<1> USE DEF TypeOK, Points, At, Goto, Verdicts
<1>1. inFlight' \in 0..Cardinality(Engines)
  <2>1. CountedIn' \subseteq Engines
    BY DEF CountedIn
  <2>2. QED
    BY <2>1, BuildAssumption, FS_Subset, FS_CardinalityType
<1>2. ASSUME NEW e \in Engines, NEW hint \in Requests, Begin(e, hint) PROVE TypeOK'
  <2>1. pinned' \in Requests /\ todo' = [todo EXCEPT ![e] = Order[pinned']]
    BY <1>2 DEF Begin
  <2>2. Order[pinned'] \in Seq(Providers)
    BY <2>1, Candidates, Wider
  <2>3. builds' \in 0..MaxBuilds
    BY <1>2, BuildAssumption DEF Begin
  <2>4. QED
    BY <1>2, <2>1, <2>2, <2>3 DEF Begin, report, adapter, counters, history, ledger
<1>3. ASSUME NEW e \in Engines, ~At(e, "idle") PROVE Tail(todo[e]) \in Seq(Providers)
  BY <1>3, Trying, Wider
<1>4. ASSUME NEW e \in Engines, PreflightRefuses(e) PROVE TypeOK'
  <2>1. Tail(todo[e]) \in Seq(Providers)
    BY <1>3, <1>4 DEF PreflightRefuses
  <2>2. todo' \in [Engines -> Seq(Providers)]
    BY <1>4, <2>1 DEF PreflightRefuses
  <2>3. pc' \in [Engines -> Points]
    <3>1. Goto(e, "explaining") \/ Goto(e, "trying")
      BY <1>4 DEF PreflightRefuses
    <3>2. QED
      BY <3>1, PcStaysTyped
  <2>4. QED
    BY <1>4, <2>2, <2>3 DEF PreflightRefuses, report, adapter, counters, history, ledger
<1>5. ASSUME NEW e \in Engines, PreflightPasses(e) \/ BuildOk(e) PROVE TypeOK'
  <2>1. pc' \in [Engines -> Points]
    <3>1. Goto(e, "sampling") \/ Goto(e, "built")
      BY <1>5 DEF PreflightPasses, BuildOk
    <3>2. QED
      BY <3>1, PcStaysTyped
  <2>2. UNCHANGED <<request, report, adapter, counters, window, ledger, history>>
    BY <1>5 DEF PreflightPasses, BuildOk
  <2>3. QED
    BY <2>1, <2>2 DEF request, report, adapter, counters, history, ledger
<1>6. ASSUME NEW e \in Engines, SampleBefore(e) PROVE TypeOK'
  BY <1>6 DEF SampleBefore, request, report, adapter, counters, ledger
<1>7. ASSUME NEW e \in Engines, ReadMarks(e) PROVE TypeOK'
  BY <1>7 DEF ReadMarks, request, report, adapter, counters, history, ledger
<1>8. ASSUME NEW e \in Engines, CountIn(e) PROVE TypeOK'
  <2>1. window' \in [Engines -> [marks : Nat, alone : BOOLEAN]]
    <3> DEFINE first == inFlight = 0
    <3>1. window' = [window EXCEPT ![e] = [window[e] EXCEPT !.alone = first]]
      BY <1>8 DEF CountIn
    <3>2. first \in BOOLEAN
      OBVIOUS
    <3> HIDE DEF first
    <3>3. [window[e] EXCEPT !.alone = first] \in [marks : Nat, alone : BOOLEAN]
      <4>1. window[e] \in [marks : Nat, alone : BOOLEAN]
        OBVIOUS
      <4>2. QED
        BY <3>2, <4>1
    <3>4. window \in [Engines -> [marks : Nat, alone : BOOLEAN]]
      OBVIOUS
    <3> HIDE DEF TypeOK
    <3>5. QED
      BY <3>1, <3>3, <3>4
  <2>2. company' \in [Engines -> BOOLEAN]
    BY <1>8 DEF CountIn
  <2>3. pc' \in [Engines -> Points]
    BY <1>8 DEF CountIn
  <2>4. QED
    BY <1>1, <1>8, <2>1, <2>2, <2>3 DEF CountIn, request, report, adapter, ledger
<1>9. ASSUME NEW e \in Engines, Join(e) PROVE TypeOK'
  BY <1>9 DEF Join, request, report, adapter, history, ledger
<1>10. ASSUME NEW e \in Engines, NEW bytes \in Sizes, Allocate(e, bytes) PROVE TypeOK'
  <2>1. foreign' \in [Engines -> {"never", "uncounted", "inside"}]
    BY <1>10 DEF Allocate
  <2>2. bytes \in Nat
    BY BuildAssumption
  <2>3. QED
    BY <1>10, <2>1, <2>2 DEF Allocate, request, report, counters, ledger
<1>11. ASSUME NEW e \in Engines, BuildErr(e) PROVE TypeOK'
  BY <1>11 DEF BuildErr, request, report, counters, history, ledger
<1>12. ASSUME NEW e \in Engines, Forget(e)
       PROVE  /\ window' \in [Engines -> [marks : Nat, alone : BOOLEAN]]
              /\ verdict' \in [Engines -> Verdicts]
              /\ foreign' \in [Engines -> {"never", "uncounted", "inside"}]
              /\ company' \in [Engines -> BOOLEAN]
  BY <1>12 DEF Forget, Blank
<1>13. ASSUME NEW e \in Engines, BuildPanics(e) PROVE TypeOK'
  BY <1>1, <1>12, <1>13 DEF BuildPanics, request, report, ledger
<1>14. ASSUME NEW e \in Engines, SampleAfter(e) PROVE TypeOK'
  BY <1>14 DEF SampleAfter, request, report, adapter, counters, history, ledger
<1>15. ASSUME NEW e \in Engines, Close(e) PROVE TypeOK'
  <2>1. Attribution(window[e], sample[e], marks) \in Verdicts
    BY DEF Attribution
  <2>2. QED
    BY <1>15, <2>1 DEF Close, request, report, adapter, counters
<1>16. ASSUME NEW e \in Engines, DropWindow(e) PROVE TypeOK'
  <2>1. Tail(todo[e]) \in Seq(Providers)
    BY <1>3, <1>16 DEF DropWindow
  <2>2. todo' \in [Engines -> Seq(Providers)]
    BY <1>16, <2>1 DEF DropWindow
  <2>3. pc' \in [Engines -> Points]
    <3>1. Goto(e, "promoting") \/ Goto(e, "explaining") \/ Goto(e, "trying")
      BY <1>16 DEF DropWindow
    <3>2. QED
      BY <3>1, PcStaysTyped
  <2>4. QED
    BY <1>1, <1>12, <1>16, <2>2, <2>3 DEF DropWindow, report, adapter, ledger
<1>17. ASSUME NEW e \in Engines, Promote(e) \/ ClearError(e) \/ Explain(e) PROVE TypeOK'
  <2>1. Candidate(e) \in Providers
    BY <1>17, Trying DEF Promote, ClearError, Explain
  <2>2. CASE Promote(e)
    BY <2>1, <2>2 DEF Promote, request, adapter, counters, history, ledger
  <2>3. CASE ClearError(e)
    BY <2>1, <2>3 DEF ClearError, request, counters, history, ledger
  <2>4. CASE Explain(e)
    BY <2>1, <2>4 DEF Explain, request, adapter, counters, history, ledger
  <2>5. QED
    BY <1>17, <2>2, <2>3, <2>4
<1>18. ASSUME NEW e \in Engines, Unload(e) PROVE TypeOK'
  BY <1>18 DEF Unload, request, report, counters, history, ledger
<1>19. CASE TornDown
  BY <1>19 DEF TornDown, request, report, counters, history, ledger
<1>20. CASE UNCHANGED vars
  BY <1>20 DEF vars, request, report, adapter, counters, history, ledger
<1>21. QED
  BY <1>2, <1>4, <1>5, <1>6, <1>7, <1>8, <1>9, <1>10, <1>11, <1>13, <1>14, <1>15, <1>16, <1>17,
     <1>18, <1>19, <1>20 DEF Next

-----------------------------------------------------------------------------
\* fetch_add answers nought exactly when nobody else is counted in.
LEMMA FirstIn ==
    ASSUME TypeOK, inFlight = Cardinality(CountedIn)
    PROVE  inFlight = 0 <=> \A e \in Engines : pc[e] \notin Counted
<1>1. IsFiniteSet(CountedIn)
  BY BuildAssumption, FS_Subset DEF CountedIn
<1>2. inFlight = 0 <=> CountedIn = {}
  BY <1>1, FS_EmptySet
<1>3. QED
  BY <1>2 DEF CountedIn

\* A build marks the windows of others that are counted in.
LEMMA Alloted ==
    ASSUME foreign \in [Engines -> {"never", "uncounted", "inside"}],
           NEW a \in Engines, NEW bytes, Allocate(a, bytes), NEW e \in Engines
    PROVE  foreign'[e] = "inside" => foreign[e] = "inside" \/ (e # a /\ pc[e] \in Inside)
<1> DEFINE some == bytes > 0
<1>1. foreign' = [o \in Engines |->
                    IF o # a /\ some /\ pc[o] \in Inside THEN "inside"
                    ELSE IF o # a /\ some /\ pc[o] \in Open /\ foreign[o] = "never"
                         THEN "uncounted"
                         ELSE foreign[o]]
  BY DEF Allocate
<1> HIDE DEF some
<1>2. CASE e # a /\ some /\ pc[e] \in Inside
  BY <1>2
<1>3. CASE ~(e # a /\ some /\ pc[e] \in Inside)
  <2>1. foreign'[e] = "uncounted" \/ foreign'[e] = foreign[e]
    BY <1>1, <1>3
  <2>2. QED
    BY <2>1
<1>4. QED
  BY <1>2, <1>3

\* What each kind of step does to the windows and the marks.
LEMMA MarksStep ==
    ASSUME TypeOK, inFlight = Cardinality(CountedIn), MarksTell, FigureExcludesOverlaps,
           [Next]_vars
    PROVE  MarksTell' /\ FigureExcludesOverlaps'
<1> USE DEF TypeOK, At, Goto, Counted, MarksTell, FigureExcludesOverlaps, Others
<1>1. ASSUME NEW a \in Engines,
             \/ \E hint \in Requests : Begin(a, hint)
             \/ PreflightRefuses(a) \/ PreflightPasses(a) \/ SampleBefore(a)
             \/ Promote(a) \/ ClearError(a) \/ Explain(a)
      PROVE  MarksTell' /\ FigureExcludesOverlaps'
  <2>1. /\ UNCHANGED <<window, marks, foreign, verdict>>
        /\ pc[a] \in {"idle", "trying", "sampling", "promoting", "clearing", "explaining"}
    BY <1>1 DEF Begin, PreflightRefuses, PreflightPasses, SampleBefore, Promote, ClearError,
                Explain, counters, history
  <2>2. \E point \in {"trying", "explaining", "sampling", "sampled", "clearing", "idle"} :
            pc' = [pc EXCEPT ![a] = point]
    BY <1>1 DEF Begin, PreflightRefuses, PreflightPasses, SampleBefore, Promote, ClearError,
                Explain
  <2>3. QED
    BY <2>1, <2>2
<1>2. ASSUME NEW a \in Engines, ReadMarks(a) PROVE MarksTell' /\ FigureExcludesOverlaps'
  <2>1. /\ UNCHANGED <<marks, foreign, verdict>> /\ pc[a] = "sampled"
        /\ pc' = [pc EXCEPT ![a] = "marked"]
        /\ window'[a].marks = marks /\ \A e \in Engines \ {a} : window'[e] = window[e]
    BY <1>2 DEF ReadMarks, counters, history
  <2>2. QED
    BY <2>1
<1>3. ASSUME NEW a \in Engines, CountIn(a) PROVE MarksTell' /\ FigureExcludesOverlaps'
  <2>1. /\ UNCHANGED <<marks, foreign, verdict>> /\ pc[a] = "marked"
        /\ pc' = [pc EXCEPT ![a] = IF inFlight = 0 THEN "building" ELSE "joining"]
        /\ \A e \in Engines \ {a} : window'[e] = window[e]
    BY <1>3 DEF CountIn
  <2>2. window'[a].marks = window[a].marks /\ (window'[a].alone <=> inFlight = 0)
    <3> DEFINE first == inFlight = 0
    <3>1. window' = [window EXCEPT ![a] = [window[a] EXCEPT !.alone = first]]
      BY <1>3 DEF CountIn
    <3> HIDE DEF first
    <3>2. window'[a].marks = window[a].marks /\ window'[a].alone = first
      BY <3>1
    <3>3. QED
      BY <3>2 DEF first
  <2>3. inFlight = 0 <=> \A e \in Engines : pc[e] \notin Counted
    BY FirstIn
  <2>4. /\ \A e \in Engines \ {a} : pc'[e] = pc[e]
        /\ pc'[a] \in {"building", "joining"} /\ (pc'[a] = "building" <=> inFlight = 0)
    BY <2>1
  <2>5. \A e \in Engines : pc'[e] \in {"marked"} \cup Counted => window'[e].marks <= marks'
    BY <2>1, <2>2, <2>4
  <2>6. ASSUME NEW e \in Engines, pc'[e] \in Counted, window'[e].alone,
               window'[e].marks = marks', NEW o \in Engines \ {e}, pc'[o] \in Counted
        PROVE  pc'[o] = "joining"
    <3>1. CASE e = a
      BY <2>2, <2>3, <2>4, <2>6, <3>1
    <3>2. CASE e # a /\ o = a
      BY <2>3, <2>4, <2>6, <3>2
    <3>3. CASE e # a /\ o # a
      <4>1. pc[e] \in Counted /\ window[e].alone /\ window[e].marks = marks /\ pc[o] \in Counted
        BY <2>1, <2>4, <2>6, <3>3
      <4>2. QED
        BY <2>4, <3>3, <4>1
    <3>4. QED
      BY <3>1, <3>2, <3>3
  <2>7. ASSUME NEW e \in Engines, foreign'[e] = "inside"
        PROVE  pc'[e] \in Counted /\ (~window'[e].alone \/ window'[e].marks < marks')
    BY <2>1, <2>4, <2>7
  <2>8. \A e \in Engines : verdict'[e] # "unread" => pc'[e] = "leaving"
    BY <2>1, <2>4
  <2>9. MarksTell'
    BY <2>5, <2>6, <2>7, <2>8
  <2>10. QED
    BY <2>1, <2>9
<1>4. ASSUME NEW a \in Engines, Join(a) PROVE MarksTell' /\ FigureExcludesOverlaps'
  <2>1. /\ UNCHANGED <<window, foreign, verdict>> /\ marks' = marks + 1
        /\ pc[a] = "joining" /\ pc' = [pc EXCEPT ![a] = "building"]
    BY <1>4 DEF Join, history
  <2>2. \A e \in Engines : pc[e] \in {"marked"} \cup Counted => window[e].marks < marks'
    BY <2>1
  <2>3. QED
    BY <2>1, <2>2
<1>5. ASSUME NEW a \in Engines, NEW bytes \in Sizes, Allocate(a, bytes)
      PROVE  MarksTell' /\ FigureExcludesOverlaps'
  <2>1. /\ UNCHANGED <<window, marks, verdict>>
        /\ pc[a] = "building" /\ pc' = [pc EXCEPT ![a] = "allocated"]
    BY <1>5 DEF Allocate, counters
  <2>2. \A e \in Engines :
            foreign'[e] = "inside" => foreign[e] = "inside" \/ (e # a /\ pc[e] \in Inside)
    BY <1>5, Alloted
  <2>3. \A e \in Engines : e # a /\ pc[e] \in Inside =>
                                ~window[e].alone \/ window[e].marks < marks
    BY <2>1, Names
  <2>4. \A e \in Engines : pc[e] \in Inside => pc[e] \in Counted /\ verdict[e] = "unread"
    BY Names
  <2>5. QED
    BY <2>1, <2>2, <2>3, <2>4
<1>6. ASSUME NEW a \in Engines, BuildOk(a) \/ BuildErr(a) \/ SampleAfter(a)
      PROVE  MarksTell' /\ FigureExcludesOverlaps'
  <2>1. /\ UNCHANGED <<window, marks, foreign, verdict>> /\ pc[a] \in {"allocated", "built"}
        /\ \E point \in {"built", "failed", "closing"} : pc' = [pc EXCEPT ![a] = point]
    BY <1>6 DEF BuildOk, BuildErr, SampleAfter, counters, history
  <2>2. QED
    BY <2>1
<1>7. ASSUME NEW a \in Engines, Close(a) PROVE MarksTell' /\ FigureExcludesOverlaps'
  <2>1. /\ UNCHANGED <<window, marks, foreign>> /\ pc[a] = "closing"
        /\ pc' = [pc EXCEPT ![a] = "leaving"]
        /\ verdict' = [verdict EXCEPT ![a] = Attribution(window[a], sample[a], marks)]
    BY <1>7 DEF Close, counters
  <2>2. verdict'[a] = "Measured" => window[a].alone /\ window[a].marks = marks
    BY <2>1 DEF Attribution
  <2>3. QED
    BY <2>1, <2>2
<1>8. ASSUME NEW a \in Engines, BuildPanics(a) \/ DropWindow(a)
      PROVE  MarksTell' /\ FigureExcludesOverlaps'
  <2>1. /\ UNCHANGED marks /\ pc[a] \in {"allocated", "leaving", "failed"} /\ Forget(a)
        /\ \E point \in {"idle", "promoting", "explaining", "trying"} :
              pc' = [pc EXCEPT ![a] = point]
    BY <1>8 DEF BuildPanics, DropWindow
  <2>2. foreign'[a] = "never" /\ \A e \in Engines \ {a} : foreign'[e] = foreign[e]
    BY <2>1 DEF Forget
  <2>3. verdict'[a] = "unread" /\ \A e \in Engines \ {a} : verdict'[e] = verdict[e]
    BY <2>1 DEF Forget
  <2>4. \A e \in Engines \ {a} : window'[e] = window[e]
    BY <2>1 DEF Forget
  <2>5. \A e \in Engines : pc'[e] \in {"marked"} \cup Counted => e # a /\ pc'[e] = pc[e]
    BY <2>1
  <2>6. \A e \in Engines \ {a} : pc'[e] = pc[e]
    BY <2>1
  <2>7. MarksTell'
    BY <2>1, <2>2, <2>3, <2>4, <2>5, <2>6
  <2>8. FigureExcludesOverlaps'
    BY <2>2, <2>3
  <2>9. QED
    BY <2>7, <2>8
<1>9. CASE TornDown \/ UNCHANGED vars \/ \E a \in Engines : Unload(a)
  <2>1. UNCHANGED <<window, marks, foreign, verdict, pc>>
    BY <1>9 DEF TornDown, Unload, vars, counters, history
  <2>2. QED
    BY <2>1
<1>10. QED
  BY <1>1, <1>2, <1>3, <1>4, <1>5, <1>6, <1>7, <1>8, <1>9 DEF Next

-----------------------------------------------------------------------------
LEMMA CompanyStep ==
    ASSUME TypeOK, inFlight = Cardinality(CountedIn), MarksTell, CompanyIsSeen, OverlapsAreReal,
           [Next]_vars
    PROVE  CompanyIsSeen' /\ OverlapsAreReal'
<1> USE DEF TypeOK, At, Goto, Counted, Open, Inside, CompanyIsSeen, OverlapsAreReal, Others
<1>0. \A e \in Engines : verdict[e] # "unread" => pc[e] = "leaving"
  BY DEF MarksTell
<1>1. ASSUME NEW a \in Engines,
             \/ \E hint \in Requests : Begin(a, hint)
             \/ PreflightRefuses(a) \/ PreflightPasses(a)
             \/ Promote(a) \/ ClearError(a) \/ Explain(a)
      PROVE  CompanyIsSeen' /\ OverlapsAreReal'
  <2>1. /\ UNCHANGED <<window, marks, company, verdict>>
        /\ pc[a] \in {"idle", "trying", "promoting", "clearing", "explaining"}
    BY <1>1 DEF Begin, PreflightRefuses, PreflightPasses, Promote, ClearError, Explain,
                counters, history
  <2>2. \E point \in {"trying", "explaining", "sampling", "clearing", "idle"} :
            pc' = [pc EXCEPT ![a] = point]
    BY <1>1 DEF Begin, PreflightRefuses, PreflightPasses, Promote, ClearError, Explain
  <2>3. QED
    BY <2>1, <2>2
<1>2. ASSUME NEW a \in Engines, SampleBefore(a) PROVE CompanyIsSeen' /\ OverlapsAreReal'
  <2>1. /\ UNCHANGED <<window, marks, verdict>> /\ pc[a] = "sampling"
        /\ pc' = [pc EXCEPT ![a] = "sampled"]
        /\ company'[a] <=> \E o \in Engines \ {a} : pc[o] \in Counted
        /\ \A e \in Engines \ {a} : company'[e] = company[e]
    BY <1>2 DEF SampleBefore, counters
  <2>2. pc'[a] = "sampled" /\ \A e \in Engines \ {a} : pc'[e] = pc[e]
    BY <2>1
  <2>3. \A e \in Engines : pc'[e] \in Counted <=> pc[e] \in Counted
    BY <2>1, <2>2
  <2>4. verdict[a] = "unread"
    BY <1>0, <2>1
  <2>5. OverlapsAreReal'
    BY <2>1, <2>4
  <2>6. ASSUME NEW e \in Engines, pc'[e] \in Open \cup {"closing"}
        PROVE  /\ company'[e] \/ \A o \in Others(e) : pc'[o] \notin Counted
               /\ pc'[e] \in Counted /\ ~window'[e].alone => company'[e]
               /\ pc'[e] = "joining" => ~window'[e].alone
               /\ pc'[e] # "sampled" /\ window'[e].marks < marks' => company'[e]
    <3>1. CASE e = a
      BY <2>1, <2>2, <2>3, <3>1
    <3>2. CASE e # a
      BY <2>1, <2>2, <2>3, <2>6, <3>2
    <3>3. QED
      BY <3>1, <3>2
  <2>7. CompanyIsSeen'
    BY <2>6
  <2>8. QED
    BY <2>5, <2>7
<1>3. ASSUME NEW a \in Engines, ReadMarks(a) PROVE CompanyIsSeen' /\ OverlapsAreReal'
  <2>1. /\ UNCHANGED <<marks, company, verdict>> /\ pc[a] = "sampled"
        /\ pc' = [pc EXCEPT ![a] = "marked"]
        /\ window'[a].marks = marks /\ \A e \in Engines \ {a} : window'[e] = window[e]
    BY <1>3 DEF ReadMarks, counters, history
  <2>2. QED
    BY <2>1
<1>4. ASSUME NEW a \in Engines, CountIn(a) PROVE CompanyIsSeen' /\ OverlapsAreReal'
  <2>1. /\ UNCHANGED <<marks, verdict>> /\ pc[a] = "marked"
        /\ pc' = [pc EXCEPT ![a] = IF inFlight = 0 THEN "building" ELSE "joining"]
        /\ \A e \in Engines \ {a} : window'[e] = window[e]
    BY <1>4 DEF CountIn
  <2>2. window'[a].marks = window[a].marks /\ (window'[a].alone <=> inFlight = 0)
    <3> DEFINE first == inFlight = 0
    <3>1. window' = [window EXCEPT ![a] = [window[a] EXCEPT !.alone = first]]
      BY <1>4 DEF CountIn
    <3> HIDE DEF first
    <3>2. window'[a].marks = window[a].marks /\ window'[a].alone = first
      BY <3>1
    <3>3. QED
      BY <3>2 DEF first
  <2>3. inFlight # 0 => \E o \in Engines \ {a} : pc[o] \in Counted
    BY <2>1, FirstIn
  <2>4. \A e \in Engines : company'[e] <=>
            \/ company[e]
            \/ e # a /\ pc[e] \in Open \cup {"closing"}
            \/ e = a /\ \E other \in Others(a) : pc[other] \in Counted
    BY <1>4 DEF CountIn
  <2>5. \A e \in Engines \ {a} : pc'[e] \in Open \cup {"closing"} => company'[e]
    BY <2>1, <2>4
  <2>6. company'[a] \/ ((\A o \in Others(a) : pc[o] \notin Counted) /\ inFlight = 0)
    BY <2>3, <2>4
  <2>7. window'[a].marks < marks => company'[a]
    BY <2>1, <2>2, <2>4
  <2>8. OverlapsAreReal'
    BY <2>1, <2>4
  <2>9. QED
    BY <2>1, <2>2, <2>5, <2>6, <2>7, <2>8
<1>5. ASSUME NEW a \in Engines, Join(a) PROVE CompanyIsSeen' /\ OverlapsAreReal'
  <2>1. /\ UNCHANGED <<window, company, verdict>> /\ marks' = marks + 1
        /\ pc[a] = "joining" /\ pc' = [pc EXCEPT ![a] = "building"]
    BY <1>5 DEF Join, history
  <2>2. \A e \in Engines : pc[e] \in Open \cup {"closing"} => company[e]
    BY <2>1
  <2>3. QED
    BY <2>1, <2>2
<1>6. ASSUME NEW a \in Engines,
             \/ \E bytes \in Sizes : Allocate(a, bytes)
             \/ BuildOk(a) \/ BuildErr(a) \/ SampleAfter(a)
      PROVE  CompanyIsSeen' /\ OverlapsAreReal'
  <2>1. /\ UNCHANGED <<window, marks, company, verdict>>
        /\ pc[a] \in {"building", "allocated", "built"}
    BY <1>6 DEF Allocate, BuildOk, BuildErr, SampleAfter, counters, history
  <2>2. \E point \in {"allocated", "built", "failed", "closing"} :
            pc' = [pc EXCEPT ![a] = point]
    BY <1>6 DEF Allocate, BuildOk, BuildErr, SampleAfter
  <2>3. QED
    BY <2>1, <2>2
<1>7. ASSUME NEW a \in Engines, Close(a) PROVE CompanyIsSeen' /\ OverlapsAreReal'
  <2>1. /\ UNCHANGED <<window, marks, company>> /\ pc[a] = "closing"
        /\ pc' = [pc EXCEPT ![a] = "leaving"]
        /\ verdict' = [verdict EXCEPT ![a] = Attribution(window[a], sample[a], marks)]
    BY <1>7 DEF Close, counters
  <2>2. verdict'[a] = "Overlapped" => ~window[a].alone \/ window[a].marks # marks
    <3>1. verdict'[a] = Attribution(window[a], sample[a], marks)
      BY <2>1
    <3>2. ASSUME window[a].alone, window[a].marks = marks
          PROVE  Attribution(window[a], sample[a], marks) # "Overlapped"
      BY <3>2 DEF Attribution
    <3>3. QED
      BY <3>1, <3>2
  <2>3. window[a].marks <= marks
    BY <2>1 DEF MarksTell
  <2>4. verdict'[a] = "Overlapped" => company[a]
    <3>1. window[a].marks \in Nat /\ marks \in Nat
      OBVIOUS
    <3>2. window[a].marks # marks => window[a].marks < marks
      BY <2>3, <3>1
    <3>3. ~window[a].alone => company[a]
      BY <2>1
    <3>4. window[a].marks < marks => company[a]
      BY <2>1
    <3>5. QED
      BY <2>2, <3>2, <3>3, <3>4
  <2>5. QED
    BY <2>1, <2>4
<1>8. ASSUME NEW a \in Engines, BuildPanics(a) \/ DropWindow(a)
      PROVE  CompanyIsSeen' /\ OverlapsAreReal'
  <2>1. /\ UNCHANGED marks /\ pc[a] \in {"allocated", "leaving", "failed"} /\ Forget(a)
        /\ \E point \in {"idle", "promoting", "explaining", "trying"} :
              pc' = [pc EXCEPT ![a] = point]
    BY <1>8 DEF BuildPanics, DropWindow
  <2>2. verdict'[a] = "unread" /\ \A e \in Engines \ {a} : verdict'[e] = verdict[e]
    BY <2>1 DEF Forget
  <2>3. \A e \in Engines \ {a} : window'[e] = window[e]
    BY <2>1 DEF Forget
  <2>4. \A e \in Engines \ {a} : company'[e] = company[e]
    BY <2>1 DEF Forget
  <2>5. \A e \in Engines : pc'[e] \in Counted \cup Open => e # a /\ pc'[e] = pc[e]
    BY <2>1
  <2>6. \A e \in Engines : pc'[e] \in Counted => pc[e] \in Counted
    BY <2>5
  <2>7. CompanyIsSeen'
    BY <2>1, <2>3, <2>4, <2>5, <2>6
  <2>8. OverlapsAreReal'
    BY <2>2, <2>4
  <2>9. QED
    BY <2>7, <2>8
<1>9. CASE TornDown \/ UNCHANGED vars \/ \E a \in Engines : Unload(a)
  <2>1. UNCHANGED <<window, marks, company, verdict, pc>>
    BY <1>9 DEF TornDown, Unload, vars, counters, history
  <2>2. QED
    BY <2>1
<1>10. QED
  BY <1>1, <1>2, <1>3, <1>4, <1>5, <1>6, <1>7, <1>8, <1>9 DEF Next

-----------------------------------------------------------------------------
\* get_or_init: once a request is pinned it stays, and every load tries its own
\* candidates.
LEMMA PinStep ==
    ASSUME TypeOK, TriesThePin, SessionsHonourThePin, UnreadyIsExplained, [Next]_vars
    PROVE  TriesThePin' /\ SessionsHonourThePin' /\ UnreadyIsExplained'
<1> USE DEF TypeOK, At, Goto, TriesThePin, SessionsHonourThePin, UnreadyIsExplained
<1>1. ASSUME NEW a \in Engines, NEW hint \in Requests, Begin(a, hint)
      PROVE  TriesThePin' /\ SessionsHonourThePin' /\ UnreadyIsExplained'
  <2>1. /\ pinned' \in Requests /\ pinned' # None /\ (pinned # None => pinned' = pinned)
        /\ todo' = [todo EXCEPT ![a] = Order[pinned']] /\ pc' = [pc EXCEPT ![a] = "trying"]
        /\ UNCHANGED <<active, lastError, failures, resident>>
    BY <1>1, Candidates DEF Begin, report, adapter
  <2>2. Order[pinned'] \in Seq(CandidatesOf(pinned')) \ {<<>>}
    BY <2>1, Candidates
  <2>3. QED
    BY <2>1, <2>2
<1>2. ASSUME NEW a \in Engines, PreflightRefuses(a) \/ DropWindow(a)
      PROVE  TriesThePin' /\ SessionsHonourThePin' /\ UnreadyIsExplained'
  <2>1. /\ UNCHANGED <<pinned, active, lastError, failures, resident>> /\ ~At(a, "idle")
        /\ \A e \in Engines \ {a} : pc'[e] = pc[e] /\ todo'[e] = todo[e]
    BY <1>2 DEF PreflightRefuses, DropWindow, report, adapter
  <2>2. todo'[a] = todo[a] \/ (todo'[a] = Tail(todo[a]) /\ Len(todo[a]) # 1)
    BY <1>2 DEF PreflightRefuses, DropWindow
  <2>3. todo'[a] \in Seq(CandidatesOf(pinned)) \ {<<>>} /\ pinned # None
    BY <2>1, <2>2, Trying
  <2>4. pc'[a] # "clearing"
    BY <1>2 DEF PreflightRefuses, DropWindow
  <2>5. QED
    BY <2>1, <2>3, <2>4
<1>3. ASSUME NEW a \in Engines,
             \/ PreflightPasses(a) \/ SampleBefore(a) \/ ReadMarks(a) \/ CountIn(a) \/ Join(a)
             \/ \E bytes \in Sizes : Allocate(a, bytes)
             \/ BuildOk(a) \/ BuildErr(a) \/ BuildPanics(a) \/ SampleAfter(a) \/ Close(a)
      PROVE  TriesThePin' /\ SessionsHonourThePin' /\ UnreadyIsExplained'
  <2>1. UNCHANGED <<todo, pinned, active, lastError, failures, resident>>
    BY <1>3 DEF PreflightPasses, SampleBefore, ReadMarks, CountIn, Join, Allocate, BuildOk,
                BuildErr, BuildPanics, SampleAfter, Close, request, report, adapter
  <2>2. pc[a] # "idle"
    BY <1>3 DEF PreflightPasses, SampleBefore, ReadMarks, CountIn, Join, Allocate, BuildOk,
                BuildErr, BuildPanics, SampleAfter, Close
  <2>3. \E point : point # "clearing" /\ pc' = [pc EXCEPT ![a] = point]
    BY <1>3 DEF PreflightPasses, SampleBefore, ReadMarks, CountIn, Join, Allocate, BuildOk,
                BuildErr, BuildPanics, SampleAfter, Close
  <2>4. QED
    BY <2>1, <2>2, <2>3
<1>4. ASSUME NEW a \in Engines, ~At(a, "idle")
      PROVE  Candidate(a) # None /\ Candidate(a) \in CandidatesOf(pinned) /\ pinned # None
  BY <1>4, Trying
<1>5. ASSUME NEW a \in Engines, Promote(a)
      PROVE  TriesThePin' /\ SessionsHonourThePin' /\ UnreadyIsExplained'
  <2>1. /\ UNCHANGED <<todo, pinned, lastError, failures, resident>>
        /\ active' = Candidate(a) /\ pc[a] = "promoting" /\ pc' = [pc EXCEPT ![a] = "clearing"]
    BY <1>5 DEF Promote, request, adapter
  <2>2. active' # None
    BY <1>4, <2>1
  <2>3. QED
    BY <2>1, <2>2
<1>6. ASSUME NEW a \in Engines, ClearError(a)
      PROVE  TriesThePin' /\ SessionsHonourThePin' /\ UnreadyIsExplained'
  <2>1. /\ UNCHANGED <<todo, pinned, active, failures>>
        /\ pc[a] = "clearing" /\ pc' = [pc EXCEPT ![a] = "idle"]
        /\ resident' = [resident EXCEPT ![a] = Candidate(a)]
    BY <1>6 DEF ClearError, request
  <2>2. Candidate(a) \in CandidatesOf(pinned) /\ pinned # None /\ active # None
    BY <1>4, <2>1
  <2>3. QED
    BY <2>1, <2>2
<1>7. ASSUME NEW a \in Engines, Explain(a)
      PROVE  TriesThePin' /\ SessionsHonourThePin' /\ UnreadyIsExplained'
  <2>1. /\ UNCHANGED <<todo, pinned, active, resident>> /\ lastError' = Candidate(a)
        /\ pc[a] = "explaining" /\ pc' = [pc EXCEPT ![a] = "idle"]
    BY <1>7 DEF Explain, request, adapter
  <2>2. lastError' # None
    BY <1>4, <2>1
  <2>3. QED
    BY <2>1, <2>2
<1>8. CASE TornDown \/ UNCHANGED vars \/ \E a \in Engines : Unload(a)
  <2>1. UNCHANGED <<pc, todo, pinned, active, lastError, failures>>
    BY <1>8 DEF TornDown, Unload, vars, request, report
  <2>2. \A e \in Engines : resident'[e] # None => resident'[e] = resident[e]
    BY <1>8 DEF TornDown, Unload, vars, adapter
  <2>3. QED
    BY <2>1, <2>2
<1>9. QED
  BY <1>1, <1>2, <1>3, <1>5, <1>6, <1>7, <1>8 DEF Next

-----------------------------------------------------------------------------
LEMMA InitEstablishes == Init => IInv
<1> SUFFICES ASSUME Init PROVE IInv
  OBVIOUS
<1>1. CountedIn = {} /\ Cardinality(CountedIn) = 0
  <2>1. CountedIn = {}
    BY DEF Init, CountedIn, Counted
  <2>2. QED
    BY <2>1, FS_EmptySet
<1>2. TypeOK
  <2>1. <<>> \in Seq(Providers) /\ Cardinality(Engines) \in Nat
    BY BuildAssumption, FS_CardinalityType
  <2>2. /\ todo \in [Engines -> Seq(Providers)] /\ builds \in 0..MaxBuilds
        /\ inFlight \in 0..Cardinality(Engines) /\ marks \in Nat
    BY <2>1, BuildAssumption DEF Init
  <2>3. window \in [Engines -> [marks : Nat, alone : BOOLEAN]]
    BY DEF Init, Blank
  <2>4. {held, own} \subseteq [Engines -> Nat] /\ dying \in Nat
    BY DEF Init
  <2>5. /\ pc \in [Engines -> Points] /\ verdict \in [Engines -> Verdicts]
        /\ foreign \in [Engines -> {"never", "uncounted", "inside"}]
        /\ company \in [Engines -> BOOLEAN] /\ failures \in BOOLEAN
    BY DEF Init, Points, Verdicts
  <2>6. /\ pinned \in Requests \cup {None} /\ {active, lastError} \subseteq Providers \cup {None}
        /\ resident \in [Engines -> Providers \cup {None}] /\ discards \subseteq Verdicts
    BY DEF Init
  <2>7. QED
    BY <2>2, <2>3, <2>4, <2>5, <2>6 DEF TypeOK
<1>3. MarksTell /\ CompanyIsSeen /\ TriesThePin
  BY DEF Init, MarksTell, CompanyIsSeen, TriesThePin, Counted, Open, Inside, At
<1>4. FigureExcludesOverlaps /\ OverlapsAreReal /\ SessionsHonourThePin /\ UnreadyIsExplained
  BY DEF Init, FigureExcludesOverlaps, OverlapsAreReal, SessionsHonourThePin, UnreadyIsExplained
<1>5. QED
  BY <1>1, <1>2, <1>3, <1>4 DEF Init, IInv

\* Every reachable state: the count is right, the marks tell, loads try the pin.
THEOREM Inductive == Spec => []IInv
<1>1. Init => IInv
  BY InitEstablishes
<1>2. IInv /\ [Next]_vars => IInv'
  <2> SUFFICES ASSUME IInv, [Next]_vars PROVE IInv'
    OBVIOUS
  <2>1. (inFlight = Cardinality(CountedIn))'
    BY InFlightStep DEF IInv
  <2>2. TypeOK'
    BY <2>1, TypeStep DEF IInv
  <2>3. MarksTell' /\ FigureExcludesOverlaps'
    BY MarksStep DEF IInv
  <2>4. CompanyIsSeen' /\ OverlapsAreReal'
    BY CompanyStep DEF IInv
  <2>5. TriesThePin' /\ SessionsHonourThePin' /\ UnreadyIsExplained'
    BY PinStep DEF IInv
  <2>6. QED
    BY <2>1, <2>2, <2>3, <2>4, <2>5 DEF IInv
<1>3. QED
  BY <1>1, <1>2, PTL DEF Spec

\* Builds, counters, verdicts and the two records of /health keep their types.
THEOREM TypeCorrect == Spec => []TypeOK
<1>1. IInv => TypeOK
  BY DEF IInv
<1>2. QED
  BY <1>1, Inductive, PTL

\* SoloBuildWindow: no published figure holds the allocation of a build that ran
\* while this one was counted in, for any number of builders.
THEOREM FiguresExcludeOverlaps == Spec => []FigureExcludesOverlaps
<1>1. IInv => FigureExcludesOverlaps
  BY DEF IInv
<1>2. QED
  BY <1>1, Inductive, PTL

\* SoloBuildWindow: a sample thrown away as an overlap was one.
THEOREM DiscardedOverlapsAreReal == Spec => []OverlapsAreReal
<1>1. IInv => OverlapsAreReal
  BY DEF IInv
<1>2. QED
  BY <1>1, Inductive, PTL

\* pin_provider: every session is on a candidate of the one request pinned.
THEOREM PinIsHonoured == Spec => []SessionsHonourThePin
<1>1. IInv => SessionsHonourThePin
  BY DEF IInv
<1>2. QED
  BY <1>1, Inductive, PTL

\* record_session_outcome: with no provider active, a failed load left its reason.
THEOREM FailuresAreExplained == Spec => []UnreadyIsExplained
<1>1. IInv => UnreadyIsExplained
  BY DEF IInv
<1>2. QED
  BY <1>1, Inductive, PTL
=============================================================================
