---------------------------- MODULE SessionBuild -----------------------------
(***************************************************************************)
(* load_session: which execution provider a session is built on, what      *)
(* /health says about it afterwards, and how much adapter memory the build *)
(* is charged with.                                                        *)
(*                                                                         *)
(* Where no compiled-model cache is configured nothing serializes two      *)
(* builds: one thread per engine runs here, and they share the pinned      *)
(* request, the two atomics of vram.rs, the ledger, and the two records    *)
(* /health reads. Each of those is one step, as each is in the code; a     *)
(* MIGraphX build, which the cache lease serializes, only has fewer        *)
(* interleavings. ONNX Runtime and DXGI are external: a build allocates    *)
(* some bytes and works, fails or panics; a sample is the usage, or none.  *)
(***************************************************************************)
EXTENDS Integers, Sequences, FiniteSets, Functions

CONSTANTS
    Engines,        \* one builder thread each: embed and rerank
    Requests,       \* what pin_provider can resolve a request to
    Order,          \* resolution_order: the candidates of each request
    Cpu,            \* the provider every preflight lets pass
    None,           \* nothing pinned, nothing active, no error, no session
    NoSample,       \* DXGI answered nothing
    Sizes,          \* the bytes a build may allocate
    MaxBuilds       \* bound: how many loads there are

CandidatesOf(r) == {Order[r][i] : i \in 1..Len(Order[r])}
Providers       == UNION {CandidatesOf(r) : r \in Requests}

ASSUME BuildAssumption ==
    /\ IsFiniteSet(Engines)
    /\ Sizes \subseteq Nat
    /\ NoSample \notin Nat
    /\ None \notin Requests \cup Providers
    /\ \A r \in Requests : Order[r] \in Seq(CandidatesOf(r)) \ {<<>>}
    /\ MaxBuilds \in Nat

Verdicts  == {"unread", "Measured", "Overlapped", "NotSampled", "NoGrowth"}
Points    == {"idle", "trying", "sampling", "sampled", "marked", "joining", "building",
              "allocated", "built", "closing", "failed", "leaving", "promoting", "clearing",
              "explaining"}

VARIABLES
    pc,         \* where each engine's build stands
    todo,       \* the candidates it has still to try
    builds,     \* loads so far
    pinned,     \* AppState::pinned_provider
    active,     \* AppState::active_provider
    lastError,  \* AppState::last_provider_error: the provider that failed
    resident,   \* the provider of each engine's session
    held,       \* the adapter bytes of that session
    own,        \* the adapter bytes of the session being built
    dying,      \* the bytes of dropped sessions that are still torn down
    inFlight,   \* BUILDS_IN_FLIGHT
    marks,      \* OVERLAP_MARKS
    window,     \* SoloBuildWindow: its two readings
    sample,     \* what was sampled before and after
    figure,     \* VramLedger: the figure of each engine
    discards,   \* VramLedger: which discards are not zero
    verdict,    \* what close made of the window
    foreign,    \* history: when other builds allocated, seen from the window
    company,    \* history: did another build overlap the window?
    failures    \* history: has a load returned an error?

request  == <<todo, builds, pinned>>
report   == <<active, lastError, failures>>
adapter  == <<resident, held, own, dying>>
counters == <<inFlight, marks>>
ledger   == <<figure, discards>>
history  == <<verdict, foreign, company>>
vars     == <<pc, request, report, adapter, counters, window, sample, ledger, history>>

\* SoloBuildWindow counts itself in until it is dropped.
Counted == {"joining", "building", "allocated", "built", "closing", "failed", "leaving"}

\* Where a window stands between its two samples.
Inside == {"joining", "building", "allocated", "built"}
Open   == {"sampled", "marked"} \cup Inside

Blank     == [marks |-> 0, alone |-> FALSE]
Unsampled == [before |-> NoSample, after |-> NoSample]

\* What a sample amounts to is DXGI's business.
TypeOK ==
    /\ pc \in [Engines -> Points]
    /\ todo \in [Engines -> Seq(Providers)]
    /\ builds \in 0..MaxBuilds
    /\ pinned \in Requests \cup {None}
    /\ {active, lastError} \subseteq Providers \cup {None}
    /\ resident \in [Engines -> Providers \cup {None}]
    /\ {held, own} \subseteq [Engines -> Nat]
    /\ dying \in Nat
    /\ inFlight \in 0..Cardinality(Engines)
    /\ marks \in Nat
    /\ window \in [Engines -> [marks : Nat, alone : BOOLEAN]]
    /\ discards \subseteq Verdicts
    /\ verdict \in [Engines -> Verdicts]
    /\ foreign \in [Engines -> {"never", "uncounted", "inside"}]
    /\ company \in [Engines -> BOOLEAN]
    /\ failures \in BOOLEAN

Init ==
    /\ pc = [e \in Engines |-> "idle"]
    /\ todo = [e \in Engines |-> <<>>]
    /\ builds = 0
    /\ pinned = None /\ active = None /\ lastError = None
    /\ resident = [e \in Engines |-> None]
    /\ held = [e \in Engines |-> 0]
    /\ own = [e \in Engines |-> 0]
    /\ dying = 0
    /\ inFlight = 0 /\ marks = 0
    /\ window = [e \in Engines |-> Blank]
    /\ sample = [e \in Engines |-> Unsampled]
    /\ figure = [e \in Engines |-> None] /\ discards = {}
    /\ verdict = [e \in Engines |-> "unread"]
    /\ foreign = [e \in Engines |-> "never"]
    /\ company = [e \in Engines |-> FALSE]
    /\ failures = FALSE

At(e, point)   == pc[e] = point
Goto(e, point) == pc' = [pc EXCEPT ![e] = point]

Others(e)    == Engines \ {e}
Candidate(e) == Head(todo[e])

\* The window and what was read through it end with the build.
Forget(e) ==
    /\ window' = [window EXCEPT ![e] = Blank]
    /\ sample' = [sample EXCEPT ![e] = Unsampled]
    /\ verdict' = [verdict EXCEPT ![e] = "unread"]
    /\ foreign' = [foreign EXCEPT ![e] = "never"]
    /\ company' = [company EXCEPT ![e] = FALSE]

\* process_vram_bytes: what the whole process has allocated, when DXGI answers.
Usage   == dying + SumFunction([e \in Engines |-> held[e] + own[e]])
Samples == {Usage, NoSample}
-----------------------------------------------------------------------------
(***************************************************************************)
(* load_session up to the window: the request is pinned, the candidates    *)
(* are tried in order.                                                     *)
(***************************************************************************)

\* Mutant of Begin: the pinned request is overwritten, not initialised once.
BeginRepins(e, hint) ==
    /\ At(e, "idle") /\ builds < MaxBuilds
    /\ builds' = builds + 1
    /\ pinned' = hint
    /\ todo' = [todo EXCEPT ![e] = Order[hint]]
    /\ Goto(e, "trying")
    /\ UNCHANGED <<report, adapter, counters, window, sample, ledger, history>>

\* Mutant of Begin: a new attempt clears the last one's error.
BeginForgetsTheError(e, hint) ==
    /\ At(e, "idle") /\ builds < MaxBuilds
    /\ builds' = builds + 1
    /\ pinned' = IF pinned = None THEN hint ELSE pinned
    /\ todo' = [todo EXCEPT ![e] = Order[pinned']]
    /\ lastError' = None
    /\ Goto(e, "trying")
    /\ UNCHANGED <<active, failures, adapter, counters, window, sample, ledger, history>>

\* pin_provider is get_or_init: the first request decides for the process.
Begin(e, hint) ==
    /\ At(e, "idle") /\ builds < MaxBuilds
    /\ builds' = builds + 1
    /\ pinned' = IF pinned = None THEN hint ELSE pinned
    /\ todo' = [todo EXCEPT ![e] = Order[pinned']]
    /\ Goto(e, "trying")
    /\ UNCHANGED <<report, adapter, counters, window, sample, ledger, history>>

\* A provider that is not in the binary, or whose libraries were not deployed.
PreflightRefuses(e) ==
    /\ At(e, "trying") /\ Candidate(e) # Cpu
    /\ IF Len(todo[e]) = 1
       THEN Goto(e, "explaining") /\ UNCHANGED todo
       ELSE Goto(e, "trying") /\ todo' = [todo EXCEPT ![e] = Tail(@)]
    /\ UNCHANGED <<builds, pinned, report, adapter, counters, window, sample, ledger, history>>

PreflightPasses(e) ==
    /\ At(e, "trying")
    /\ Goto(e, "sampling")
    /\ UNCHANGED <<request, report, adapter, counters, window, sample, ledger, history>>
-----------------------------------------------------------------------------
(***************************************************************************)
(* SoloBuildWindow::open: the caller samples, then the marks are read,     *)
(* then the build counts itself in.                                        *)
(***************************************************************************)
SampleBefore(e) ==
    /\ At(e, "sampling")
    /\ \E seen \in Samples : sample' = [sample EXCEPT ![e].before = seen]
    /\ company' = [company EXCEPT ![e] = \E o \in Others(e) : pc[o] \in Counted]
    /\ Goto(e, "sampled")
    /\ UNCHANGED <<request, report, adapter, counters, window, ledger, verdict, foreign>>

ReadMarks(e) ==
    /\ At(e, "sampled")
    /\ window' = [window EXCEPT ![e].marks = marks]
    /\ Goto(e, "marked")
    /\ UNCHANGED <<request, report, adapter, counters, sample, ledger, history>>

\* fetch_add: the joiner learns that it joined, the joined will learn it from
\* the mark.
CountIn(e) ==
    /\ At(e, "marked")
    /\ inFlight' = inFlight + 1
    /\ window' = [window EXCEPT ![e].alone = inFlight = 0]
    /\ company' = [o \in Engines |->
                     \/ company[o]
                     \/ o # e /\ pc[o] \in Open \cup {"closing"}
                     \/ o = e /\ \E other \in Others(e) : pc[other] \in Counted]
    /\ Goto(e, IF inFlight = 0 THEN "building" ELSE "joining")
    /\ UNCHANGED <<request, report, adapter, marks, sample, ledger, verdict, foreign>>

\* Mutant of Join: the joiner does not bump the mark.
JoinSilently(e) ==
    /\ At(e, "joining")
    /\ Goto(e, "building")
    /\ UNCHANGED <<request, report, adapter, counters, window, sample, ledger, history>>

Join(e) ==
    /\ At(e, "joining")
    /\ marks' = marks + 1
    /\ Goto(e, "building")
    /\ UNCHANGED <<request, report, adapter, inFlight, window, sample, ledger, history>>
-----------------------------------------------------------------------------
(***************************************************************************)
(* The build itself (external), and the end of its window.                 *)
(***************************************************************************)
Allocate(e, bytes) ==
    /\ At(e, "building")
    /\ own' = [own EXCEPT ![e] = bytes]
    /\ foreign' = [o \in Engines |->
                     IF o # e /\ bytes > 0 /\ pc[o] \in Inside THEN "inside"
                     ELSE IF o # e /\ bytes > 0 /\ pc[o] \in Open /\ foreign[o] = "never"
                          THEN "uncounted"
                          ELSE foreign[o]]
    /\ Goto(e, "allocated")
    /\ UNCHANGED <<request, report, resident, held, dying, counters, window, sample, ledger,
                   verdict, company>>

BuildOk(e) ==
    /\ At(e, "allocated")
    /\ Goto(e, "built")
    /\ UNCHANGED <<request, report, adapter, counters, window, sample, ledger, history>>

\* A failed build frees what it allocated; its verdict is not recorded.
BuildErr(e) ==
    /\ At(e, "allocated")
    /\ own' = [own EXCEPT ![e] = 0]
    /\ Goto(e, "failed")
    /\ UNCHANGED <<request, report, resident, held, dying, counters, window, sample, ledger,
                   history>>

\* Mutant of BuildPanics: the decrement is written after the build, not in Drop.
BuildPanicsCountedIn(e) ==
    /\ At(e, "allocated")
    /\ own' = [own EXCEPT ![e] = 0]
    /\ Forget(e)
    /\ Goto(e, "idle")
    /\ UNCHANGED <<request, report, resident, held, dying, counters, ledger>>

\* A panic unwinds through the window, and records no outcome.
BuildPanics(e) ==
    /\ At(e, "allocated")
    /\ own' = [own EXCEPT ![e] = 0]
    /\ inFlight' = inFlight - 1
    /\ Forget(e)
    /\ Goto(e, "idle")
    /\ UNCHANGED <<request, report, resident, held, dying, marks, ledger>>

SampleAfter(e) ==
    /\ At(e, "built")
    /\ \E seen \in Samples : sample' = [sample EXCEPT ![e].after = seen]
    /\ Goto(e, "closing")
    /\ UNCHANGED <<request, report, adapter, counters, window, ledger, history>>

\* attribute.
Attribution(w, s, marks_at_end) ==
    IF NoSample \in {s.before, s.after} THEN "NotSampled"
    ELSE IF ~w.alone \/ w.marks # marks_at_end THEN "Overlapped"
    ELSE IF s.after > s.before THEN "Measured" ELSE "NoGrowth"

\* SoloBuildWindow::close and VramLedger::record.
Close(e) ==
    /\ At(e, "closing")
    /\ LET attribution == Attribution(window[e], sample[e], marks)
       IN  /\ verdict' = [verdict EXCEPT ![e] = attribution]
           /\ IF attribution = "Measured"
              THEN /\ figure' = [figure EXCEPT ![e] = sample[e].after - sample[e].before]
                   /\ UNCHANGED discards
              ELSE /\ discards' = discards \cup {attribution}
                   /\ UNCHANGED figure
    /\ Goto(e, "leaving")
    /\ UNCHANGED <<request, report, adapter, counters, window, sample, foreign, company>>

\* The window is dropped; a failed candidate is followed by the next one.
DropWindow(e) ==
    /\ pc[e] \in {"leaving", "failed"}
    /\ inFlight' = inFlight - 1
    /\ Forget(e)
    /\ IF At(e, "leaving") THEN Goto(e, "promoting") /\ UNCHANGED todo
       ELSE IF Len(todo[e]) = 1 THEN Goto(e, "explaining") /\ UNCHANGED todo
       ELSE Goto(e, "trying") /\ todo' = [todo EXCEPT ![e] = Tail(@)]
    /\ UNCHANGED <<builds, pinned, report, adapter, marks, ledger>>
-----------------------------------------------------------------------------
(***************************************************************************)
(* record_session_outcome: two records, two locks, two steps. What follows *)
(* is the engine slot's (EmbedEngine); here a new session replaces the old *)
(* one, whose teardown runs on.                                            *)
(***************************************************************************)
Promote(e) ==
    /\ At(e, "promoting")
    /\ active' = Candidate(e)
    /\ Goto(e, "clearing")
    /\ UNCHANGED <<request, lastError, failures, adapter, counters, window, sample, ledger,
                   history>>

ClearError(e) ==
    /\ At(e, "clearing")
    /\ lastError' = None
    /\ resident' = [resident EXCEPT ![e] = Candidate(e)]
    /\ held' = [held EXCEPT ![e] = own[e]]
    /\ own' = [own EXCEPT ![e] = 0]
    /\ dying' = dying + held[e]
    /\ Goto(e, "idle")
    /\ UNCHANGED <<request, active, failures, counters, window, sample, ledger, history>>

\* Every candidate failed: the error is the last one's.
Explain(e) ==
    /\ At(e, "explaining")
    /\ lastError' = Candidate(e)
    /\ failures' = TRUE
    /\ Goto(e, "idle")
    /\ UNCHANGED <<request, active, adapter, counters, window, sample, ledger, history>>

\* /unload takes the session under the engine's lock and drops it outside.
Unload(e) ==
    /\ At(e, "idle") /\ resident[e] # None
    /\ resident' = [resident EXCEPT ![e] = None]
    /\ held' = [held EXCEPT ![e] = 0]
    /\ dying' = dying + held[e]
    /\ UNCHANGED <<pc, request, report, own, counters, window, sample, ledger, history>>

TornDown ==
    /\ dying > 0
    /\ dying' = 0
    /\ UNCHANGED <<pc, request, report, resident, held, own, counters, window, sample, ledger,
                   history>>

Next ==
    \/ \E e \in Engines :
        \/ \E hint \in Requests : Begin(e, hint)
        \/ PreflightRefuses(e) \/ PreflightPasses(e)
        \/ SampleBefore(e) \/ ReadMarks(e) \/ CountIn(e) \/ Join(e)
        \/ \E bytes \in Sizes : Allocate(e, bytes)
        \/ BuildOk(e) \/ BuildErr(e) \/ BuildPanics(e)
        \/ SampleAfter(e) \/ Close(e) \/ DropWindow(e)
        \/ Promote(e) \/ ClearError(e) \/ Explain(e) \/ Unload(e)
    \/ TornDown

Spec == Init /\ [][Next]_vars
-----------------------------------------------------------------------------
(***************************************************************************)
(* Properties.                                                             *)
(***************************************************************************)

\* A published figure never holds the allocation of a build that ran while
\* this one was counted in: whoever joined left a mark, or saw that it joined
\* (the two-counter argument of SoloBuildWindow::open).
FigureExcludesOverlaps ==
    \A e \in Engines : verdict[e] = "Measured" => foreign[e] # "inside"

\* And the converse: a sample is thrown away as an overlap only when another
\* build was in flight during this window. A count or a mark that leaks out of
\* a finished build, or of one that panicked, would discard every later figure.
OverlapsAreReal ==
    \A e \in Engines : verdict[e] = "Overlapped" => company[e]

\* Every session stands on a candidate of the one request the process pinned,
\* however many first requests raced with different hints: an explicit request
\* is never served by another provider.
SessionsHonourThePin ==
    \A e \in Engines :
        resident[e] # None => pinned # None /\ resident[e] \in CandidatesOf(pinned)

\* The two records /health explains provider_ready: false from agree: while no
\* provider is active, a load that has returned an error left the reason,
\* whatever the other engine's load recorded in between. (A reply reads the two
\* at different moments; this is of the records, not of the reply.)
UnreadyIsExplained ==
    active = None /\ failures => lastError # None

(***************************************************************************)
(* The inductive invariant behind them: the two-counter argument.          *)
(***************************************************************************)
CountedIn == {e \in Engines : pc[e] \in Counted}

\* A window that was alone and sees the marks it opened with shares its time
\* only with builds that have not bumped the mark yet, and so not begun.
MarksTell ==
    \A e \in Engines :
        /\ pc[e] \in {"marked"} \cup Counted => window[e].marks <= marks
        /\ pc[e] \in Counted /\ window[e].alone /\ window[e].marks = marks =>
              \A o \in Others(e) : pc[o] \in Counted => At(o, "joining")
        /\ foreign[e] = "inside" =>
              pc[e] \in Counted /\ (~window[e].alone \/ window[e].marks < marks)
        /\ verdict[e] # "unread" => At(e, "leaving")

\* Whoever is counted in while a window is open is company, and only company
\* can have taken its solitude or moved the marks.
CompanyIsSeen ==
    \A e \in Engines :
        pc[e] \in Open \cup {"closing"} =>
            /\ company[e] \/ \A o \in Others(e) : pc[o] \notin Counted
            /\ pc[e] \in Counted /\ ~window[e].alone => company[e]
            /\ At(e, "joining") => ~window[e].alone
            /\ pc[e] # "sampled" /\ window[e].marks < marks => company[e]

\* What a load has still to try are candidates of the pin.
TriesThePin ==
    \A e \in Engines :
        /\ ~At(e, "idle") => pinned # None /\ todo[e] \in Seq(CandidatesOf(pinned)) \ {<<>>}
        /\ At(e, "clearing") => active # None

IInv ==
    /\ TypeOK
    /\ inFlight = Cardinality(CountedIn)
    /\ MarksTell /\ CompanyIsSeen /\ TriesThePin
    /\ FigureExcludesOverlaps /\ OverlapsAreReal /\ SessionsHonourThePin /\ UnreadyIsExplained

(***************************************************************************)
(* What the repository says and the code does not do.                      *)
(***************************************************************************)

\* Attribution::Measured, "This build was alone for its whole window and the
\* process's usage grew by this much": no other build allocated between the
\* window's two samples.
MeasuredAlone ==
    \A e \in Engines : verdict[e] = "Measured" => foreign[e] = "never"
=============================================================================
