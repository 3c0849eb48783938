---------------------------- MODULE ScratchSweep -----------------------------
(***************************************************************************)
(* test_scratch: the folders the crate's tests make in the shared temp     *)
(* root, the claims beside them, and the sweep that collects what killed   *)
(* runs left.                                                              *)
(*                                                                         *)
(* A run is one test process. It sweeps once, from its first constructor,  *)
(* and then makes scratches; it may be killed between any two system calls *)
(* and several runs share the root. A step is one system call that another *)
(* run can observe: the sweep's captures, checks, renames and removals are *)
(* steps of their own, because what was read by one may be stale for the   *)
(* next. Text is abstracted: a claim's record is the run it names, an      *)
(* entry's identity (device, inode, change time) is who made it. A moving  *)
(* rename is exclusive (renameat2 with RENAME_NOREPLACE).                  *)
(***************************************************************************)
EXTENDS Naturals, FiniteSets

CONSTANTS
    TestRuns,    \* test processes
    Names,       \* what random_id can draw, as whole names
    Pids,        \* process ids, which the kernel reuses
    Namespaces,  \* pid namespaces that share the temp root
    Stranger,    \* whoever makes a folder under one of our names by hand
    Torn,        \* a claim that was created and not written
    None,        \* nothing at that path
    MaxMishaps   \* bound: removals that give up, and strangers' folders

Makers == TestRuns \cup {Stranger}

Claims      == [by : TestRuns, rec : TestRuns \cup {Torn}]
Quarantines == [name : Names, by : TestRuns, holds : Makers]

ASSUME ScratchAssumption ==
    /\ {Stranger, Torn, "gone"} \cap TestRuns = {}
    /\ None \notin Makers \cup Names \cup Claims \cup {"gone"}
    /\ MaxMishaps \in Nat

VARIABLES
    stage,       \* where each run stands
    pid, ns,     \* its process id and pid namespace
    record,      \* run_record: the run its claims name, itself or one above it
    folder,      \* who made the folder at each name
    claim,       \* the file <folder>.owner
    quarantine,  \* the folders a sweep has moved aside
    aged,        \* the entries whose stamps are ten minutes old
    drawn,       \* names that were drawn: two draws never agree
    scratch,     \* the name of each run's TestScratch
    sweep,       \* the Sweeper of each run
    mishaps,
    alone        \* history: no other run has moved since this sweep began

identity == <<pid, ns, record>>
files    == <<folder, claim, quarantine>>
scratchVars == <<stage, identity, files, aged, drawn, scratch, sweep, mishaps, alone>>

NoSweep == [quarantines |-> {}, folders |-> {}, claims |-> {}, hidden |-> {}, old |-> {},
            asked |-> [p \in Pids |-> None], at |-> None, id |-> None, saw |-> None]

Stages == {"unborn", "listing", "sweeping", "captured", "condemned", "checked", "moved",
           "confirmed", "emptied", "orphan", "orphanGone", "ready", "claimed", "registered",
           "squatted", "pending", "made", "removed", "gone"}

\* The entries as objects: a tree keeps its stamp when it is renamed, a
\* quarantine has the stamp of its rename as well.
TreeOf(n, who) == <<"tree", n, who>>
ClaimOf(n, c)  == <<"claim", n, c>>
MoveOf(q)      == <<"move", q.name, q.by>>
Trees == {TreeOf(n, folder[n]) : n \in {m \in Names : folder[m] # None}}
           \cup {TreeOf(q.name, q.holds) : q \in quarantine}
Entries == Trees \cup {MoveOf(q) : q \in quarantine}
             \cup {ClaimOf(n, claim[n]) : n \in {m \in Names : claim[m] # None}}

Sweeps == [quarantines : SUBSET Quarantines,
           folders : SUBSET Names, claims : SUBSET Names, hidden : SUBSET Names,
           old : SUBSET (({"tree"} \X Names \X Makers) \cup ({"claim"} \X Names \X Claims)
                           \cup ({"move"} \X Names \X TestRuns)),
           asked : [Pids -> TestRuns \cup {"gone", None}],
           at : Names \cup {None}, id : Makers \cup {None}, saw : Claims \cup {None}]

ScratchTypeOK ==
    /\ stage \in [TestRuns -> Stages]
    /\ pid \in [TestRuns -> Pids]
    /\ ns \in [TestRuns -> Namespaces]
    /\ record \in [TestRuns -> TestRuns]
    /\ folder \in [Names -> Makers \cup {None}]
    /\ claim \in [Names -> Claims \cup {None}]
    /\ quarantine \subseteq Quarantines
    /\ aged \subseteq Entries
    /\ drawn \subseteq Names
    /\ scratch \in [TestRuns -> Names \cup {None}]
    /\ mishaps \in 0..MaxMishaps
    /\ alone \subseteq TestRuns
    /\ sweep \in [TestRuns -> Sweeps]

ScratchInit ==
    /\ stage = [r \in TestRuns |-> "unborn"]
    /\ pid \in [TestRuns -> Pids]
    /\ ns \in [TestRuns -> Namespaces]
    /\ record = [r \in TestRuns |-> r]
    /\ folder = [n \in Names |-> None]
    /\ claim = [n \in Names |-> None]
    /\ quarantine = {} /\ aged = {} /\ drawn = {}
    /\ scratch = [r \in TestRuns |-> None]
    /\ sweep = [r \in TestRuns |-> NoSweep]
    /\ mishaps = 0 /\ alone = {}

Alive(r) == stage[r] \notin {"unborn", "gone"}

\* A run that moves disturbs every sweep but its own.
Goto(r, point) ==
    /\ stage' = [stage EXCEPT ![r] = point]
    /\ alone' = alone \cap {r}

Mishap == mishaps < MaxMishaps /\ mishaps' = mishaps + 1

\* What is left of the stamps once the files have changed.
Restamp == aged' = aged \cap Entries'
----------------------------------------------------------------------------
(* Liveness of a record, as one run sees another. *)

\* A record names its machine and its pid namespace: only there is its pid a pid.
SamePlace(r, x) == ns[x] = ns[r]

\* probe: the process list of this pid namespace.
Probe(r, p) ==
    LET seen == {x \in TestRuns : Alive(x) /\ SamePlace(r, x) /\ pid[x] = p}
    IN  IF seen = {} THEN "gone" ELSE CHOOSE x \in seen : TRUE

\* Each sweep asks about a pid once.
Answer(r, p) == IF sweep[r].asked[p] # None THEN sweep[r].asked[p] ELSE Probe(r, p)
Asked(r, p)  == [sweep[r].asked EXCEPT ![p] = Answer(r, p)]

\* owner_state: another namespace is Unknown; only a process that is not there
\* is Gone; one that started at another time is Unknown.
OwnerState(r, rec) ==
    CASE SamePlace(r, rec) /\ Answer(r, pid[rec]) = "gone" -> "Gone"
      [] SamePlace(r, rec) /\ Answer(r, pid[rec]) = rec    -> "Live"
      [] OTHER                                            -> "Unknown"

\* parse_owner: a record that is the grammar, to the last byte.
Readable(c) == c # None /\ c.rec # Torn

\* Mutant of Condemned: a claim that cannot be read names nobody who is alive.
CondemnedIfUnreadable(r, c) ==
    /\ c # None
    /\ c.rec # Torn => OwnerState(r, c.rec) = "Gone"

\* verdict: an absent or an unreadable claim keeps what it stands beside.
Condemned(r, c) == Readable(c) /\ OwnerState(r, c.rec) = "Gone"

AskedAbout(r, c) == IF Readable(c) /\ SamePlace(r, c.rec) THEN Asked(r, pid[c.rec])
                    ELSE sweep[r].asked

\* run_record: the run named by TESTSTODELETE_RUN while it is live, else this one.
Start(r) ==
    /\ stage[r] = "unborn"
    /\ ~\E x \in TestRuns : Alive(x) /\ SamePlace(r, x) /\ pid[x] = pid[r]
    /\ \E run \in {r} \cup {x \in TestRuns : Alive(x) /\ SamePlace(r, x)} :
        record' = [record EXCEPT ![r] = run]
    /\ Goto(r, "listing")
    /\ UNCHANGED <<pid, ns, files, aged, drawn, scratch, sweep, mishaps>>
----------------------------------------------------------------------------
(* The sweep: one listing, three passes. *)

\* `now` is taken and the root is listed: every pass reads this snapshot.
ListRoot(r) ==
    /\ stage[r] = "listing"
    /\ sweep' = [sweep EXCEPT ![r] =
                    [NoSweep EXCEPT !.quarantines = quarantine,
                                    !.folders = {n \in Names : folder[n] # None},
                                    !.claims = {n \in Names : claim[n] # None},
                                    !.hidden = {q.name : q \in quarantine},
                                    !.old = aged]]
    /\ stage' = [stage EXCEPT ![r] = "sweeping"]
    /\ alone' = {r}
    /\ UNCHANGED <<identity, files, aged, drawn, scratch, mishaps>>

\* What every step of a sweep leaves alone.
OnlySweeps == UNCHANGED <<identity, drawn, scratch>>

\* Mutant of RestoreQuarantine: the snapshot is not told, and the folder is due
\* only when a later run lists it.
RestoreQuarantineUnnoted(r) ==
    /\ stage[r] = "sweeping"
    /\ \E q \in sweep[r].quarantines :
        LET due == /\ q \in quarantine
                   /\ Answer(r, pid[q.by]) = "gone"
                   /\ {MoveOf(q), TreeOf(q.name, q.holds)} \subseteq sweep[r].old
                   /\ folder[q.name] = None
        IN  /\ folder' = IF due THEN [folder EXCEPT ![q.name] = q.holds] ELSE folder
            /\ quarantine' = IF due THEN quarantine \ {q} ELSE quarantine
            /\ sweep' = [sweep EXCEPT ![r].quarantines = @ \ {q},
                                      ![r].asked = Asked(r, pid[q.by])]
            /\ Goto(r, "sweeping")
    /\ OnlySweeps /\ UNCHANGED <<claim, mishaps>>
    /\ Restamp

\* restore_quarantines: only what a dead renamer left, old by both stamps.
\* The move back is exclusive: onto a name that is taken it moves nothing.
RestoreQuarantine(r) ==
    /\ stage[r] = "sweeping"
    /\ \E q \in sweep[r].quarantines :
        LET due == /\ q \in quarantine
                   /\ Answer(r, pid[q.by]) = "gone"
                   /\ {MoveOf(q), TreeOf(q.name, q.holds)} \subseteq sweep[r].old
            free == folder[q.name] = None
            rest == [sweep[r] EXCEPT !.quarantines = @ \ {q}, !.asked = Asked(r, pid[q.by])]
        IN  /\ IF due /\ free
               THEN /\ folder' = [folder EXCEPT ![q.name] = q.holds]
                    /\ quarantine' = quarantine \ {q}
                    /\ sweep' = [sweep EXCEPT ![r] = [rest EXCEPT !.folders = @ \cup {q.name},
                                    !.hidden = {p.name : p \in quarantine'} \cap @]]
               ELSE /\ sweep' = [sweep EXCEPT ![r] = rest]
                    /\ UNCHANGED <<folder, quarantine>>
            /\ Goto(r, "sweeping")
    /\ OnlySweeps /\ UNCHANGED <<claim, mishaps>>
    /\ Restamp

SweepEnds(r) ==
    /\ stage[r] = "sweeping"
    /\ sweep[r].quarantines \cup sweep[r].folders \cup sweep[r].claims = {}
    /\ Goto(r, "ready")
    /\ sweep' = [sweep EXCEPT ![r] = NoSweep]
    /\ OnlySweeps /\ UNCHANGED <<files, aged, mishaps>>

\* judge_folder takes the identity and the claim before the verdict. An entry
\* that is gone, young or not a run's own is left where it is.
CaptureFolder(r) ==
    /\ stage[r] = "sweeping" /\ sweep[r].quarantines = {}
    /\ \E n \in sweep[r].folders :
        LET judged == folder[n] # None /\ TreeOf(n, folder[n]) \in sweep[r].old
            rest   == [sweep[r] EXCEPT !.folders = @ \ {n}]
        IN  IF judged
            THEN /\ sweep' = [sweep EXCEPT ![r] = [rest EXCEPT !.at = n, !.id = folder[n],
                                                               !.saw = claim[n]]]
                 /\ Goto(r, "captured")
            ELSE sweep' = [sweep EXCEPT ![r] = rest] /\ Goto(r, "sweeping")
    /\ OnlySweeps /\ UNCHANGED <<files, aged, mishaps>>

\* Kept, with a reason in the report: the pass goes on.
Keep(r) ==
    /\ sweep' = [sweep EXCEPT ![r].at = None, ![r].id = None, ![r].saw = None]
    /\ Goto(r, "sweeping")

JudgeFolder(r) ==
    /\ stage[r] = "captured"
    /\ LET asked == AskedAbout(r, sweep[r].saw)
       IN  IF Condemned(r, sweep[r].saw)
           THEN sweep' = [sweep EXCEPT ![r].asked = asked] /\ Goto(r, "condemned")
           ELSE /\ sweep' = [sweep EXCEPT ![r].asked = asked, ![r].at = None, ![r].id = None,
                                          ![r].saw = None]
                /\ Goto(r, "sweeping")
    /\ OnlySweeps /\ UNCHANGED <<files, aged, mishaps>>

\* remove_by_identity: what was judged must still be what is there.
RecheckFolder(r) ==
    /\ stage[r] = "condemned"
    /\ LET n == sweep[r].at
       IN  IF folder[n] = sweep[r].id /\ claim[n] = sweep[r].saw
           THEN Goto(r, "checked") /\ UNCHANGED sweep
           ELSE Keep(r)
    /\ OnlySweeps /\ UNCHANGED <<files, aged, mishaps>>

Moved(r) == CHOOSE q \in quarantine : q.name = sweep[r].at /\ q.by = r
HasMoved(r) == \E q \in quarantine : q.name = sweep[r].at /\ q.by = r

\* The rename takes whatever is at the name by now; nothing there is a refusal.
MoveAside(r) ==
    /\ stage[r] = "checked"
    /\ LET n == sweep[r].at
       IN  IF folder[n] # None
           THEN /\ quarantine' = quarantine \cup {[name |-> n, by |-> r, holds |-> folder[n]]}
                /\ folder' = [folder EXCEPT ![n] = None]
                /\ Goto(r, "moved") /\ UNCHANGED sweep
           ELSE Keep(r) /\ UNCHANGED <<folder, quarantine>>
    /\ OnlySweeps /\ UNCHANGED <<claim, mishaps>>
    /\ Restamp

\* put_back: exclusive too. A conflict leaves the quarantine, which hides its
\* claim from pass 3.
PutBack(r) ==
    LET n    == sweep[r].at
        free == HasMoved(r) /\ folder[n] = None
    IN  /\ folder' = IF free THEN [folder EXCEPT ![n] = Moved(r).holds] ELSE folder
        /\ quarantine' = IF free THEN quarantine \ {Moved(r)} ELSE quarantine
        /\ sweep' = [sweep EXCEPT ![r].at = None, ![r].id = None, ![r].saw = None,
                                  ![r].hidden = IF free THEN @ ELSE @ \cup {n}]
        /\ stage' = [stage EXCEPT ![r] = "sweeping"]
        /\ alone' = {}

\* Mutant of ConfirmMove: what was checked before the rename is not checked again.
ConfirmMoveUnseen(r) ==
    /\ stage[r] = "moved"
    /\ Goto(r, "confirmed")
    /\ OnlySweeps /\ UNCHANGED <<files, aged, sweep, mishaps>>

\* Checked again in the quarantine, where nobody else looks.
ConfirmMove(r) ==
    /\ stage[r] = "moved"
    /\ LET n == sweep[r].at
       IN  IF HasMoved(r) /\ Moved(r).holds = sweep[r].id /\ claim[n] = sweep[r].saw
           THEN Goto(r, "confirmed") /\ UNCHANGED <<folder, quarantine, sweep>>
           ELSE PutBack(r)
    /\ OnlySweeps /\ UNCHANGED <<claim, mishaps>>
    /\ Restamp

\* NotFound is success: somebody else has taken the quarantine back.
RemoveTree(r) ==
    /\ stage[r] = "confirmed"
    /\ quarantine' = IF HasMoved(r) THEN quarantine \ {Moved(r)} ELSE quarantine
    /\ Goto(r, "emptied")
    /\ OnlySweeps /\ UNCHANGED <<folder, claim, sweep, mishaps>>
    /\ Restamp

RemoveTreeGivesUp(r) ==
    /\ stage[r] = "confirmed"
    /\ Mishap
    /\ PutBack(r)
    /\ OnlySweeps /\ UNCHANGED claim
    /\ Restamp

\* The claim goes last, and only while it is the captured one.
RemoveItsClaim(r) ==
    /\ stage[r] = "emptied"
    /\ LET n == sweep[r].at
       IN  claim' = IF claim[n] = sweep[r].saw THEN [claim EXCEPT ![n] = None] ELSE claim
    /\ Keep(r)
    /\ OnlySweeps /\ UNCHANGED <<folder, quarantine, mishaps>>
    /\ Restamp

\* sweep_orphan_claims: claims of the first listing whose folder is absent now.
CaptureOrphan(r) ==
    /\ stage[r] = "sweeping" /\ sweep[r].quarantines \cup sweep[r].folders = {}
    /\ \E n \in sweep[r].claims :
        LET orphan == /\ claim[n] # None
                      /\ folder[n] = None
                      /\ ClaimOf(n, claim[n]) \in sweep[r].old
                      /\ n \notin sweep[r].hidden
            rest   == [sweep[r] EXCEPT !.claims = @ \ {n}]
        IN  IF orphan
            THEN /\ sweep' = [sweep EXCEPT ![r] = [rest EXCEPT !.at = n, !.saw = claim[n]]]
                 /\ Goto(r, "orphan")
            ELSE sweep' = [sweep EXCEPT ![r] = rest] /\ Goto(r, "sweeping")
    /\ OnlySweeps /\ UNCHANGED <<files, aged, mishaps>>

\* judge_orphan: verdict, then the folder must still be absent and the claim
\* still the captured one.
JudgeOrphan(r) ==
    /\ stage[r] = "orphan"
    /\ LET n == sweep[r].at
           asked == AskedAbout(r, sweep[r].saw)
       IN  IF Condemned(r, sweep[r].saw) /\ folder[n] = None /\ claim[n] = sweep[r].saw
           THEN sweep' = [sweep EXCEPT ![r].asked = asked] /\ Goto(r, "orphanGone")
           ELSE /\ sweep' = [sweep EXCEPT ![r].asked = asked, ![r].at = None, ![r].saw = None]
                /\ Goto(r, "sweeping")
    /\ OnlySweeps /\ UNCHANGED <<files, aged, mishaps>>

RemoveOrphan(r) ==
    /\ stage[r] = "orphanGone"
    /\ claim' = [claim EXCEPT ![sweep[r].at] = None]
    /\ Keep(r)
    /\ OnlySweeps /\ UNCHANGED <<folder, quarantine, mishaps>>
    /\ Restamp
----------------------------------------------------------------------------
(* TestScratch: claim, register, create; and its drop. *)

OnlyScratches == UNCHANGED <<identity, sweep>>

\* create_new: a claim that is there already is somebody else's name.
CreateClaim(r) ==
    /\ stage[r] = "ready"
    /\ \E n \in Names \ drawn :
        /\ claim[n] = None
        /\ claim' = [claim EXCEPT ![n] = [by |-> r, rec |-> Torn]]
        /\ drawn' = drawn \cup {n}
        /\ scratch' = [scratch EXCEPT ![r] = n]
    /\ Goto(r, "claimed")
    /\ OnlyScratches /\ UNCHANGED <<folder, quarantine, aged, mishaps>>

\* The write goes to the open file, whether or not it still has its name.
WriteClaim(r) ==
    /\ stage[r] = "claimed"
    /\ LET n == scratch[r]
       IN  claim' = IF claim[n] = [by |-> r, rec |-> Torn]
                    THEN [claim EXCEPT ![n].rec = record[r]] ELSE claim
    /\ Goto(r, "registered")
    /\ OnlyScratches /\ UNCHANGED <<folder, quarantine, drawn, scratch, mishaps>>
    /\ Restamp

\* A claim that could not be written whole is removed again.
WriteClaimFails(r) ==
    /\ stage[r] = "claimed"
    /\ Mishap
    /\ claim' = [claim EXCEPT ![scratch[r]] = None]
    /\ scratch' = [scratch EXCEPT ![r] = None]
    /\ Goto(r, "ready")
    /\ OnlyScratches /\ UNCHANGED <<folder, quarantine, drawn>>
    /\ Restamp

\* create_dir never adopts: a folder under the claimed name is a squatter's.
CreateDir(r) ==
    /\ stage[r] = "registered"
    /\ IF folder[scratch[r]] = None
       THEN folder' = [folder EXCEPT ![scratch[r]] = r] /\ Goto(r, "made")
       ELSE UNCHANGED folder /\ Goto(r, "squatted")
    /\ OnlyScratches /\ UNCHANGED <<claim, quarantine, aged, drawn, scratch, mishaps>>

\* Any other error is a panic, and the unwinding drop takes the claim back.
CreateDirFails(r) ==
    /\ stage[r] = "registered"
    /\ Mishap
    /\ Goto(r, "pending")
    /\ OnlyScratches /\ UNCHANGED <<files, aged, drawn, scratch>>

\* remove_claim_if_still: only while text and identity are this run's own.
TakeClaimBack(r) ==
    /\ stage[r] \in {"squatted", "pending"}
    /\ LET n == scratch[r]
           mine == claim[n] = [by |-> r, rec |-> record[r]]
       IN  claim' = IF mine THEN [claim EXCEPT ![n] = None] ELSE claim
    /\ scratch' = [scratch EXCEPT ![r] = None]
    /\ Goto(r, "ready")
    /\ OnlyScratches /\ UNCHANGED <<folder, quarantine, drawn, mishaps>>
    /\ Restamp

\* ClaimPending: the drop will try once more.
TakeBackGivesUp(r) ==
    /\ stage[r] = "squatted"
    /\ Mishap
    /\ Goto(r, "pending")
    /\ OnlyScratches /\ UNCHANGED <<files, aged, drawn, scratch>>

\* teardown: the folder first, by its exact path, then the claim. NotFound is
\* success for either.
DropFolder(r) ==
    /\ stage[r] = "made"
    /\ folder' = [folder EXCEPT ![scratch[r]] = None]
    /\ Goto(r, "removed")
    /\ OnlyScratches /\ UNCHANGED <<claim, quarantine, drawn, scratch, mishaps>>
    /\ Restamp

DropClaim(r) ==
    /\ stage[r] = "removed"
    /\ claim' = [claim EXCEPT ![scratch[r]] = None]
    /\ scratch' = [scratch EXCEPT ![r] = None]
    /\ Goto(r, "ready")
    /\ OnlyScratches /\ UNCHANGED <<folder, quarantine, drawn, mishaps>>
    /\ Restamp

\* Five tries failed: what is left stays prefixed and claimed.
DropGivesUp(r) ==
    /\ stage[r] \in {"made", "removed", "pending"}
    /\ Mishap
    /\ scratch' = [scratch EXCEPT ![r] = None]
    /\ Goto(r, "ready")
    /\ OnlyScratches /\ UNCHANGED <<files, aged, drawn>>
----------------------------------------------------------------------------
(* What happens around the runs. *)

\* A run ends, or is killed at any point: nothing of it runs any more.
Ends(r) ==
    /\ Alive(r)
    /\ Goto(r, "gone")
    /\ scratch' = [scratch EXCEPT ![r] = None]
    /\ sweep' = [sweep EXCEPT ![r] = NoSweep]
    /\ UNCHANGED <<identity, files, aged, drawn, mishaps>>

\* Ten minutes in which nothing is written.
Age ==
    /\ aged # Entries
    /\ aged' = Entries
    /\ UNCHANGED <<stage, identity, files, drawn, scratch, sweep, mishaps, alone>>

\* Somebody puts a folder of their own where a run's was, or where its claim says
\* it will be: a random name that was never drawn is nobody's guess.
Squat ==
    /\ Mishap
    /\ \E n \in drawn :
        /\ TreeOf(n, Stranger) \notin Trees
        /\ folder' = [folder EXCEPT ![n] = Stranger]
    /\ alone' = {}
    /\ UNCHANGED <<stage, identity, claim, quarantine, drawn, scratch, sweep>>
    /\ Restamp

SweepStep(r) ==
    \/ ListRoot(r)
    \/ RestoreQuarantine(r)
    \/ CaptureFolder(r)
    \/ JudgeFolder(r)
    \/ RecheckFolder(r)
    \/ MoveAside(r)
    \/ ConfirmMove(r)
    \/ RemoveTree(r)
    \/ RemoveTreeGivesUp(r)
    \/ RemoveItsClaim(r)
    \/ CaptureOrphan(r)
    \/ JudgeOrphan(r)
    \/ RemoveOrphan(r)
    \/ SweepEnds(r)

ScratchStep(r) ==
    \/ CreateClaim(r)
    \/ WriteClaim(r)
    \/ WriteClaimFails(r)
    \/ CreateDir(r)
    \/ CreateDirFails(r)
    \/ TakeClaimBack(r)
    \/ TakeBackGivesUp(r)
    \/ DropFolder(r)
    \/ DropClaim(r)
    \/ DropGivesUp(r)

ScratchNext ==
    \/ \E r \in TestRuns : Start(r) \/ SweepStep(r) \/ ScratchStep(r) \/ Ends(r)
    \/ Age
    \/ Squat

ScratchSpec == ScratchInit /\ [][ScratchNext]_scratchVars
----------------------------------------------------------------------------
\* What a sweep by r may collect: the run that is named is gone, and nobody has
\* its pid.
Abandoned(r, c) ==
    /\ Readable(c)
    /\ SamePlace(r, c.rec)
    /\ Probe(r, pid[c.rec]) = "gone"

Quarantined(n) == \E q \in quarantine : q.name = n

\* A quarantine that is not due in r's sweep: its name is taken, or was taken by
\* another tree that was, its maker's pid is somebody's, or it is young.
Stays(r, q) ==
    \/ folder[q.name] # None
    \/ \E x \in Makers \ {q.holds} : TreeOf(q.name, x) \in sweep[r].old
    \/ Probe(r, pid[q.by]) # "gone"
    \/ ~ {MoveOf(q), TreeOf(q.name, q.holds)} \subseteq sweep[r].old

\* Only what was judged is ever deleted, whatever took its place between the
\* checks, and never the folder of a run whose record is live
\* (remove_by_identity: the rename, the second check and the removal).
OnlyTheCondemnedIsRemoved ==
    [][\A q \in quarantine \ quarantine' :
          \/ folder'[q.name] = q.holds
          \/ /\ q.holds = sweep[q.by].id
             /\ q.holds \in TestRuns => ~Alive(record[q.holds])]_scratchVars

\* While the run its claim names is live, a scratch that was made is claimed
\* (TestScratch::new's order, and every sweep that runs beside it).
LiveScratchIsClaimed ==
    \A r \in TestRuns :
        stage[r] = "made" /\ Alive(record[r]) => claim[scratch[r]] = [by |-> r, rec |-> record[r]]

\* A sweep nobody disturbed and no removal of which gave up leaves nothing that
\* was old and abandoned when it began: no folder, no claim, no quarantine a
\* killed sweep left whose name was free (the order of the three passes, and what
\* a restore adds to the snapshot).
UndisturbedSweepCollects ==
    [][\A r \in TestRuns :
          stage[r] = "sweeping" /\ stage'[r] = "ready" /\ r \in alone =>
              /\ \A n \in Names :
                    Abandoned(r, claim[n]) =>
                        IF folder[n] # None THEN TreeOf(n, folder[n]) \notin sweep[r].old
                        ELSE Quarantined(n) \/ ClaimOf(n, claim[n]) \notin sweep[r].old
              /\ \A q \in quarantine : Stays(r, q)]_scratchVars

\* test_scratch.rs: "Nothing this helper made ever exists unclaimed" - so what an
\* ended run left is found by the next sweep.
NothingExistsUnclaimed ==
    \A n \in Names :
        folder[n] \in TestRuns /\ ~Alive(folder[n]) /\ record[folder[n]] = folder[n]
            => claim[n] # None
----------------------------------------------------------------------------
(* Why: the inductive invariant, part by part. *)

Born(r) == stage[r] # "unborn"

InFolders == {"captured", "condemned", "checked", "moved", "confirmed", "emptied"}
InOrphans == {"orphan", "orphanGone"}
Condemns  == {"condemned", "checked", "moved", "confirmed", "emptied", "orphanGone"}
WithName  == {"claimed", "registered", "squatted", "pending", "made", "removed"}

\* The names a sweep still has to do with.
Listed(r) == sweep[r].folders \cup sweep[r].claims
               \cup {q.name : q \in sweep[r].quarantines} \cup ({sweep[r].at} \ {None})

RecordsAreOfBorn ==
    \A r \in TestRuns : IF Born(r) THEN Born(record[r]) ELSE record[r] = r

\* A name that was never drawn has nothing to do with anybody.
NamesAreDrawn ==
    /\ \A n \in Names : folder[n] # None \/ claim[n] # None => n \in drawn
    /\ \A q \in quarantine : q.name \in drawn
    /\ \A r \in TestRuns : Listed(r) \subseteq drawn /\ scratch[r] \in drawn \cup {None}

ScratchesAreOwn ==
    \A r \in TestRuns :
        /\ stage[r] \in WithName => scratch[r] # None
        /\ scratch[r] # None =>
             /\ stage[r] \in WithName
             /\ claim[scratch[r]] # None => claim[scratch[r]].by = r
             /\ \A x \in TestRuns \ {r} : scratch[x] # scratch[r]

\* What a claim says, and what a sweep saw of one, is torn or true.
Tells(c) == c # None => Born(c.by) /\ c.rec \in {Torn, record[c.by]}
ClaimsTell ==
    /\ \A n \in Names : Tells(claim[n])
    /\ \A r \in TestRuns : Tells(sweep[r].saw)

\* A run's folder, wherever it was moved, is under the name that run claimed.
Agree(who, c) == who \in TestRuns /\ c # None => c.by = who
MakersClaim ==
    /\ \A n \in Names : Agree(folder[n], claim[n])
    /\ \A q \in quarantine : Agree(q.holds, claim[q.name])
    /\ \A r \in TestRuns : Agree(sweep[r].id, sweep[r].saw)

\* A sweep that believes a pid is free is wrong only about runs that were born
\* after its listing, and nothing it has listed is claimed in their name.
Outdated(r, x) == sweep[r].asked[pid[x]] = "gone" /\ SamePlace(r, x) /\ Alive(x)
AnswersStand ==
    \A r, x \in TestRuns : Outdated(r, x) =>
        /\ \A n \in Listed(r) : claim[n] # None => record[claim[n].by] # x
        /\ sweep[r].saw # None => record[sweep[r].saw.by] # x

\* Once condemned, always: the run the claim names stays gone.
VerdictsStand ==
    \A r \in TestRuns :
        /\ stage[r] \in InFolders \cup InOrphans => sweep[r].at # None
        /\ stage[r] \notin InFolders => sweep[r].id = None
        /\ stage[r] \in Condemns =>
             /\ sweep[r].saw # None /\ sweep[r].saw.rec \in TestRuns
             /\ stage[sweep[r].saw.rec] = "gone"
        /\ stage[r] = "orphanGone" => claim[sweep[r].at] \in {sweep[r].saw, None}

\* Until its folder is dropped, a claim is what its run made it.
ClaimsAreKept ==
    \A r \in TestRuns :
        /\ stage[r] = "claimed" => claim[scratch[r]] = [by |-> r, rec |-> Torn]
        /\ stage[r] \in {"registered", "made"} /\ Alive(record[r])
             => claim[scratch[r]] = [by |-> r, rec |-> record[r]]

\* A sweep moves a name aside once, and what it then confirmed is what it judged.
MovesAreOwn ==
    \A r \in TestRuns :
        /\ stage[r] \in InFolders =>
             sweep[r].quarantines = {} /\ sweep[r].at \notin sweep[r].folders
        /\ \A q \in quarantine : q.by = r =>
             /\ stage[r] \notin {"unborn", "listing"}
             /\ stage[r] \in {"captured", "condemned", "checked"} => q.name # sweep[r].at
             /\ sweep[r].quarantines = {} /\ q.name \notin sweep[r].folders
             /\ stage[r] \in {"moved", "confirmed"} /\ q.name = sweep[r].at =>
                  /\ \A p \in quarantine : p.by = r /\ p.name = q.name => p = q
                  /\ stage[r] = "confirmed" => q.holds = sweep[r].id

\* No maker has two trees of one name.
TreesAreApart ==
    /\ \A q \in quarantine : folder[q.name] # q.holds
    /\ \A p, q \in quarantine : p.name = q.name /\ p.holds = q.holds => p = q
    /\ \A r \in TestRuns : stage[r] \in {"claimed", "registered"} =>
          /\ folder[scratch[r]] # r
          /\ \A q \in quarantine : q.name = scratch[r] => q.holds # r

\* A sweep nobody disturbs sees what is there, and has either done with what was
\* due when it began or has it before it.
Undisturbed(r) == r \in alone /\ stage[r] \in {"sweeping"} \cup InFolders \cup InOrphans
AloneSeesAll ==
    \A r \in TestRuns : Undisturbed(r) =>
        /\ \A p \in Pids : sweep[r].asked[p] \in {None, Probe(r, p)}
        /\ stage[r] \in InFolders =>
             /\ sweep[r].id # None /\ TreeOf(sweep[r].at, sweep[r].id) \in sweep[r].old
             /\ claim[sweep[r].at] = sweep[r].saw
        /\ stage[r] \in {"captured", "condemned", "checked"} => folder[sweep[r].at] = sweep[r].id
        /\ stage[r] \in InOrphans =>
             folder[sweep[r].at] = None /\ claim[sweep[r].at] = sweep[r].saw
        /\ \A q \in quarantine :
             IF q.by = r
             THEN stage[r] \in {"moved", "confirmed"} /\ q.name = sweep[r].at
             ELSE q \in sweep[r].quarantines \/ Stays(r, q)
        /\ \A n \in sweep[r].hidden : \E q \in quarantine : q.name = n /\ q.by # r
        /\ \A n \in Names : Abandoned(r, claim[n]) =>
             IF folder[n] # None
             THEN \/ TreeOf(n, folder[n]) \notin sweep[r].old
                  \/ n \in sweep[r].folders
                  \/ stage[r] \in InFolders /\ n = sweep[r].at
             ELSE \/ Quarantined(n)
                  \/ ClaimOf(n, claim[n]) \notin sweep[r].old
                  \/ n \in sweep[r].claims
                  \/ stage[r] \in {"emptied"} \cup InOrphans /\ n = sweep[r].at

ScratchIInv ==
    /\ ScratchTypeOK /\ RecordsAreOfBorn /\ NamesAreDrawn /\ ScratchesAreOwn
    /\ ClaimsTell /\ MakersClaim /\ AnswersStand /\ VerdictsStand /\ ClaimsAreKept
    /\ MovesAreOwn /\ TreesAreApart /\ AloneSeesAll
=============================================================================
