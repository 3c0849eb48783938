------------------------------- MODULE DayLogs -------------------------------
(* The log folders of the sidecars that share one SIDECAR_LOG_DIR            *)
(* (src/src/log_segments.rs, and the lines of main.rs that open them): a     *)
(* folder per day, a file per run, a new file of the same run at midnight,   *)
(* and folders older than the window retired once, while a run starts.       *)
(*                                                                           *)
(* A file is the pair of its run and its folder's day: the rest of its name  *)
(* (device, clock, pid) is taken to tell runs apart.  Removing a folder      *)
(* while a run writes to a file in it leaves the run with a file nobody can  *)
(* find (POSIX), so what is gone is remembered in gone, not in the writer.   *)
EXTENDS Integers, FiniteSets, Calendar

CONSTANTS
    Runs,           \* the runs of the sidecar's binary, each a process of its own
    FirstDay,       \* the day number the first run may start on
    LastDay,        \* bound: the clock goes no further
    Retention,      \* SIDECAR_LOG_RETENTION_DAYS
    Found,          \* names under the log root before any run: folders
    MaxFaults,      \* bound on refused creations, refused removals and clock corrections
    NoFile          \* no segment is open

Days == FirstDay .. LastDay

ASSUME DayLogsAssumption ==
    /\ FirstDay \in Nat /\ LastDay \in Nat /\ FirstDay <= LastDay
    /\ Retention \in Nat
    /\ MaxFaults \in Nat
    /\ NoFile \notin Int
    /\ Found \subseteq Seq(Int)

VARIABLES
    today,      \* the day the machine's clock shows
    latest,     \* the last day it has ever shown
    root,       \* the names under the log root
    pc,         \* per run: where it stands
    started,    \* per run: now, the day main read once and hands to both halves
    todo,       \* per run: expired entries of read_dir the loop has not come to
    file,       \* per run: the day of the segment it writes, or NoFile
    boundary,   \* per run: next_boundary, the day its segment ends
    taken,      \* the lines written to a file: run, day of the file, day of the line
    gone,       \* the files (run and day) removed with their folder
    faults

vars == <<today, latest, root, pc, started, todo, file, boundary, taken, gone, faults>>

Points == {"down", "booted", "listing", "retiring", "serving", "ended"}

(* A run whose file layer exists: DaySegments::open answered Some. *)
Logs(r) == pc[r] \in {"listing", "retiring", "serving"} /\ boundary[r] # 0

-----------------------------------------------------------------------------
Init == /\ today = FirstDay /\ latest = FirstDay
        /\ root = Found
        /\ pc = [r \in Runs |-> "down"]
        /\ started = [r \in Runs |-> FirstDay]
        /\ todo = [r \in Runs |-> {}]
        /\ file = [r \in Runs |-> NoFile]
        /\ boundary = [r \in Runs |-> 0]
        /\ taken = {} /\ gone = {}
        /\ faults = 0

Fault == faults < MaxFaults /\ faults' = faults + 1

(* The clock: midnight passes, or a clock that ran ahead is set back a day. *)
Midnight == /\ today < LastDay
            /\ today' = today + 1
            /\ latest' = IF latest < today + 1 THEN today + 1 ELSE latest
            /\ UNCHANGED <<root, pc, started, todo, file, boundary, taken, gone, faults>>

SetBack == /\ today > FirstDay /\ Fault
           /\ today' = today - 1
           /\ UNCHANGED <<latest, root, pc, started, todo, file, boundary, taken, gone>>

(* main reads the clock once, for the segment and for retention. *)
Boot(r) == /\ pc[r] = "down"
           /\ pc' = [pc EXCEPT ![r] = "booted"]
           /\ started' = [started EXCEPT ![r] = today]
           /\ UNCHANGED <<today, latest, root, todo, file, boundary, taken, gone, faults>>

(* DaySegments::create for the folder of day d: the folder is made if it is  *)
(* missing, and the file is opened to append.                                *)
Create(d) == root' = root \cup {Civil(d)}

FirstBoundary(r) == started[r] + 1

(* DaySegments::open. *)
Open(r) == /\ pc[r] = "booted"
           /\ Create(started[r])
           /\ file' = [file EXCEPT ![r] = started[r]]
           /\ boundary' = [boundary EXCEPT ![r] = FirstBoundary(r)]
           /\ pc' = [pc EXCEPT ![r] = "listing"]
           /\ UNCHANGED <<today, latest, started, todo, taken, gone, faults>>

(* The directory or the file will not open: the run has no file layer. *)
OpenRefused(r) == /\ pc[r] = "booted" /\ Fault
                  /\ root' \in {root, root \cup {Civil(started[r])}}
                  /\ pc' = [pc EXCEPT ![r] = "listing"]
                  /\ UNCHANGED <<today, latest, started, todo, file, boundary, taken, gone>>

-----------------------------------------------------------------------------
(* The line that is written, day of its file first. *)
Line(r, d) == [run |-> r, folder |-> d, stamp |-> today]

(* Mutant of Due: one day late. *)
DueLate(r) == today > boundary[r]

(* roll_if_due: the clock has reached the boundary. *)
Due(r) == today >= boundary[r]

(* write: a line goes to the open segment; with none it is reported written. *)
Write(r) == /\ Logs(r) /\ ~Due(r)
            /\ file[r] # NoFile
            /\ taken' = taken \cup {Line(r, file[r])}
            /\ UNCHANGED <<today, latest, root, pc, started, todo, file, boundary, gone, faults>>

NextBoundary(r) == today + 1

(* write at or past the boundary: the next segment is opened first, in the   *)
(* folder of the day it is now.                                              *)
Roll(r) == /\ Logs(r) /\ Due(r)
           /\ Create(today)
           /\ file' = [file EXCEPT ![r] = today]
           /\ boundary' = [boundary EXCEPT ![r] = NextBoundary(r)]
           /\ taken' = taken \cup {Line(r, today)}
           /\ UNCHANGED <<today, latest, pc, started, todo, gone, faults>>

(* The next segment will not open: the writer is left empty until the next   *)
(* boundary, and its lines go nowhere.                                       *)
RollRefused(r) == /\ Logs(r) /\ Due(r) /\ Fault
                  /\ root' \in {root, root \cup {Civil(today)}}
                  /\ file' = [file EXCEPT ![r] = NoFile]
                  /\ boundary' = [boundary EXCEPT ![r] = NextBoundary(r)]
                  /\ UNCHANGED <<today, latest, pc, started, todo, taken, gone>>

-----------------------------------------------------------------------------
(* Mutant of Cutoff: the window is one day short. *)
CutoffShort(r) == started[r] - Retention + 1

Cutoff(r) == IF Retention > started[r] THEN 0 ELSE started[r] - Retention

Expired(r, name) == DayOfFolder(name) # NoDay /\ DayOfFolder(name) < Cutoff(r)

(* retire_day_folders: zero is the off switch; otherwise the root is listed, *)
(* and the loop comes to the entries whose name and start call for a removal *)
(* (the others it passes over).                                              *)
ReadRoot(r) == /\ pc[r] = "listing"
               /\ todo' = [todo EXCEPT ![r] =
                              IF Retention = 0 THEN {} ELSE { n \in root : Expired(r, n) }]
               /\ pc' = [pc EXCEPT ![r] = "retiring"]
               /\ UNCHANGED <<today, latest, root, started, file, boundary, taken, gone, faults>>

FilesOf(name) == { f \in Runs \X Days : Civil(f[2]) = name }

(* One entry of the listing: an expired day folder that is still there goes, *)
(* with the files in it.                                                     *)
RetireEntry(r) ==
    \E name \in todo[r] :
      /\ pc[r] = "retiring"
      /\ todo' = [todo EXCEPT ![r] = @ \ {name}]
      /\ IF name \in root
           THEN root' = root \ {name} /\ gone' = gone \cup FilesOf(name)
           ELSE UNCHANGED <<root, gone>>
      /\ UNCHANGED <<today, latest, pc, started, file, boundary, taken, faults>>

(* The folder refuses to go, with some of its files removed. *)
RetireRefused(r) ==
    \E name \in todo[r] :
      /\ pc[r] = "retiring" /\ Fault
      /\ name \in root
      /\ todo' = [todo EXCEPT ![r] = @ \ {name}]
      /\ \E some \in SUBSET FilesOf(name) : gone' = gone \cup some
      /\ UNCHANGED <<today, latest, root, pc, started, file, boundary, taken>>

Serve(r) == /\ pc[r] = "retiring" /\ todo[r] = {}
            /\ pc' = [pc EXCEPT ![r] = "serving"]
            /\ UNCHANGED <<today, latest, root, started, todo, file, boundary, taken, gone, faults>>

(* The process ends, or is killed at any point. *)
End(r) == /\ pc[r] \notin {"down", "ended"}
          /\ pc' = [pc EXCEPT ![r] = "ended"]
          /\ UNCHANGED <<today, latest, root, started, todo, file, boundary, taken, gone, faults>>

Step(r) == \/ Boot(r) \/ Open(r) \/ OpenRefused(r)
           \/ Write(r) \/ Roll(r) \/ RollRefused(r)
           \/ ReadRoot(r) \/ RetireEntry(r) \/ RetireRefused(r) \/ Serve(r) \/ End(r)

Next == Midnight \/ SetBack \/ (\E r \in Runs : Step(r))

Spec == Init /\ [][Next]_vars

-----------------------------------------------------------------------------
TypeOK ==
    /\ today \in Days /\ latest \in Days
    /\ pc \in [Runs -> Points]
    /\ started \in [Runs -> Days]
    /\ root \subseteq Seq(Int) /\ todo \in [Runs -> SUBSET Seq(Int)]
    /\ file \in [Runs -> Days \cup {NoFile}]
    /\ boundary \in [Runs -> {0} \cup (FirstDay + 1 .. LastDay + 1)]
    /\ taken \subseteq [run : Runs, folder : Days, stamp : Days]
    /\ gone \subseteq Runs \X Days
    /\ faults \in 0 .. MaxFaults

(* A line is never filed under a day before the one it was written on,       *)
(* whatever the clock, other runs and refused segments did in between: what  *)
(* happened on a day is looked up in its folder or, after a clock ran ahead, *)
(* in a later one (log_segments.rs, roll_if_due and DaySegments::open, which *)
(* is handed a clock that was read earlier).                                 *)
NothingIsFiledEarly == \A l \in taken : l.stamp <= l.folder

(* A line written within the window can still be read: no run that starts,   *)
(* with whatever clock it read, takes away the file of a day inside the      *)
(* window of the latest day seen, though another run may be writing it (log_ *)
(* segments.rs, retire_day_folders: the boundary day itself stays).          *)
RecentLinesStay ==
    \A l \in taken : l.folder >= latest - Retention => <<l.run, l.folder>> \notin gone

(* What a person put under the log root is never removed, however much its   *)
(* name resembles a date (log_segments.rs, day_folder_start).                *)
StrangersStay == { n \in Found : ~IsDate(n) } \subseteq root

(* A run's segments only move to later days: a clock that is set back does   *)
(* not reopen a file the run has left (log_segments.rs, roll_if_due: forward *)
(* only, by construction).                                                   *)
ForwardOnly ==
    [][\A r \in Runs : /\ boundary'[r] >= boundary[r]
                       /\ file[r] # NoFile /\ file'[r] \notin {NoFile, file[r]}
                            => file'[r] > file[r]]_vars

(* The date arithmetic of the folder names is the Gregorian calendar from    *)
(* 1970 to past 2100, a year that is not a leap year (logging.rs).  The      *)
(* states before the first run are where it is looked at.                    *)
CalendarAgrees ==
    (\A r \in Runs : pc[r] = "down") => EpochIsRight /\ AgreesOn(0 .. today + 28000)

-----------------------------------------------------------------------------
(* The inductive invariant of the theorems: a run reads the clock once, its  *)
(* boundary is the midnight after its file's day, and only what is older     *)
(* than its window is on its list or gone.                                   *)
ClockReadsArePast == \A r \in Runs : started[r] <= latest

BootedIsEmpty == \A r \in Runs : pc[r] \in {"down", "booted"} =>
                     boundary[r] = 0 /\ file[r] = NoFile /\ todo[r] = {}

BoundaryFollowsTheFile ==
    \A r \in Runs : file[r] # NoFile => boundary[r] = file[r] + 1

ListedIsExpired == \A r \in Runs : \A name \in todo[r] : Expired(r, name)

GoneIsOld == \A f \in gone : f[2] < latest - Retention

IInv == /\ TypeOK /\ today <= latest
        /\ ClockReadsArePast /\ BootedIsEmpty /\ BoundaryFollowsTheFile
        /\ ListedIsExpired /\ GoneIsOld
        /\ NothingIsFiledEarly /\ StrangersStay

-----------------------------------------------------------------------------
(* What the documentation says of a process that never restarts: it is not   *)
(* producing new folders either (log_segments.rs, retire_day_folders), so    *)
(* pruning at startup is enough.                                             *)
ServingMakesNoFolders ==
    [][\A r \in Runs : pc[r] = "serving" /\ pc'[r] = "serving"
                         /\ (\A q \in Runs \ {r} : pc[q] \in {"down", "ended"})
                           => root' \subseteq root]_vars
=============================================================================
