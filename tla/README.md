# Verification of bge-sidecar

TLA+ modules, TLC runs and TLAPS proofs about the embedding and reranking
sidecar under `src/`. It is a local HTTP service (axum) in front of two ONNX
Runtime engines: a dual-head embedder that keeps one session per *rung* (a
sequence cap is compiled into the session), and a reranker. What is hard in it
is not the HTTP: it is what happens around two mutexes that native code may
hold for minutes, or for ever, around files that a killed process leaves half
written, and around a reply that is read while everything it describes moves.

Source paths below are relative to `src/src/` unless they name a crate.

## Inventory

| Component | State | Operations | What makes it correct |
|---|---|---|---|
| rung cache (`engine_cache.rs`) | entries, least recently used first; capacity | `get_mut`, `insert`, `remove`, `drain` | never above capacity, one entry per cap, the new entry survives its insert |
| embedding engine slot (`inference.rs`, `bookkeeping.rs`, `state.rs`) | engine mutex and its poison, `committed_embed_cap`, the in-flight stamp, `loaded_max_batch` | `embed_blocking`, `embed_natural`, `lock_or_refuse`, `commit_cap`, `settle_cap`, `remember_engine` | the lock-free commitment mirrors the cache; no panic costs more than one request; native code is always stamped |
| wedge detector (`wedge.rs`) | stamps with their clocks, the watchdog's `announced` flags | `InFlightStamp::enter`/drop, `wedge_action`, `spawn_wedge_watchdog` | nobody queues behind a hang; every wedge is logged |
| compiled-model cache (`compile_cache.rs`, `canary.rs`) | the process-global cache path and its lock, one slice on disk per engine and shape | `CachePathLease::hold`, `wipe`, `load_validated_dual` | no engine runs another's program; no corrupt program serves embeddings |
| session builds (`provider.rs`, `vram.rs`) | `pinned_provider`, `active_provider`, `last_provider_error`, two atomics, the VRAM ledger | `load_session`, `pin_provider`, `build_on_first_working`, `SoloBuildWindow`, `record_session_outcome` | a figure belongs to one engine; explicit requests never fall back; a failure can be explained |
| reranker slot (`inference.rs`) | one session behind a mutex | `rerank_blocking`, `score_documents`, `aligned_scores` | as the embedder's slot, without rungs and without a canary; every document its own score |
| handlers, unload, idle unloader (`handlers.rs`, `introspection.rs`) | `activity`, `last_request` | `run_pass`, `touch`, `unload`, `drain_engines`, `spawn_idle_unloader` | only what was named leaves; an idle card is given back; idle once all are answered |
| request algorithms (`inference.rs`, `tokens.rs`, vendored `bgem3_dual`, `reranking`) | none | `pin_shape`, `unpin_rows`, `embed_settling`, `usage_from_counts`, `embed_batch`, `rerank` | every text gets its own row and a true account of what was cut |
| health and models (`introspection.rs`, `wire.rs`) | the reply under way | `health`, `models`, `loaded_now`, `in_flight_now` | a torn reading still tells of a wedge and never contradicts itself where a reader relies on it |
| log segments (`log_segments.rs`, `logging.rs`) | the open day file, its boundary | open, write, roll, retire | no line under an earlier day; only expired day folders are removed |
| startup and seeding (`main.rs`, `config.rs`, `preflight.rs`, `tokens.rs`) | files of the model cache, the tokenizer registry | the checks, `copy_missing_files`, `TokenizerRegistry::load`, bind | a truncated copy is told and repaired, before it is read |
| test scratch (`test_scratch/`) | folders, claims and quarantines in the temp root | `TestScratch::new`, drop, the three-pass sweep | no live run's folder is removed; what the dead left is collected |
| adapters (`adapters.rs`) | none | DXGI and rocminfo readings | not modelled |

How they interact. A request reaches a blocking thread through
`handlers::run_pass`; the thread settles its cap from the lock-free commitment,
waits in `lock_or_refuse`, and under the engine mutex stamps itself, builds a
session if its rung is missing (`load_session` under a `CachePathLease`, then the
canary), runs a pass and leaves. `/unload` and the idle unloader take sessions
out under the same mutex and drop them outside it. `/health`, `/models` and the
watchdog only ever read, and only through `try_lock`. The two engines have a
mutex each; they meet in the cache path, in the pinned provider, in the two
build counters and in the two outcome records. Several sidecars share a machine:
they meet in the model cache, in the log root and at the port.

`PROJECT.json` lists under `hazards` what is hard to test here, each at its line
with the properties that look at it, and maps each definition to its lines.

## Modules

| Module | Models |
|---|---|
| `RungCache` | `engine_cache.rs` as operators on the sequence of resident caps |
| `EngineService` | what an engine slot promises its callers: the abstract specification |
| `EmbedEngine` | the embedding engine slot: passes, builds, drains, panics, hangs; implements `EngineService` |
| `WedgeGate` | `lock_or_refuse`, the stamps and the watchdog in discrete time |
| `CompileCache` | the cache path, the slices, the canary's heal, crashes |
| `SessionBuild` | provider resolution, the build window, what `/health` is told |
| `SidecarService` | handlers, `/unload` and the idle unloader over both engines |
| `RequestShapes` | a request's texts from the wire to the model and back |
| `HealthProbe` | `/health` and `/models` read field by field beside both engines |
| `Startup` | sidecars that start, seed one model cache, are killed and start again |
| `Calendar` | the date arithmetic of `logging.rs` and of day folders, as operators |
| `DayLogs` | day folders, segments and retention; uses `Calendar` |
| `ScratchSweep` | the scratch folders of the crate's tests and their sweep |
| `AnswersProofs` | theorems about `HealthProbe` and `RequestShapes`: what a caller is told |
| `DayLogsProofs` | theorems about `Calendar`, `DayLogs` and `ScratchSweep`: what is removed from disk |
| `EmbedEngineProofs` | theorems about `RungCache` and `EmbedEngine`, and the refinement |
| other `*Proofs` | theorems about the module of that name |
| `MC*` | symmetry and the values of constants for TLC |

### EmbedEngine and EngineService

A step of `EmbedEngine` is one effect that another thread can observe; what only
the lock holder sees is merged into the step that publishes it. The program
counter follows `embed_natural`: `asked` (the handler has resolved the limits),
`waiting` (inside `lock_or_refuse`), `held`, `claiming` and `building` (a miss,
before and after `commit_cap`), `settled`, `running`, then `unwinding` and
`releasing` - or `panicking` and `poisoning`, because the stamp is dropped before
the guard on both ways out. A build may answer an error (`BuildErr`), panic, or
hang (`Hang` leads to `stuck`, which nothing leaves). `Heal` is the poisoned
branch of `lock_or_refuse`: it discards every engine and leaves the commitment
alone. Drains take everything (`DrainAll`) or the named caps one by one
(`RemoveNamed`) and settle the commitment before the guard goes. Time is
abstracted: `Refuse` may strike a waiter whenever the lock is held.

Between the stamp and `commit_cap` a build takes the cache path, with a blocking
`lock()` that has no ceiling and under the engine mutex. `lease` is that lock:
`free`, `ours`, `theirs` (a rerank build has it: `RivalTakes`, `RivalGives`), or
`lost` (that build hung: `RivalHangs`). `Commit` waits for it, and a pass gives
it back on every way out but a hang. A build that waits for a lost path is
`Stranded`: stamped, holding the engine, and in no native call.

`EngineService` says the same to callers in twelve definitions: one user at a
time, at most `Capacity` engines, work only on an engine that is resident,
nothing left of the engines a crash touched, a caller turned away only while
somebody is inside, and between users an offer that names an engine there is.
The refinement mapping (`Service` in `EmbedEngine`) reads the stage of a client
off its program counter, the resident engines off the sequence of rungs, the
engine in use off the stamp and its holder, and the offer off the commitment.

Three variables of `EmbedEngine` are history, not program state: `suspect`
(rungs resident when a panic struck), `stale` (a panic left the commitment
unsettled) and `ran` (batches passes were started with).

### WedgeGate

A tick is one `policy.poll`. Native calls and sleeping waiters take ticks, the
code around them none. A waiter reads the stamp in a step of its own, after its
`try_lock` has failed, so the holder may leave in between; with `Contended` the
reading may find nothing although a phase is stamped, which is what a
`try_lock` that meets `/health` answers. The watchdog wakes every `WatchEvery`
ticks and looks at each engine. With `WEDGE_EXIT` it may end the process, which
the host restarts.

There are two engines. A pass wants one of them; an unload is asked for one or
both and takes them in turn, as `drain_engines` does, with a new `waiting_since`
for the second (`target`, `HasMore`, `GoOn`). `spent` is history: the ticks a
drain has waited in all. What the drain does under a lock takes no tick, so the
time of a teardown is not counted. The settings of the operator may be nought,
as `env_parse` lets them be; only the watchdog's own tick, a constant of the
code, is positive. A tick is a poll, so a poll of nought is not modelled.

### CompileCache

A program on disk knows what it was compiled for and whether its compile
finished. The execution provider is external: at a session's first launch it
reads the path, loads what is there or compiles into it; a compile may fail or
be cut short by a crash, and leaves an unsound program. The canary is modelled
by what it decides: only the engine's own sound program passes, though a check
may also fail for a transient reason. `wipe` may fail silently, as in the code.
One restriction: a request runs at the shape its rung was built for, so the
batch is part of the rung here.

### SessionBuild

One builder thread per engine, each step one atomic operation or one lock of
the code: pin, preflight, first sample, reading the marks, counting in, bumping
the mark, allocating, second sample, closing, dropping the window, then the two
outcome records. Bytes are small numbers; a sample is the process's usage, or
nothing. MIGraphX builds are serialized by the lease and show fewer
interleavings, so nothing is assumed of the lease here.

### SidecarService

A pass is one `/embed` or `/rerank` call, from `touch` to the line of `run_pass`
that clears the activity; a client that hangs up drops the handler
(`AnswerNobody`), never the thread. An unload is any body the parser tells
apart, drained engine by engine, the embedder first, each under its lock or
refused. The idle unloader's three readings (`ReadClock`, `ReadStamps`,
`Decide`) are steps of their own. An engine is reduced to whether anything is
resident in it; who builds what is `EmbedEngine`'s subject. `quiet` counts the
checks since `last_request`, up to the threshold, so time needs no bound.

### RequestShapes

One request at a time, since the engines' sharing is the subject of other
modules; what stays between requests is which cap is resident and how many
mis-shaped runs a fresh session still has in it. A text is its number of tokens
or `Refused`, a layout is the sequence of positions handed to the library with
rulers between them, a row says whose text it is and how much of it the model
saw. The library is modelled as it is vendored: chunks of the batch size, one
run each, guards on the embedder's tensors and none on the reranker's, ranking
by score, and `aligned_scores` undoing it by index. The steps are named for the
functions; `ShapesInit`, `ShapesNext`, `ShapesSpec` and `ShapesIInv` carry a
prefix because `AnswersProofs` extends this module beside `HealthProbe`.

### HealthProbe

The two slots are one machine indexed by the engine, as `loaded_now` and
`lock_or_refuse` are generic; `Script` is the order in which each handler reads
its fields, and every field is a step. Each reading but the commitment's goes
through a `try_lock` that may collide with another reader (`Collide`), and
between two fields the engines may build, record, heal, run, hang, panic, drain
(everything, or the named caps one by one: `RemoveNamed`) and pass their
ceilings. An engine hangs in a build or a run, or at `claiming`, where it waits
for a cache path that does not come back. `probe` is the reply under way: what is asked, how many fields were
read, the fields themselves, what moved or collided meanwhile, so that a reply
nothing moved under can be held to one state, and which engines were hung when
it was asked.

### Startup

`main` line by line: the checks that exit, the seeding, the provider's check,
the tokenizers, the threads, the port. A file is a sequence of blocks and
`fs::copy` is external: it truncates, writes block after block at its own
offset, and may be stopped anywhere by `Kill` or an error; two copiers of one
file can leave a hole. `crossed` and `marred` are history: which files two
starts copied at once, and which start met an error or another start.

### Calendar and DayLogs

`Calendar` is the arithmetic of `day_and_clock` and `day_start` with the test of
`day_folder_start` (a name is a day if it survives the round trip). `DayLogs`
runs several sidecars over one log root: a run reads the clock once for its
first segment and for retention, which are two steps later than that reading;
the clock passes midnight between any two steps and may be set back; creations
and removals may be refused; retention takes folders one entry at a time while
other runs write.

### ScratchSweep

A step is one system call another test run can observe. A run sweeps once
(restore quarantines, judge folders, judge orphan claims, all from one listing)
and then makes scratches: claim, write, create, and the drop. It may be killed
between any two calls, pids are reused, somebody may put a folder where a run's
was, and entries age. What a sweep has captured it holds in `sweep`, and every
later check compares it with what is there by then. The specification is
`ScratchSpec`, its invariant `ScratchIInv`. The one assumption keeps the values
that stand for "nothing there", "torn" and "gone" apart from runs, names and
claims.

Four simplifications. `RemoveTreeGivesUp` fails as a whole, where
`remove_dir_all` may leave part of a tree: no property depends on what is left of
a tree the sweep has confirmed as dead. `MoveAside` draws one name, where the
code tries up to five and, without `RENAME_NOREPLACE`, reserves the name with a
placeholder first; both end in a move to a free name or in giving up, which is
what the step has. `OwnerState` compares identities exactly, where the code
grants a start time a tolerance and a record may lack one: that decides between
`Live` and `Unknown`, both of which keep the folder, and never about `Gone`.
The instance has one pid namespace; the proofs hold for any number.

## Runs

| Run | Checks | Instance | Distinct states |
|---|---|---|---|
| `EmbedEngine` | `CommitmentMirrorsResidency`, `CommitmentIsBacked`, `NoPhantomStamp`, `NativeCallIsStamped`, `PassFindsItsRung`, `SuspectEngineNeverServes`, `ImplementsService`: Two passes and a drain over three caps and a two-rung cache, beside rerank builds that take the cache path: the lock-free commitment, the stamp and the resident rungs agree at every interleaving, panics and hangs included, and the slot implements the service its callers were promised. | 2 passes, 1 drain, 3 caps, 2 rungs, 1 rival build | 2 664 456 |
| `EmbedEngineBurst` | `EveryCallIsAnswered`: One burst of calls beside a rerank build that may hang with the cache path, under weak fairness: is every caller answered behind a holder that hangs, or that waits for a path nobody will give back, but for that holder itself? | one call per thread, 1 rival build, weak fairness | 130 720 |
| `WedgeGate` | `NoSleepBehindAWedge`, `UnloadAnswersInTime`, `SilenceMeansTold`, `WedgeReachesTheLog`, `WedgeEndsTheProcess`: Passes, an unload that may want both engines and the watchdog around two engines in discrete time, with stamps that cannot always be read: does the ceiling hold for every waiter, does a full /unload answer within twice its bound, and does every wedge reach the log and, with WEDGE_EXIT, end the process in time? | 2 engines, 2 passes, 1 unload, watchdog | 5 838 884 |
| `CompileCache` | `ResidentRungsAreVerified`, `EmbedCompilesIntoItsOwnSlice`, `PathStaysWithTheBuild`, `RebuildStartsClean`: Two embed rungs and the reranker share the process-global cache path over two crashes: can a corrupt or a foreign program come to serve embeddings? | 2 embed rungs, the reranker, 2 crashes | 614 588 |
| `SessionBuild` | `FigureExcludesOverlaps`, `OverlapsAreReal`, `SessionsHonourThePin`, `UnreadyIsExplained`: Two engines build at once with nothing serializing them, on auto or on an explicit provider, with failures and panics: are attribution, the pin and the reported outcome right in every interleaving? | 2 loads on two engines, two providers | 175 055 |
| `RequestShapes` | `EveryTextItsOwnRow`, `AccountingIsTrue`, `FirstRunsAreAbsorbed`, `EveryDocumentItsScore`: Every request of up to three texts over both engines and the counter, pinned and not, with mis-shaped first runs: each text gets its own row and score, the accounting tells what the model saw, and first runs are absorbed. | up to 3 texts, 3 caps, batches 1 to 3 | 486 372 |
| `SidecarService` | `IdleOnceAnswered`, `OnlyTheNamedLeave`, `IdleCardIsGivenBack`: Two passes, an unload and the idle unloader over both engines, with hang-ups, panics and native calls that never return: /health says idle once the calls are answered, a drain takes what it names, and an idle card is given back. | 2 passes, 1 unload, the idle unloader | 749 296 |
| `Startup` | `SameSizeIsWhole`, `CountsFromTheFirstStart`, `SeedingRepairs`: Two sidecars that start, seed one model cache, are killed and start again, with an error of the file system: a file of the right size is whole, a seeding repairs what earlier starts cut short, and the tokenizer is read after it. | 2 sidecars, 2 files of 2 blocks, 3 starts | 465 582 |
| `DayLogs` | `NothingIsFiledEarly`, `RecentLinesStay`, `CalendarAgrees`: Two runs that log over a leap day with a clock that may be set back, refused files and folders, and retention at every start: lines are filed on or after their day and stay for the window, and the date arithmetic is the calendar's. | 2 runs, 3 days, 2 refusals | 603 761 |
| `ScratchSweep` | `LiveScratchIsClaimed`, `OnlyTheCondemnedIsRemoved`, `UndisturbedSweepCollects`: Three test runs over one temp root, killed at any step, with pids reused and up to two file system errors or folders of strangers: no sweep takes a live run's scratch, and what the dead left is collected. | 3 runs, 1 name, 3 pids, 2 mishaps | 762 547 |
| `HealthProbe` | `WedgeIsReported`, `ReadyBuildsAreCounted`, `QuietRepliesAgree`: What a /health or /models reply can be trusted for, though each field is read at another moment while both engines build, run, hang, panic, drain and heal: a hung engine is reported, a named provider has a counted build, and a reply nothing moved under describes one state that makes sense. | 2 engines, 2 caps, 2 builds, 2 tears | 5 695 621 |
| `RerankRunsItsOwnProgram` | `RerankRunsItsOwnProgram`: A first rerank pass that errs before its launch gives up the cache path and keeps the session, which then launches under another engine's path. | as CompileCache, until the violation | (expected violation) |

`EmbedEngine` also checks the refinement (`ImplementsService`).
`EmbedEngineBurst` and `SidecarService` check liveness. `CHECK_DEADLOCK FALSE`
stands where the system stops by construction: the burst ends, the loads, starts
and runs are used up.

Three more configurations check type invariants alone and pass: `ProbeTypes`
(`HealthProbe`), `ScratchTypes` and `ShapesTypes`: each checks the inductive
invariant its module is proved from as well. Every module's type invariant is a
theorem.

### Bounds

* `EmbedEngine`: three caps on a two-rung cache is the smallest instance where a
  build evicts one of several rungs and a promotion changes which one; two
  passes are needed for a query to queue behind a doc, and a drain for the
  commitment to lose its rung. `MaxTeardowns` bounds the teardown threads alive
  at once, which nothing reads. Calls recur for ever.
  `MaxRivals` = 1 rerank build at a time may hold the cache path, and another
  follows once it is free.
* `EmbedEngineBurst`: every thread serves one call, so that a hang of one
  thread leaves the others to be answered, beside one rerank build that takes the
  path at any moment and may hang with it.
* `WedgeGate`: two engines, so that a full unload waits for both in turn, behind
  two passes on either. Ages stop at `MaxAge` and waits at `MaxWait`, past which
  each comparison in the code has been decided. Running 3, building 4 and
  unloads 2 differ and each is reached; the exit and the contended reading are both
  on. The exit is as late after the verdict as the watchdog's period: any earlier
  and it would come before an announcement that is overdue, and hide it.
* `CompileCache`: two embed rungs share the tree with the reranker's slice, and
  `MaxCrashes` = 2 allows a crash while the damage of the last is being healed.
* `SessionBuild`: `MaxBuilds` = 2 loads; under `auto` each has two candidates,
  so up to four windows open. A build allocates 0 or 1.
* `SidecarService`: two passes meet on one engine or use both, one unload and
  the idle unloader drain around them; a threshold of two checks lets a touch
  fall before, between and after the checks that count.
* `RequestShapes`: three texts and batches of 1 to 3 give layouts of one, two and
  three chunks, with and without filler, and the unpinned one; a text is short of
  the caps or longer than some of them; `MaxBad` = 2 mis-shaped runs is one fewer
  than `SETTLE_ATTEMPTS`, the number the retry is meant to absorb.
* `Startup`: two sidecars, two files of two blocks, three starts and one error:
  enough for a copy cut at every block, its repair, and two copiers at once.
* `DayLogs`: two runs over 27 to 29 February 2024 with a window of one day, two
  refusals or corrections, and names that are days, impossible days and none.
  `CalendarAgrees` walks every day from 1970 past 2100 once.
* `ScratchSweep`: one name is enough for two sweeps and a squatter to meet over,
  and random names are never drawn twice; three runs are a dead one and two that
  sweep. `MaxMishaps` = 2, so that taking a claim back from beside a squatter's
  folder may fail as well.
* `HealthProbe`: two caps on a one-rung cache evict; two builds; `MaxTears` = 2
  moves or collisions within a reply, so any two facts of it may disagree.

### Fairness

`EmbedEngineBurst` assumes weak fairness of each thread's own steps (started
native code returns unless it hangs, and the operating system schedules every
thread), of the refusal of a waiter behind a holder that will never move, hung or
stranded (its stamp passes the ceiling), of teardown threads, and of a rerank
build that gives the path back (`RivalGives`). Arrivals, errors, panics, hangs and
rivals that take the path are not fair. The fairness of a build at `claiming`
gives it the path only while the path is there: behind a hung rerank build
`Commit` is never enabled again, and `EveryCallIsAnswered` names that exception
(`Stranded`) beside the caller whose own native call hangs. Everybody *behind* a
stranded build is answered, which is the part of hazard `compile_cache.rs:213` the
code does guard against. The lock of the path is not fair either; the burst has
at most `MaxRivals` rerank builds, so the embed build does not lose it for ever.
`try_lock` polling queues nobody, so strong fairness of the lock would be
unjustified; that is why the property is about one burst: under unbounded
arrivals a waiter may lose every race.

`SidecarService` assumes weak fairness of the steps of passes, unloads and of
the idle unloader, for the same reasons: threads run, and a timer fires.
Arrivals and hangs are not fair. `IdleCardIsGivenBack` therefore speaks of
behaviours in which both locks are free in the end. That a hang of one engine
does not keep the other from being given back is not claimed, and not so: a hung
engine keeps its stamp, and the idle unloader counts the sidecar as busy.

## What the code does otherwise than it says

Listed as a finding, with a run that exhibits it:
`RerankRunsItsOwnProgram`. `compile_cache.rs:182` says the lease is held across
the build and that engine's first pass; `rerank_blocking` files the session
first, and a first pass that errs before its launch gives the path up and keeps
the session, which then launches under another engine's path.

The following sentences of the repository are refuted in the same way; each has
a configuration of its own, to be run on the MC module named.

| Configuration | MC module | The sentence, and what happens |
|---|---|---|
| `CommitmentNamesALiveRung` | `MCEmbedEngine` | the commitment is a resident rung or one being built (`state.rs:58`): a panicking build leaves its cap committed until the next pass |
| `ReportedBatchWasRun` | `MCEmbedEngine` | the batch the last embed actually ran at (`state.rs:74`): a refused request's batch is reported |
| `QueryNeverEvicts` | `MCEmbedEngine` | a query never moves the cap (`inference.rs:185`): one that queued evicts the rung that came after its decision |
| `HealthyHolderIsWaitedFor` | `MCWedgeGate` | a healthy holder is waited for (`inference.rs:587`): a waiter that meets a gap in the stamp answers "wedged" |
| `OneAnnouncementPerWedge` | `MCWedgeGate` | one announcement per wedge (`wedge.rs:257`): a lost reading re-arms the watchdog |
| `WedgeIsNeverMissed` | `MCHealthProbe` | `/health` tells a wedge because it reads only the stamps: a collision on the stamp reads as nothing in flight |
| `MeasuredAlone` | `MCSessionBuild` | alone for its whole window (`vram.rs:46`): a build between another's first sample and its counting in is charged to it |
| `IdleEnginesAreDropped` | `MCSidecarService` | engines are dropped after the idle time (`introspection.rs:303`): what a panic condemned counts as not loaded, and stays |
| `NoScoreIsMisaligned` | `MCRequestShapes` | an error rather than a shifted result (`inference.rs:163`): a short first run of the reranker shifts the scores of later documents |
| `ServingMakesNoFolders` | `MCDayLogs` | a process that never restarts makes no new folders (`log_segments.rs:21`): every midnight makes one |
| `SameSizeIsNeverOverwritten` | `MCStartup` | never overwrites a same-size file (`preflight.rs:98`): one whose source could not be measured, or that another start completed meanwhile, is truncated |
| `NothingExistsUnclaimed` | `MCScratchSweep` | nothing ever exists unclaimed (`test_scratch.rs`): two sweeps that meet over a dead run's folder leave it without its claim |

Beside most of them stands what does hold: a query builds only when the
commitment moved after its decision (`QueryBuildsOnlyAfterTheCommitmentMoved`,
proved); silence about a wedge means it was announced (`SilenceMeansTold`); a
wedge is reported unless its own stamp was being read (`WedgeIsReported`); a
figure never holds a build that ran while its own was counted in
(`FigureExcludesOverlaps`); an idle card is given back but for what is condemned
(`IdleCardIsGivenBack`); scores keep their documents when no run was short
(`EveryDocumentItsScore`); a file of the right size is whole unless two starts
crossed on it (`SameSizeIsWhole`).

Two limits of what is shown. `UnreadyIsExplained` holds of the two outcome
records together; a reply that reads them at different moments is not covered. A
serving verdict left from an earlier engine after a rebuild that never loads
violates nothing that is checked: no code withdraws it (hazard `canary.rs:236`).

## Proofs

Every theorem holds for all values of the constants under the one named
assumption of its module, which the code grants: caps, batches and sizes are
positive and so is the watchdog's tick (`Limits::resolve` clamps,
`RungCache::new` takes `capacity.max(1)`, `WEDGE_WATCHDOG_TICK` is a constant;
the operator's ceilings may be nought), a provider's order of candidates is not
empty, and model values that mean "none" are no members of the sets they stand
beside. No assumption is made of how many
threads, engines, runs or files there are.

Each module states an `IInv` next to its properties (`ShapesIInv`, `ScratchIInv`
in two of them); `Inductive`, or `AnswersInductive`, `ShapesInductive` and
`ScratchInductive`, proves it, and the properties follow from it. What the
strengthenings are for:

* `EmbedEngine`. `CommitmentMirrorsResidency` speaks about a free lock, so a
  proof has to know what the *holder* owes at each point of its pass; that is
  `MirrorFollowsHolder`. It needs `LockDiscipline` (one holder, a poisoned lock
  is free, drains do not panic), which also makes `StampFollowsHolder` inductive;
  `SuspectsAwaitHealing` says a suspect rung exists only until the next holder,
  which has to go through `Heal`. The lease needs no invariant: safety holds
  whoever has the path. One lemma per conjunct; the step that files a
  session rests on `InsertProperties`, a lemma about `RungCache`. `Implements` then maps
  every action to a step of `EngineService` or a stutter, with `IInv` as the
  step invariant.
* `WedgeGate`. The announcements are safe because the watchdog looks at a phase
  before it can become a wedge: `OldFlagsFall` and `LookedAtInTime` bound how far
  a phase can age before a round has looked at it, in terms of the time to the
  next round; `EndedInTime` does the same for the exit, whose bound starts at the
  verdict. `WaitsAreAccounted` adds up what a drain waits for one engine after the
  other: what it has spent is what it waits for this one and at most `unload_wait`
  for the one before, which gives `UnloadAnswersInTime`.
* `CompileCache`. `PathStaysWithTheBuild` (the lease) carries the others:
  `RequestsAreOwn` knows what a request under way may want and write,
  `WipedStaysClean` that a wiped slice stays free of its own programs until the
  rebuilt session launches.
* `SessionBuild`. The two-counter argument: `inFlight` is the number of windows
  counted in; `MarksTell` says a window that was alone and sees its marks
  unmoved shares its time only with builds that have not begun; `CompanyIsSeen`
  is the converse.
* `Calendar` and `DayLogs`. `DatesAgree` holds for every natural day, where TLC
  walks to the year 2100: the era arithmetic is taken apart into lemmas about
  division (year of era, day of year, month), then `RoundTrip`
  (`DayOfFolder(Civil(n)) = n`) and `DayAfter` (the next day has the next date,
  leap years and all). `GoneIsOld` and `ListedIsExpired` rest on the round trip;
  `BoundaryFollowsTheFile` gives the filing property.
* `SidecarService`. `HoldersHold` and `StampsAreTheHolders` tie lock, stamp and
  program counter; `DrainsAreNamed` gives the action property about who leaves.
* `Startup`. `GoodSoFar`: a file nobody crossed is good as far as it goes, which
  is as far as its copier has come; `Alone` and `PassedIsWhole` carry the repair
  up to the reading of the tokenizers.
* `HealthProbe`. `StampsAreUnderALock`, `HangsAreStamped`, `MirrorFollowsHolder`,
  `BuildsAreFiled` and `RungsAreVetted` are what the engines keep to.
  `HungFieldsTell`, `ReadyWasFiled` and `QuietFieldsHold` say of each field
  already read what it still means while the engines go on, so that the three
  properties of a complete reply follow without any bound on what moved. An
  engine that was hung cannot move, a filed build stays filed, and a field of a
  reply nothing moved under says what a new reading would say.
* `RequestShapes`. `PassIsLayout` ties what the library was handed to the
  request (`Layout` is a function of the number of texts, the batch and the cap);
  `RowsFollow` says that row `k` is of position `k` of the layout; lemmas about
  the pinned layout say that the positions kept on the way back are those of the
  texts, each once and in order, whatever filler and rulers lie between.
  `RetriesArePaid` counts: every retry used up a bad run of the session, which is
  why `FirstRunsCostNothing` assumes fewer of those than attempts. That is the
  premise of `SETTLE_ATTEMPTS`, and the instance satisfies it; with more bad runs
  the code gives up, and the sentence is false. The scores rest on the ranking
  being a permutation of the rows, which `aligned_scores` undoes by index.
* `ScratchSweep`. Most of `ScratchIInv` says that what a sweep remembers is still
  true or harmless. `AnswersStand` is the pid argument: an answer "gone" that has
  been overtaken by a reused pid concerns runs born after the listing, and no
  listed name is claimed in their name. `VerdictsStand`: a condemned run stays
  gone. `MovesAreOwn` and `TreesAreApart` identify the tree a sweep moved aside
  with the one it judged; `ClaimsAreKept` follows a scratch from its claim to
  its drop. `AloneSeesAll` is the invariant of the three passes of a sweep nobody
  disturbed: whatever was due when it began has been dealt with, or is still
  before it.

| Module | Theorem | What it establishes |
|---|---|---|
| `EmbedEngineProofs` | `Inductive` | The inductive invariant IInv holds in every reachable state, for every number of threads, caps, batches and every capacity. |
| `EmbedEngineProofs` | `TypeCorrect` | Every variable keeps its type; in particular the commitment is a clamped cap or none. |
| `EmbedEngineProofs` | `CapacityHolds` | The cache never exceeds its capacity and never files a cap twice, for every capacity. |
| `EmbedEngineProofs` | `MutualExclusion` | Exactly the owner of the engine lock stands in its critical section. |
| `EmbedEngineProofs` | `MirrorIsExact` | With the lock free and no panic to heal, the commitment equals the most recently used rung. |
| `EmbedEngineProofs` | `CommitmentBacked` | The cap a query would inherit is resident or being built, but for a panic or a drain under way. |
| `EmbedEngineProofs` | `NoPhantom` | A stamp names a phase only while a pass holds the engine. |
| `EmbedEngineProofs` | `StampedNativeCalls` | Native code never runs without its own phase's stamp. |
| `EmbedEngineProofs` | `RungIsFound` | expect("just loaded") never fires: a starting pass finds its rung resident and most recently used. |
| `EmbedEngineProofs` | `SuspectsNeverServe` | No engine that was resident when a panic struck serves a later pass. |
| `EmbedEngineProofs` | `QueryBuilds` | A query builds only when the commitment moved after it settled its cap, or a panic made it stale. |
| `EmbedEngineProofs` | `Implements` | The slot implements EngineService under the refinement mapping of EmbedEngine: every step is one of the service's or a stutter. |
| `WedgeGateProofs` | `Inductive` | The inductive invariant IInv holds in every reachable state, for any ceilings, patience and exit setting, nought included, and numbers of callers. |
| `WedgeGateProofs` | `TypeCorrect` | Every variable keeps its type. |
| `WedgeGateProofs` | `NobodySleepsBehindAWedge` | No waiter goes to sleep behind a holder its stamp shows to be past the ceiling. |
| `WedgeGateProofs` | `UnloadsAnswerInTime` | A drain waits unload_wait at most for each engine it was asked for, over both in turn, whatever their holders do and however the watchdog, restarts and other callers interleave; for any settings, nought included. |
| `WedgeGateProofs` | `SilenceIsAfterTelling` | The watchdog is silent about a wedge only when it has announced that very hold. |
| `WedgeGateProofs` | `WedgesReachTheLog` | A hold past its ceiling for a whole watchdog period has been announced. |
| `WedgeGateProofs` | `WedgesEndTheProcess` | With WEDGE_EXIT no phase whose stamp could be read outlives its ceiling and exit_after_wedged by more than one watchdog period. |
| `CompileCacheProofs` | `Inductive` | The inductive invariant IInv holds in every reachable state, for every set of shapes and any number of crashes. |
| `CompileCacheProofs` | `TypeCorrect` | Every variable keeps its type. |
| `CompileCacheProofs` | `OnlyVerifiedRungs` | A resident embedding rung runs its own sound program. |
| `CompileCacheProofs` | `OwnSlicesOnly` | An embedding session that launches has the cache path at its own slice. |
| `CompileCacheProofs` | `PathStays` | The cache path stays where a build put it until the build gives it up. |
| `CompileCacheProofs` | `RebuildsStartClean` | A rebuild after a wipe that succeeded finds no program of the failed engine. |
| `SessionBuildProofs` | `Inductive` | The inductive invariant IInv, with the counting argument of the two atomics, holds in every reachable state. |
| `SessionBuildProofs` | `TypeCorrect` | Every variable keeps its type. |
| `SessionBuildProofs` | `FiguresExcludeOverlaps` | A published figure holds no allocation of a build that ran while its own was counted in. |
| `SessionBuildProofs` | `DiscardedOverlapsAreReal` | A sample discarded as overlapped really met another build. |
| `SessionBuildProofs` | `PinIsHonoured` | Every session resident runs on a provider the pin allows. |
| `SessionBuildProofs` | `FailuresAreExplained` | With no active provider after a failed load there is an error to show. |
| `DayLogsProofs` | `Inductive` | The inductive invariant IInv holds in every reachable state, for any runs, window and span of days. |
| `DayLogsProofs` | `TypeCorrect` | Every variable keeps its type. |
| `DayLogsProofs` | `NothingEarly` | No line is filed under a day before the one it was written on. |
| `DayLogsProofs` | `RecentLines` | No line of a day inside the window goes with a folder that retention removes. |
| `DayLogsProofs` | `Strangers` | A name under the log root that is not a day is never removed. |
| `DayLogsProofs` | `OnlyForward` | A segment's boundary, and the day of its file, only move forward, whatever the clock does. |
| `SidecarServiceProofs` | `Inductive` | The inductive invariant IInv holds in every reachable state, for any passes and unloads. |
| `SidecarServiceProofs` | `TypeCorrect` | Every variable keeps its type. |
| `SidecarServiceProofs` | `StampedUnderTheLock` | An in-flight record belongs to the pass that holds the engine, so a drain never finds one. |
| `SidecarServiceProofs` | `IdleAfterTheLast` | Once every pass is answered, and nobody hung up, the sidecar reports itself idle. |
| `SidecarServiceProofs` | `NamedOnly` | An engine leaves its slot under a drain that asked for it or by a panic's healing. |
| `SidecarServiceProofs` | `TrueHandovers` | An unload that answers "not loaded" about an engine tells the truth, but for a condemned one. |
| `StartupProofs` | `Inductive` | The inductive invariant IInv holds in every reachable state, for any sidecars, files and sizes. |
| `StartupProofs` | `TypeCorrect` | Every variable keeps its type. |
| `StartupProofs` | `SizeTellsWhole` | A cached file of the right size is whole, wherever a copy was cut, unless two starts copied it at once. |
| `StartupProofs` | `ServersCount` | A sidecar that serves after an undisturbed seeding has its tokenizer. |
| `StartupProofs` | `SeedingIsRepair` | An undisturbed seeding ends with every file whole. |
| `StartupProofs` | `WholeFilesAreKept` | A whole file stays whole but for a failed measurement or two copies at once. |
| `AnswersProofs` | `WedgesAreReported` | A complete reply of /health calls every engine wedged, and loaded, that was hung past its ceiling when it was asked, but for a reader inside the stamp at that moment; for any caps, capacity and number of moves while the reply was read. |
| `AnswersProofs` | `ReadyCounts` | A reply that names an active provider never says that no session was built, however torn it is. |
| `AnswersProofs` | `QuietReplies` | A reply nothing moved under is one state of the engines that makes sense, for /health and /models alike. |
| `AnswersProofs` | `EveryTextHasItsRow` | Every text of an answered embed request has its own row, through pinning, batches, mis-shaped runs and retries, for any texts, caps and batches. |
| `AnswersProofs` | `AccountingHolds` | Truncation is reported of exactly the texts of which the model saw a prefix, for any texts, caps and batches. |
| `AnswersProofs` | `FirstRunsCostNothing` | With fewer bad runs in a session than embed_settling allows, a pinned request whose texts can be encoded never ends in an error. |
| `AnswersProofs` | `EveryDocumentHasItsScore` | The scores come back in the order of the documents, each its own document's, when no run came back short. |
| `DayLogsProofs` | `DatesAgree` | Every date leads back to its own day and the next day has the next date of the Gregorian calendar, for every day since the epoch. |
| `DayLogsProofs` | `LiveScratches` | A scratch of a live run carries that run's claim, whatever sweeps, kills, reused pids and strangers do beside it. |
| `DayLogsProofs` | `OnlyCondemned` | A quarantined tree that leaves the disk is back under its name, or is the one its mover judged and its run is dead; for any runs, names and pids. |
| `DayLogsProofs` | `SweepCollects` | A sweep nobody disturbed leaves nothing that was old and abandoned when it began, on any set of names and runs. |

Every safety invariant and every action property the passing runs check is one of these
theorems, and so is the refinement `ImplementsService`. Only model-checked:
liveness (`EveryCallIsAnswered`, `IdleCardIsGivenBack`), which is out of the
prover's reach. That the theorems do not hold for want of behaviours is what the
runs and their mutants are for: TLC reaches every action, and each property
fails under a plausible change to the code it is about.

## Not modelled

* Adapter resolution: a mapping over DXGI and `rocminfo`, without state.
* Provenance hashing, `CompileWatch`'s size report, log wording, JSON shapes,
  constant fields of `/health` and the tokenizer rows of `/models`: they decide
  nothing.
* The cosine of the canary and the contents of its reference vector: the check
  appears as its verdict.
* Batches that change on a resident rung (the restriction named under
  `CompileCache`), and more than one request at a time in `RequestShapes`.
* Nested seed directories, and the parsing of each environment variable.
* In `ScratchSweep`, foreign owners and legacy names, which the sweep only
  lists, and the Windows calls.
* The vendored models the sidecar never loads (qwen3, nomic, text and image
  embedding). ONNX Runtime, the execution providers, the file system's copy and
  the operating system are external: they appear as the nondeterminism they
  show the code.
* Recipes, test helpers, request examples and scripts hold no state of the
  service.
