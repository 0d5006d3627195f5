# hhemt: a verification project

TLA+ models, TLC runs and TLAPS proofs for the control protocols of `hhemt`
(`src/src/hhemt`), the Python toolkit that runs ensembles of coupled TRITON-SWMM flood
simulations through generated Snakefiles, on one machine or on a SLURM cluster.

The toolkit is some 144 000 lines, most of it numerical conversion, rendering and
configuration. What is hard to test in it is small and concentrated: processes that share
nothing but a directory of small JSON files (the driver, the SLURM workers, the wait rules, a
second driver on another login node), any of which may be killed at any time, and each of
which must decide from those files and from what `sacct`, `squeue`, `ps` and `tmux` answer
whether work is being done, was done, or has to be done again. A wrong answer costs a second
multi-hour GPU job, two writers in one output directory, a deleted result, or a workflow that
waits for a job that died. That is what is modelled here.

Paths below are relative to `src/src/hhemt`.

## 1. Inventory

### The system's parts

| part | code | state it keeps | operations | what makes it correct |
|---|---|---|---|---|
| Analysis facade | `analysis.py` `run`, `submit_workflow`, `reprocess`, `static_plots`, pruning | driver record of this call | claim, submit, enrich, release, prune | one destructive driver per tree; a failed call leaves nothing that locks the tree |
| Workflow builder | `workflow.py` `SnakemakeWorkflowBuilder` | Snakefile, `_status/` | gate, reconcile, emit rules, launch tmux/sbatch/Snakemake | no simulation submitted twice; no live evidence destroyed |
| Worker | `run_simulation_runner.py` inside a SLURM job | `_submitted`, `_completed`, `_failed`, `c_run` flag, scenario log | hand its token over, simulate, mark, unlink, count attempts | a marker says what happened; an attempt that failed does not latch |
| Wait rule | `wait_for_sentinel_runner.py` | none | poll markers, probe the job | ends with its job; success implies the flag |
| Liveness oracle | `slurm_liveness.py`, `workflow.py:1067` | none | batched sacct, squeue corroboration | never calls a live job dead |
| Driver records | `orchestrator_sentinels.py` | `_status/_orchestrator/*.json` | write, enrich, read, release | a record outlives its driver, not the reverse |
| Processing log | `log.py`, `_filelock_compat.py` | one JSON document per scenario/analysis/system, a lock file beside it | load, assign a field, deferred block, refresh, publish | an assignment is published over what peers wrote, never lost, never a dead peer's lock |
| Resume and attempts | `run_simulation.py`, `resume_events.py`, `gpu_bind_guard.py` | attempt counter, `force_rerun_pending`, checkpoints, terminal artifact | budget, prune, pick, launch, watch, complete | a failing simulation stops, a new era starts from zero, no progress is given up |
| Forced rerun | `analysis.py:5803` `_apply_force_rerun`, `workflow.py:2643`, `status_flags.py` | flags, log entries, the force marker, chapters, `.done` | delete and arm by stage | nothing that a force invalidates lets the next pass skip or reuse it |
| Output processing | `process_simulation.py`, `utils.py`, `process_timeseries_runner.py` | raw files, chapters, `.tmp`/`.aside`/published store, `.done`, log entries, summary, `d_process` flag | export, clear, merge, publish, summarise, reclaim | no timestep lost on its way; a flag certifies a whole result of the last simulation |
| Version migration | `version_migration/` | `_version.json`, its lock, the layout of a tree | infer, migrate, baseline, stamp | the record never claims more than the tree has been through |
| Executors | `execution.py` | thread pool / list of srun processes | serial, local, SLURM | no more than the capacity, all of them, in the end |
| SIF builds | `sif/plan.py`, `driver.py`, `build_runner.py`, `transaction.py` | image, checksum, manifest, sentinels, one Snakefile per image root | plan, reconcile, drive, build, replace | the manifest describes the image beside it; a build that waits or works keeps its sentinel and its spec |
| SLURM history | `slurm_job_recovery.py`, `slurm_store.py` | recovery CSV, store with its `.tmp`/`.aside` siblings, roster of job ids | collect the roster, ask sacct, amend, merge, publish | nothing recorded of an execution is lost to a later answer, or fused with another execution |
| Sensitivity analysis | `sensitivity_analysis.py` | one tree per member | the same protocols per member | as above, under one master driver |
| System, scenario, reports, bundles, EDA, publishing, config, CLI | the rest | files produced by one rule each | file transformations | not a protocol; not modelled |

`PROJECT.json` lists every part with its status and the reason when it is left out, and every
hazard with its line.

### How they interact

```
 operator ── run()/reprocess() ──> gate ── reads/unlinks/writes ──> _status/_orchestrator/*.json
                                    │
                                    v
                                reconcile ── reads/unlinks ──> _queued/ _submitted/ _completed/ _failed/
                                    │                                   ^        ^
                             Snakefile: run rule or wait rule           │        │
                                    │                                   │        │
                        tmux / sbatch / Popen Snakemake ── sbatch ──> worker     │
                                    ├───────────────────── wait rule ── polls, probes
                                    └─ process rule ── reads raw files, writes chapters, store, summary

 a force (run(), reprocess()) ── deletes flags, log entries, chapters, .done; arms the marker
 the worker's attempt          ── model log, checkpoints, run log, terminal artifact ── solver process
 build-sifs, run, ingest       ── plan, Snakefile.sif, Snakemake ── build jobs ──> image, sidecar, manifest
 migrate, baseline, facades    ── _version.json, the tree's stores
 export rule ── sacct ── amends the recovery CSV (its own roster, too), merges into the SLURM store
```

Nothing is locked in this picture: the protocol is carried by the order in which files are
written, listed and unlinked. Every process can die between any two of those steps. Only the
processing log and the version record take a lock, each for one read-modify-write.

### Hard behaviours

* a driver death at any moment, with jobs queued, starting or computing, and a new driver;
* SLURM answers that are silent, late or about an earlier job;
* two reads of a directory around another process's two writes;
* markers and files of an earlier attempt read as statements about the current one;
* age bounds used as the last resort when nothing answers;
* calls of one interpreter that overlap with the detached driver an earlier call has launched;
* a pass that has to tell from the files it finds how far the passes before it came;
* deletions in several layers, each of which lets a later step skip work when it is left behind;
* several short-lived instances of one JSON log over the same path, in one process and in many.

## 2. Modules

| module | models | state ↔ code |
|---|---|---|
| `SingleFlight` | what the guards promise: a resource is worked on by one holder at a time | abstract |
| `Inflight` | the in-flight submission protocol of a `batch_job` run | `queued`, `submitted`, `completed`, `failed`, `flag`, `log` are files; `subOld`, `qOld` say whether a file's age has passed the bound it is compared with; `pc[j]` is a worker's place in `run_simulation_runner.main`; `dpc`, `seen`, `jid`, `pending`, `alive` are the reconcile's program counter and locals; `plan`, `rule`, `mine`, `waitJob` are the Snakemake process |
| `DriverGate` | the orchestrator-liveness gate | `record`, `old` are the driver records; `todo`, `refused` are the gate's locals; `kind`, `host`, `alloc` are fields of the record that never change; `pc` is where the call, or the driver it launched, is |
| `FieldStore` | what the processing log promises: a write publishes what its client set and nothing else | abstract |
| `RunLog` | `TRITONSWMM_log`: load, assign, deferred block, locked read-merge-replace, quarantine, refresh | `there`, `doc`, `stamp` are the file; `mem`, `base`, `bstamp` an instance's fields, `_baseline` and the baseline's `last_writer`; `block`, `owed` are `_defer_depth > 0` and `_write_pending`; `lock` is the lock file; `found`, `disk`, `dstamp` are `write()`'s locals; `procOf` is the process an instance lives in, any of the constant `Placements`; `lost`, `overtaken`, `dirty` are history |
| `Migration` | the version record, its lock and detection ladder, `migrate`, `baseline`, stamps, five migrations, and the run or reprocess that the record lets in | `record`, `lock` are `_version.json` and its lock; `tree` is what they rewrite: old entries of `sims/` and those that V0001 skips (`legacy`, `skips`), flat stores (`flat`), the consolidated and the experiment store (`ana`, `exp`), the raw EDA store and its copy (`raw`, `tmp`); `pc[p]`, `job[p]` are a command's place and locals; `spoilt` is history |
| `RunAttempt` | the attempts at one simulation and the force that restarts it | `log` is the model log's `done`, `force`, `fails`, `resumes`; `ckpt`, `torn`, `bare` the checkpoint files; `marker`, `art` the run log's last line and the terminal artifact; `sol`, `pos` the solver process; `op` the force at work; `hist` is history |
| `SifBuild` | image builds: plan, reconciliation, driver, build job and transaction | `drv[d]` a command's place and locals, `left`, `about`, `seen` those of its reconciliation; `job[d][k]` what its Snakemake runs; `spec` the identities with a `_build/{key}/spec.json`; `queued`, `submitted` the sentinels; `image`, `sidecar`, `manifest`, `staged` the files of an identity; `lock` Snakemake's; `spoilt`, `accidents` are history and bound |
| `SimOutputs` | a scenario's output from raw files to summary, and the forces that delete parts of it | `raw`, `dirs` the solver's files; `chap` the flagged chapters; `tmp`, `aside`, `final` the stores of a publication; `done` the `.done` flag; `log`, `summary`, `runFlag`, `procFlag`, `owed` as named; `pc` the place of the pass, `force` that of the force; `cut`, `forfeited` are history |
| `JobHistory` | the capture of SLURM's accounting | `acct`, `known` are sacct's view and the jobs that logs and reports name; `csv` the recovery CSV; `final`, `tmp`, `aside` the store and its siblings; `answer`, `merged` locals of `backfill` and `write_store`; `pc` the place of the capture; `hit` is history |
| `MC*` | model values and symmetry for TLC | |
| `*Proofs` | theorems about the module they extend | |

Each directory read, each directory write and each probe is an action of its own, because that
is where another process can come in between; code that only computes on locals is folded into
the action that follows its last read. SLURM, tmux, ps and Snakemake are external: they are
modelled from what the code relies on, as nondeterministic answers with one restriction each.

* `sacct` may return no row, and may still show a finished job as running; it never shows a
  live job in one of `_SACCT_DEAD_STATES`. Silence never reclaims by itself (`Reclaimable`).
* `squeue`, when it can be asked at all, lists exactly the jobs in SLURM.
* `tmux has-session` and `ps -p` are right on the host they run on; a pid may be reused, so a
  dead process may look alive and never the reverse.
* A killed process runs no more Python: a walltime kill takes solver and runner alike, an
  exception runs `finally` clauses and the deferred log write.
* The solver writes checkpoints in order and its terminal artifact last; a checkpoint may be
  found half written.
* `sacct -D` reports an execution not at all, as it is, emptier, or not yet settled; never with
  another execution's submission time. A requeue ends one execution before it starts the next.
* Snakemake submits a run rule once per attempt, removes a failed rule's output, and prints
  each submission into its tmux log after the sbatch, not with it.

### Named faults

The protocols do not survive everything, and the code does not claim they do. `Inflight`,
`DriverGate` and `RunLog` have a `FaultKinds` set; a run's `Faults` names those its environment
shows. Their safety runs have `Faults = {}`, which restricts only the environment's guards named
here; the run and the theorems of `RunLog` admit `lock_left` and `wiped` as well. A theorem excludes
the faults its property does not survive and no other: TLC finds each fault of `Inflight` alone
enough to break each of `AtMostOnce`, `WaitSuccessHasFlag` and `SuccessIsMarked`, and each one of
`DriverGate` enough to break `OneDriver`. `ReconcileKeepsEvidence` is proved with all but `old_queue`,
where `handoff` and the three `die_*` do not come together (`Bearable`); `LiveRecordKept` with
`two_gates` (`RecordFaults`). The other modules show their faults in every run and say in a history
variable which of them a behaviour has met (below):

| fault | meaning | why it is excluded from the safe run |
|---|---|---|
| `handoff` | a worker starts while a reconcile is between its directory reads | the reconcile finds it in neither list and submits it again (§6) |
| `die_launching` | the driver dies before any file names its job | there is nothing on disk the code could read |
| `die_pending`, `die_working` | the driver dies while a live job of it is not witnessed on disk | run `inflight_retried` shows why (a finding); a marker of an earlier attempt misleads the sweep alike (§6) |
| `slow_exit` | a token is submitted again while its previous worker is between its flag and its exit | a fraction of a second before the process ends; the operator would have to force a rerun in it |
| `old_queue` | a `_queued` file ages out while its job waits | the bound is configuration (36 h by default) |
| `two_gates` | two gates overlap between scan and claim | the claim is written after the directory has been read and nothing joins the two steps (`workflow.py:8286` calls them one): with this fault `OneDriver` fails with two drivers |
| `detach_exit` | the launcher of a detached reprocess exits first | the record's pid is dead while its Snakemake drives (§6) |
| `long_driver`, `shared_alloc` | a driver older than the cap; two hosts of one allocation | the code has no heartbeat and no host check in that branch (§6) |
| `lost_enrich` | an allocation ends before the sbatch job submitted in it is on record | no file names the job |
| `wrong_override` | the operator overrides a live driver | it is the operator's assertion |
| `set_back` | a field is assigned the value its instance loaded while the document holds another | taken for no change by the comparison with the baseline (§6) |
| `torn_recovery` | a writer dies or fails between moving a damaged document away and replacing it | nothing but the moved file says that a document was lost: with this fault `RecoveryRecorded` fails |
| `lock_left` | the lock is a `SoftFileLock` and its holder dies | admitted by `runlog_safe` and by the proofs |
| `wiped` | the log is deleted under a live instance | the code cannot tell it from a new log; admitted by `runlog_safe` and by the proofs |

What the histories of the other modules record, and their properties except:

| module | record | meaning |
|---|---|---|
| `Migration` | `interrupted` | a process died inside an operation that is not resumed: run `migration_rerun`, a finding |
| | `overlap` | a `migrate --apply` at the same time as another, as a run that the record has let in, or as the write of a `baseline`; nothing excludes any of them |
| | `misstated` | a `baseline` of a version that is not the tree's: a wrong one, or one that a `migrate` has overtaken (§6) |
| `RunAttempt` | `gpu_refusal` | a step bound short: run `attempt_gpu`, a finding |
| | `overlap` | a force while an attempt runs (the worker of a dead driver) |
| | `slow_consume`, `lost_consume` | the solver checkpoints before the force is cleared; the write that clears it raises |
| | `unopened` | a solver that died before it had reopened its report |
| | `missed` | failures whose count could not be written (`uncounted`); not an exception: each of them costs the budget one launch, and `BudgetKept` says no more than one (§6) |
| `SifBuild` | `spoilt[d]` | identities whose sentinel, spec, record or rule a command has lost to another one, or whose image was lost |
| `SimOutputs` | `cut` | the driver died between a force's deletions |
| | `forfeited` | processing was forced when raw files had been cleared |
| `JobHistory` | `torn` | the capture died while it wrote the CSV in place |
| | `unread` | the capture could not read the CSV and replaced it by its answer (§6); `OneFailureLosesNothing` makes no exception of it |
| | `gap` | the capture died between the two renames of a publication (§6) |

So "the safe run passes" reads: whatever workers, SLURM, kills, refusals, retries and driver
deaths do, short of these, the invariant holds.

## 3. Runs

All runs finish well within five minutes with two workers. The type invariant is checked by
`inflight_safe` and `history_safe`; in every module it is proved (`TypeCorrect`).

| run | instance | shows |
|---|---|---|
| `inflight_safe` | 1 token, 3 jobs | at most one job per simulation, evidence kept, markers truthful; refinement of `SingleFlight`; a wait rule with a job id ends once that job is gone |
| `inflight_retried` | 1 token, 3 jobs | counterexample to a comment of the code (finding) |
| `drivergate_safe` | 2 drivers, 2 hosts, 1 allocation, every mode | one driver, no live record taken, refinement of `SingleFlight`; a repeated call gets through unless a dead driver is shown as alive for ever |
| `drivergate_pid` | 2 drivers on one host | counterexample to a comment of the code: a reused pid holds the gate whatever the record's age (finding) |
| `runlog_safe` | 2 instances in one process or in two, 1 field with 2 values and the recovery record, 1 damage, soft locks left behind, deletions | refinement of `FieldStore`, recoveries recorded, another writer reported only when there is one; an assignment returns or raises |
| `migration_safe` | 2 processes, 2 legacy entries, trees of 3 versions with skipped entries and produced stores, all five migrations, deaths, damaged records | the record and the ladder claim no more than the tree has been through, the history is a chain |
| `migration_rerun` | 1 process | counterexample: a rerun does not complete an interrupted demotion (finding) |
| `attempt_safe` | 3 steps; the three models, budgets 0 to 3, with and without resuming, a schedule of two interruptions, every fault with the models it concerns, 1 uncounted failure more than the budget's | budget, freshness, progress, boundaries; a simulation comes to rest |
| `attempt_gpu` | triton, budget 2, refused GPUs | counterexample: the budget is never spent (finding) |
| `sif_safe` | 2 commands, 2 identities, 2 digests, 1 accident | truthful manifests, guarded builds that keep their specs, success means built |
| `output_safe` | 3 timesteps, the 8 configurations, 2 faults, 2 forces of either floor | no timestep lost, `.done` and the published path certify whole series, fresh summaries, every simulation processed in the end |
| `history_safe` | 1 job requeued once, 1 fault, any sequence of answers | a CSV that could be read and the store lose nothing, no single failure loses a record from both, executions stay apart, the store is not ahead of the CSV; what sacct retains is recorded in the end |

Why these bounds are enough to be interesting:

* Tokens do not interact except through `sacct` rows shared by two files carrying the same job
  id, and the code treats such a row as inconclusive (`Conclusive`); the proofs are for any
  number of tokens. Three jobs allow an attempt, its retry and the duplicate that must not be.
  Driver deaths, reconciles, prunings and forced reruns are unbounded: job ids are the only
  counter (`Job` is the bound on submissions). SLURM never gives an id twice, so the constraint
  `InOrder` follows only the behaviours that submit them in order.
* Two drivers meet as gate and live driver, as two gates, and as refused caller and ended driver;
  a driver that ended is invoked again, so that a third comes while the first record is still
  there; two hosts and one allocation reach every branch of the classification. The theorems are
  for any number.
* A `migrate` that died starts again as often as it likes; two processes are what a race over the record
  takes, one of them a run or a reprocess. Two entries let V0001 skip one and rename the other. Trees
  start at a version before, between and after the five (`Starts`), `baseline` restates two of the
  others, which the tree passes through or not (`Restated`). Once a tree is spoilt only the history is
  of interest: the constraint `Bound` goes on with those that have no content, spoilt in one way.
* Three reporting steps give a checkpoint below, at and above the one resumed from, and a schedule
  of two boundaries; attempts, kills and forces are unbounded, counters saturate
  at the budget. `MaxMissed` bounds the launches of an era that may go uncounted.
* Two commands with a plan of one identity each meet over the same identity, over two, and over the
  Snakefile; one accident (`MaxAccidents`) kills a build, its command or an image, and what follows is
  the retry, the sweep or the next command. One command reconciles at a time (`OneReconciles`), with the
  other anywhere else; the theorems have neither bound. `Digest` tells a rebuilt image from the one
  before.
* Three timesteps make chapter sets of one, two and three chapters, so that a pass dies with some
  flagged, some cleared and one half cleared; two faults are a death and one of the recovery after
  it, two forces one cut short and its repetition (`MaxFaults`, `MaxForces`).
* Jobs do not interact in the history but through the roster, which is per job id; two executions of
  one job (`MaxSubmit`) are what could be fused, captures are unbounded, and one fault (`MaxFaults`)
  is a death and every capture after it. Captures do not overlap: the export rule runs once per
  workflow, and the publisher's guarantee is for one writer (`utils.py:698`).
* Symmetry is used only in runs without liveness properties, over interchangeable processes, commands,
  identities and digests. `CHECK_DEADLOCK FALSE`: every protocol may really stop (the operator does
  nothing, job ids are used up).

### Fairness

* `Inflight!FairSpec`: a started worker goes on to its end (a kill is always possible as well);
  the wait runner's loop keeps turning (`while True` with a sleep, `wait_for_sentinel_runner.py:120`);
  `ProbeDead` strongly fair: sacct is not silent about a dead job for ever. Nothing makes SLURM
  start a job, and nothing makes a driver live. `WaitEndsWithItsJob` is checked without
  faults, as the rest of its run is.
* `DriverGate!FairSpec`: the operator repeats a refused call; a gate runs to its end; records age
  (`AgeOut`). Nothing is assumed of what the probes answer: `OperatorGetsThrough` excepts a probe
  that never stops showing an ended driver as alive (`FalseAlive`), as nothing in the code bounds that
  (run `drivergate_pid`).
* `RunLog!FairSpec`: a writer waiting for the lock gets it or times out (30 s,
  `log.py:317`), and the holder runs on (its section is a handful of system calls).
* `RunAttempt!FairSpec`: the rule is dispatched again while its output is missing, an attempt and
  its solver run on, a force ends or its driver dies. `Settles` is about the time after the last
  kill, force, refusal and uncounted failure.
* `SimOutputs!FairSpec`: Snakemake starts the run and the process rule while their flags are
  missing; a pass and a force run on. Faults are bounded, so they end.
* `JobHistory!FairSpec`: workflows over the analysis go on ending with their export rule, a capture
  runs on, and sacct does not withhold for ever a row that it retains (strong fairness of an answer
  that reports it). `RecordedInTheEnd` says nothing of rows that age out before they are asked for.
* `Migration` and `SifBuild` have no liveness property: an operator starts their commands.

## 4. Proofs

TLAPS checks the theorems for every value of the constants: any number of tokens, jobs,
drivers, hosts, allocations, processes, instances, fields, values, versions, steps, budgets,
schedules, identities, digests, timesteps, faults and forces.

* `InflightProofs`: `TypeCorrect`; `AtMostOnceHolds`, `Implements`, `WaitSuccessIsReal` and
  `SuccessMarked` for `Faults = {}`; `EvidenceIsKept` for `Bearable` faults. The invariant `AtMostOnce`
  is not inductive: it holds because of what is on disk. The strengthening says that a live job of a
  dead or reconciling driver is *witnessed* (its token has no terminal marker, and either `_queued` and
  the tmux log name it or `_submitted` does), that a reconcile which has passed each of its reads still
  carries every witnessed token in `seen`, `pending` or `alive`, that a token planned as a run rule has
  no live job but the driver's own, and that exiting workers and executing ones of a token exclude each
  other. The last is what makes the worker's unlink by name harmless. For the two properties of markers
  it is joined by `MarkInv`: a marker does not say which attempt wrote it, and a forced rerun or a
  reported failure removes the flag of an attempt whose `_completed` stays. So it says where such a
  leftover cannot be: a token that has a wait rule, or that the reconcile may still give one, has no
  `_completed` without its flag (`FreshOK`), because the reconcile drops every token it finds a marker
  for and nobody but a worker with its flag writes `_completed` afterwards. For `_failed` it says whose
  it can be: a worker clears an earlier attempt's before it computes, and a wait rule probes no job but
  the one SLURM still has (`OutcomeOK`, `ProbeOK`). `EvidenceIsKept` has an invariant of its own
  (`EvidenceInv`), as it need not hold that each live job is witnessed, only that the record of one,
  where there is one, is never what the reconcile unlinks: a live worker's file is not old, the id that
  the sweep asks sacct about is the live sentinel's (`JidOK`), and where a worker may start between the
  reads it had no sentinel to be seen (`Unseen`).
* `DriverGateProofs`: `TypeCorrect`; `RecordsAreKept` for any number of overlapping gates
  (`RecordFaults`); `OneDriverHolds` and `Implements` for `Faults = {}`. The invariant is in two
  parts, as the records do not depend on gates excluding each other. `RecordInv` says that a live
  driver has a record and that no verdict reachable from it lets a gate reclaim it; the rest that at
  most one gate is between its scan and its claim, and that it still has to classify, or has been
  refused for, every driver that is live.
* `RunLogProofs`: `TypeCorrect` and `DetectorIsSound`, whatever faults are shown and however the
  instances are placed in processes; `RecoveryIsRecorded` and `Implements` when no faults but
  `lock_left` and `wiped` are shown (`Sheltered`). The strengthening: the critical section belongs to
  the lock's holder; what the holder has read is still the document; before the first publication
  everybody has defaults; comparing memory with the baseline finds exactly the assigned fields (which is
  where a re-baseline on anything but memory breaks, the bug the comment at `log.py:498-500` describes);
  and the record of a recovery is on the document or in the hands of the one process about to write it.
  The detector is about instances: an instance that no other one has overtaken has the document's stamp
  for its baseline's (`StampOK`).
* `MigrationProofs`: `TypeCorrect`, `HistoryHolds`, `RecordHolds`, `LadderHolds`,
  whatever faults are shown. For the history: every record a command carries is a chain as the one
  on disk is, and a write that is not `baseline`'s was decided when there was no record. For the
  record (`Truth`): in a tree that is not spoilt one process applies at a time (`Alone`); the tree is
  one that some version leaves, at least the one recorded (`Shape`, `Near`), or inside the one
  operation the applier is executing (`Halfway`); what a waiting writer will put on disk is true of
  the tree when it gets there (`Pending`); and while a run is at work that the record has let in,
  nobody applies and the record, if it is still there, says the build's own version (`Guests`).
* `RunAttemptProofs`: `TypeCorrect`, `FlagTruthful`, `BudgetKeeps`, `ProgressKeeps`, `BoundariesKept`.
  The strengthening: a solver runs only under its runner and was launched after the last force
  (`SolverOK`); no attempt finds a flag (`ForceOK`); what completion is read from was written by a
  solver of the era whenever the force is no longer pending (`FreshOK`); the era's failed launches are
  in the counter or in `missed`, and none has been made while the force is pending (`BudgetOK`); no
  checkpoint precedes the clearing of the force (`ProgressOK`). Boundaries have `SteadyOK`: while
  attempts end only by the schedule or by completing, each leaves no checkpoint, a completed run, or one
  stopped above its boundary with all snapshots below it, and the next solver is prepared for the last
  checkpoint at or below that boundary and writes no other than the next.
* `SifBuildProofs`: `TypeCorrect`, `ManifestTruthful`, `BuildsGuarded`, `PendingSpecKept`,
  `SuccessTruthful`. The strengthening: a live build is known to a Snakemake that holds its lock
  (`Owned`), the files show how far a transaction has come (`Transactions`), a sentinel precedes
  its submission (`Announced`), what a command has passed in its reconciliation, of an image and
  its record, stays so unless another one spoilt it (`AllSeen`), and while a build waits its spec is
  there and no sweep has found the directory fit to go (`AllKept`). The sweep reads sentinels and age
  in one action and removes the directory in another; what makes it sound is that a command's own
  sentinel or its `planned_keys` cover every identity that it has still to build.
* `SimOutputsProofs`: `TypeCorrect`, `NothingIsLost`, `DoneCertifies`, `PublishedWhole`,
  `FreshResults`. The strengthening follows the order of the code: an entry in the log is only
  there with a `.done` flag, a pass that writes finds none (`PassInv`); a force that has cleared
  the log has left raw files alone, and a simulation that is owed starts from nothing
  (`ForceInv`); a store is set aside only for one that is whole (`PublishInv`); and the data of the
  last simulation is, before `.done`, in raw files and whole chapters of its own and, after it, in
  the store or in a summary that the log records (`DataInv`).
* `JobHistoryProofs`: `TypeCorrect`, `OwnRecordKept`, `CsvNeverReplaced`, `CapturedFirstKept`,
  `StoreNeverReplaced`, `OneFailureSurvived`, whatever faults are shown. A capture that cannot read the
  CSV replaces it, and one that dies writing it cuts it short, so the CSV keeps its rows in every step
  but these, and the store is in the CSV until one of them; that nothing is lost all the same is
  `OneFailureLosesNothing`, which is about both copies. The lemmas `MergeRow` and `AmendRow` say what the
  two merge rules do to one row. The strengthening: every table, on disk or in hand, holds an
  execution's own rows (`OwnOK`); the siblings of the store show where its publication stands
  (`StandOK`), so that a recovery never promotes a half-written one; every table on disk is in the CSV,
  and so is an answer once it has been amended (`BehindOK`); and what a capture is to publish extends
  what is held, unless it has read past a store that was set aside (`ReadOK`). For the two copies:
  before the first failure each capture brings the whole CSV into the store (`AheadOK`), which needs
  that the two merge rules agree on an answer (`MergeAhead`), and one failure marks the history once
  (`CountOK`).

Every safety invariant and action property of the passing runs is proved. Only model-checked are the
six liveness properties (`WaitEndsWithItsJob`, `OperatorGetsThrough`, `EverySetEnds`, `Settles`,
`GetsProcessed`, `RecordedInTheEnd`): liveness under fairness and ENABLED are out of the prover's
reach. So is induction over data (what a recursive definition computes for every input); the modules
proved about use no RECURSIVE operator.

## 5. What is not modelled

`PROJECT.json` names every component. In short: file transformations (scenario preparation, SWMM
series, statistics, datatree consolidation, reports, bundles, EDA) have no protocol of their own.
Of the modelled parts are left out:

* `Inflight`: the `1_job_many_srun_tasks` path of the reconcile, the delete path's recovery from job
  comments, the sensitivity master's per-member loop (each member directory is an instance of the
  same protocol);
* `DriverGate`: records without a hostname;
* `Migration`: the 24 scripts that rewrite in one step and feed no rung of the ladder, the
  sensitivity arm of V0021, the rung by which a member without a record answers with that of its
  primary (`state.py:286`);
* `RunAttempt`: `.failed` snapshots, disposal of interior snapshots, torn interior cfg files,
  ledgers;
* `SifBuild`: the strict check before a run (it only reads), the sweep of aged `.sif.building.*` files
  (nothing reads them), identities that share an image path (§6);
* `SimOutputs`: SWMM series (one write each), the multi-allocation and the mixed-build guard,
  regenerating processed outputs in `reprocess`, a force over a live worker (`RunAttempt` has that
  as `overlap`), Snakemake's own incomplete-output markers;
* `JobHistory`: the columns of the executor plugin's reports, which are joined onto every execution of
  a job id (`slurm_store.py:632`; `OwnRecord` is about sacct's fields only), rule labels, job steps
  (each is a key of its own), the store's encoding and the renderer's view. A row of the CSV that is cut
  in the middle counts as missing.

Time is abstracted to "has the age passed its bound". Executors outside Snakemake, the result cache,
and disk-usage sentinels are listed as not modelled: the first is a thread pool, the others are keyed
files written in one step.

## 6. Known weaknesses without a run

Met while modelling. Each lies outside what the properties above promise, by the exception named.

* *Handoff, stale marker* (`workflow.py:2086`, `8108`): a worker that hands its token over between
  the reconcile's two directory reads is in neither list; a `_completed` marker of an earlier
  attempt lets the marker sweep take a computing worker's sentinel. The poll of a wait rule that
  has read no marker may probe a worker that has just marked itself and left, and fail the rule;
  its retry finds the flag. (`handoff`, `die_working`)
* *Two gates, detached launcher, long drivers, shared allocations* (`workflow.py:8321`, `7690`, `1051`,
  `8599`): see the named faults. A driver killed with SIGKILL leaves its Snakemake child running
  while its recorded pid is dead (`analysis.py:4696`).
* *Set back* (`log.py:457`): assigning the value an instance has loaded is no change, so what a peer
  published meanwhile stays. The second writer that a warning calls "another process" (`log.py:432`) may
  be a second instance of the same one, as `get_log` returns a new instance per call and the baseline is
  the instance's; `DetectorSound` is therefore about instances. Fields that are dictionaries merge as a
  whole (`log.py:153`). A log deleted under a live instance is taken for a new one (`log.py:368`).
* *Migrations*: V0001 is recorded with entries left under their old names, where it does not expect the
  new one or finds it taken (`context.py:203`, `211`); the ladder then stays at its first rung
  (`state.py:268`), so that a tree that loses its record is migrated again from 0: V0003 rebuilds the
  consolidated store beside the experiment store, which the guard at `state.py:284` is meant to
  prevent, and the rename of V0021 finds its destination taken. A reprocess removes stores that flat
  summaries, long stale, are still there to rebuild: with the record lost as well the ladder says 1 and
  V0003 does. A `baseline` that a `migrate` overtakes between its decision and its write records the
  older version. V0004 appends its attributes while the migration is planned, in a dry run as well
  (`V0004__cf_conventions_backfill.py:44`); V0028 removes a store before it renames the rewritten
  copy and never looks for that copy again (`context.py:1073`); two overlapping applies may empty a
  store the other has filled (`context.py:619`); `baseline` cannot replace the unreadable record it
  is recommended for (`runner.py:64`).
* *Attempts*: a coupled or swmm run whose solver dies before it reopens its report is taken to have
  completed by the log and the report of the run before (`run_simulation_runner.py:780`); a torn
  checkpoint may win the picker's vote over line counts (`run_simulation.py:959`), every retry then
  fails until the budget is spent; an attempt that fails before its launch with the force pending is
  counted and reset for ever (`run_simulation_runner.py:133`). A failure whose count cannot be written
  is logged and forgotten (`run_simulation_runner.py:108`), and the simulation is launched once more
  than its budget for each.
* *Image builds*: a command refused by Snakemake's lock unlinks the queued sentinels it wrote over
  another's, and a retry waits in the queue with none (`driver.py:46`); all commands write one
  `Snakefile.sif`, so that a command may run another's rules and end well
  (`snakefile_generator.py:118`); a truncated image is planned as built and loses its manifest
  (`plan.py:105`), and so is an identity whose stem is that of another one: `_refuse_stem_collisions`
  (`snakefile_generator.py:50`) looks at one plan, so two plans take each other's image; a retry that
  waits beyond the cap has no sentinel and may lose its spec to a sweep, which the docstring of the
  sweep excludes for any build that waits (`snakefile_generator.py:20`); so may a build announced
  between a sweep's look at a directory and its removal; an ingest that finds another digest never
  rebuilds (`experiments.py:653`); a killed command blocks its identities until somebody removes its
  sentinels (`plan.py:100`).
* *Output, with `clear_raw`*: a kill after `.done` and before the one deferred log write, or inside the
  deletion of a timestep's four files, leaves what every later pass refuses
  (`process_simulation.py:3408`), although `_already_written` says that "the next runner pass re-writes
  cleanly" (`process_simulation.py:1557`). `GetsProcessed` excepts it as `Stranded`.
* *Output, forces*: a driver that dies between the log's invalidation and the deletion of chapters and
  `.done` (`analysis.py:5905`, `5918`) leaves chapters of the old generation to be published as new
  (`cut`); forcing the process floor under `clear_raw` deletes chapters that are the sole copy of
  their timesteps, or publishes a shorter series (`forfeited`).
* *SLURM history*: `write_store` reads the stored rows before `write_zarr` recovers a store that a death
  has left under its sibling names (`slurm_store.py:534`, `utils.py:722`). After a death between the two
  renames the next capture therefore merges over an empty store and replaces the recovered one: the rows
  that sacct has purged since are lost from it, where `merge_rows` says that "a key in `stored` and
  absent from `incoming` is RETAINED" (`slurm_store.py:280`). TLC finds this at once when `StoreAmends`
  is stated without its exception (`gap`); the CSV still has the rows, but nothing reads them back, as
  `backfill` passes its own answer (`slurm_job_recovery.py:498`). A capture that fails to read the CSV
  goes on with an empty one and writes its own answer over it (`slurm_job_recovery.py:394`, `429`),
  where the comment says "AMEND, never replace" (`372`): what sacct has purged remains in the store
  alone (`unread`). The CSV has no rule of terminality: a fresher, unsettled read takes a settled State
  back (`slurm_job_recovery.py:401`), and a death inside its `write_text` leaves a short file that reads
  as a whole one (`torn`).

## 7. Plan

Done: `SingleFlight`, `Inflight`, `DriverGate`, `FieldStore`, `RunLog`, `Migration`, `RunAttempt`,
`SifBuild`, `SimOutputs`, `JobHistory`, each with its runs and, but for the two abstract ones, its proofs.

Left, in this order:

1. Composition: `DriverGate` admitting the drivers whose reconciles `Inflight` models, and `RunAttempt`
   as the worker between its handover and its marker.
2. An abstract specification of the output pipeline (a result is absent, or whole and of the last
   simulation), refined by `SimOutputs`.
3. `reprocess` over processed outputs (`_delete_processed_outputs_for_reprocess`) as a third kind of
   force in `SimOutputs`.
4. Executors (`execution.py`): the thread pool and the SLURM capacity loop.
