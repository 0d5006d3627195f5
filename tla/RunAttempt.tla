----------------------------- MODULE RunAttempt -----------------------------
(***************************************************************************)
(* The attempts at one simulation (run_simulation_runner.main): what each  *)
(* reads of the model log and of the files the solver left, in which order *)
(* it writes them, and the forced rerun (Analysis._apply_force_rerun) that *)
(* starts it again from zero.                                              *)
(*                                                                         *)
(* Attempts of a simulation follow one another (module Inflight); Snakemake*)
(* starts one whenever the completion flag is missing, as often as it      *)
(* likes.  The solver is a process of its own.  A walltime kill takes both *)
(* at any moment, and no Python runs after it.                             *)
(***************************************************************************)
EXTENDS Integers, Sequences

CONSTANTS
  Configs,   \* the configurations a simulation may have, see Config
  Steps,     \* reporting steps of a simulation; the solver checkpoints at each
  MaxMissed  \* bound on the launches of an era whose failure goes uncounted

(***************************************************************************)
(*   gpu_refusal   SLURM binds a GPU step short; its guard or the watchdog *)
(*                 ends the solver                                         *)
(*   overlap       a forced rerun comes while an attempt is running        *)
(*   slow_consume  the solver checkpoints before its runner has cleared    *)
(*                 force_rerun_pending                                     *)
(*   lost_consume  the write that clears it raises                         *)
(*   uncounted     the write of the failure counter raises, which is logged*)
(*                 and swallowed                                           *)
(***************************************************************************)
FaultKinds == {"gpu_refusal", "overlap", "slow_consume", "lost_consume", "uncounted"}

Models == {"triton", "tritonswmm", "swmm"}

(* budget is hpc_consecutive_failure_budget_simulate, schedule is          *)
(* resume_interruption_schedule (<<>> for None), faults what the           *)
(* environment of the simulation may do.                                   *)
Config == [model: Models, budget: Nat, pickup: BOOLEAN, schedule: Seq(Nat \ {0}),
           faults: SUBSET FaultKinds]

ASSUME RunAttemptAssumption ==
  /\ Steps \in Nat \ {0} /\ MaxMissed \in Nat
  /\ Configs \subseteq Config

VARIABLES
  cfg,      \* the configuration, never changed
  pc,       \* where the attempt is
  sol,      \* the solver process
  pos,      \* the reporting step the attempt starts at, then the solver's
  log,      \* the model log: fields done, force, fails, resumes
  ckpt,     \* complete config_N.cfg files, N in 1..ckpt
  torn,     \* what there is of config_{ckpt+1}.cfg
  bare,     \* checkpoints of a coupled run whose SWMM snapshot is not published
  marker,   \* the run log carries "Simulation ends"
  art,      \* the terminal artifact: the rpt, or performance.txt
  verdict,  \* the GPU guard's verdict on this attempt is a failing one
  flag,     \* c_run_*.flag
  op,       \* the forced rerun in progress
  hist      \* history, see Histories
vars == <<cfg, pc, sol, pos, log, ckpt, torn, bare, marker, art, verdict, flag, op, hist>>
files == <<ckpt, torn, bare, marker, art>>

(***************************************************************************)
(* launches  launches that ended in a terminal failure since the simulation*)
(*           last completed or was forced (saturating)                     *)
(* missed    how many of those the failure counter does not have, because  *)
(*           its write raised                                              *)
(* mine      the solver was launched after the last forced rerun           *)
(* fresh     art was finished by such a solver                             *)
(* best      the highest complete checkpoint such solvers have written     *)
(* steady    no attempt has ended but by the schedule or by completing     *)
(* unopened  the last solver launched ended before it had opened its report*)
(* spoils    the faults met                                                *)
(***************************************************************************)
Histories == [launches: Nat, missed: Nat, mine: BOOLEAN, fresh: BOOLEAN, best: 0..Steps,
              steady: BOOLEAN, unopened: BOOLEAN, spoils: SUBSET FaultKinds]

Pc == {"idle", "check", "admitted", "pruned", "ready", "launched", "waiting", "recorded",
       "judging", "flagging"}
Logs == [done: BOOLEAN, force: BOOLEAN, fails: Nat, resumes: Nat]

TypeOK ==
  /\ cfg \in Configs
  /\ pc \in Pc
  /\ sol \in {"none", "starting", "running", "exited"}
  /\ pos \in 0..Steps
  /\ log \in Logs
  /\ ckpt \in 0..Steps
  /\ torn \in {"no", "short", "empty"}
  /\ bare \subseteq 1..Steps
  /\ marker \in BOOLEAN
  /\ art \in {"absent", "partial", "final"}
  /\ verdict \in BOOLEAN
  /\ flag \in BOOLEAN
  /\ op \in {"none", "flags_deleted"}
  /\ hist \in Histories

Init ==
  /\ cfg \in Configs
  /\ pc = "idle" /\ sol = "none" /\ pos = 0
  /\ log = [done |-> FALSE, force |-> FALSE, fails |-> 0, resumes |-> 0]
  /\ ckpt = 0 /\ torn = "no" /\ bare = {}
  /\ marker = FALSE /\ art = "absent"
  /\ verdict = FALSE /\ flag = FALSE /\ op = "none"
  /\ hist = [launches |-> 0, missed |-> 0, mine |-> FALSE, fresh |-> TRUE, best |-> 0,
             steady |-> TRUE, unopened |-> FALSE, spoils |-> {}]

May(f)  == f \in cfg.faults
Swmm    == cfg.model = "swmm"
Coupled == cfg.model = "tritonswmm"

(* model_run_completed: the log's True is believed as far as the terminal  *)
(* artifact goes; of triton the marker of the last launch is part of it.   *)
Completed ==
  /\ art = "final"
  /\ marker \/ (log.done /\ cfg.model # "triton")

(***************************************************************************)
(* The counters saturate where the code no longer tells values apart:      *)
(* fails at the budget, resumes at the length of the schedule.             *)
(***************************************************************************)
UpTo(n, cap) == IF n < cap THEN n + 1 ELSE n
Bumped == [log EXCEPT !.fails = UpTo(@, cfg.budget)]

(* The attempt ends; h is what history makes of it.                        *)
Ends(h) == pc' = "idle" /\ sol' = "none" /\ verdict' = FALSE /\ hist' = h
Disturbed == [hist EXCEPT !.steady = FALSE, !.unopened = @ \/ sol = "starting"]
Spoilt(f, h) == [h EXCEPT !.spoils = @ \cup {f}]

(* A launch has ended in a terminal failure, and whether it is counted.    *)
Charged(h) == [h EXCEPT !.launches = UpTo(@, cfg.budget + MaxMissed)]
Missed(h)  == [h EXCEPT !.missed = @ + 1]

(* _bump_terminal_failures: the write may raise, and the attempt ends like *)
(* any other.                                                              *)
EndsUncounted(h) ==
  /\ May("uncounted") /\ h.missed <= MaxMissed
  /\ UNCHANGED log /\ Ends(h)
FailsBeforeLaunch(h) == (log' = Bumped /\ Ends(h)) \/ EndsUncounted(h)
FailsAfterLaunch(h) ==
  \/ log' = Bumped /\ Ends(Charged(h))
  \/ EndsUncounted(Missed(Charged(h)))

(* A solver may be stopped while it writes the cfg of its next checkpoint. *)
Stopped ==
  \/ UNCHANGED torn
  \/ /\ sol = "running" /\ ~Swmm /\ pos = ckpt /\ ckpt < Steps /\ pos \notin bare
     /\ torn' \in {"short", "empty"}

-----------------------------------------------------------------------------
(* The rule fires: its output is missing.  A driver plans only after its   *)
(* own forced rerun.                                                       *)
Dispatch ==
  /\ pc = "idle" /\ op = "none" /\ ~flag
  /\ pc' = "check" /\ pos' = 0
  /\ UNCHANGED <<cfg, sol, log, files, verdict, flag, op, hist>>

(* The scenario is not prepared, or the model not compiled.                *)
PreconditionFails ==
  /\ pc = "check"
  /\ FailsBeforeLaunch(Disturbed)
  /\ UNCHANGED <<cfg, pos, files, flag, op>>

(* _consecutive_failure_budget_refusal.  A pending force resets the counter*)
(* before it is looked at; a refusal does not count itself.                *)
GateResets ==
  /\ pc = "check" /\ cfg.budget > 0 /\ log.force
  /\ log' = [log EXCEPT !.fails = 0]
  /\ pc' = "admitted"
  /\ UNCHANGED <<cfg, sol, pos, files, verdict, flag, op, hist>>
GateRefuses ==
  /\ pc = "check" /\ cfg.budget > 0 /\ ~log.force /\ log.fails >= cfg.budget
  /\ Ends(hist)
  /\ UNCHANGED <<cfg, pos, log, files, flag, op>>
GatePasses_Late ==
  /\ pc = "check"
  /\ cfg.budget = 0 \/ (~log.force /\ log.fails <= cfg.budget)
  /\ pc' = "admitted"
  /\ UNCHANGED <<cfg, sol, pos, log, files, verdict, flag, op, hist>>
GatePasses ==
  /\ pc = "check"
  /\ cfg.budget = 0 \/ (~log.force /\ log.fails < cfg.budget)
  /\ pc' = "admitted"
  /\ UNCHANGED <<cfg, sol, pos, log, files, verdict, flag, op, hist>>

Armed == cfg.schedule # <<>> /\ ~Swmm /\ log.resumes < Len(cfg.schedule)
Boundary == cfg.schedule[log.resumes + 1]

(* prune_hotstart_cfgs_above_step                                          *)
PruneAbove(step) ==
  /\ ckpt' = IF ckpt > step THEN step ELSE ckpt
  /\ torn' = IF ckpt + 1 > step THEN "no" ELSE torn

PruneOvershoot_Off ==
  /\ pc = "admitted" /\ pc' = "pruned"
  /\ IF Armed THEN PruneAbove(Boundary + 1) ELSE UNCHANGED <<ckpt, torn>>
  /\ UNCHANGED <<cfg, sol, pos, log, bare, marker, art, verdict, flag, op, hist>>

(* What the interruption of the previous attempt left above its boundary.  *)
PruneOvershoot ==
  /\ pc = "admitted" /\ pc' = "pruned"
  /\ IF Armed THEN PruneAbove(Boundary) ELSE UNCHANGED <<ckpt, torn>>
  /\ UNCHANGED <<cfg, sol, pos, log, bare, marker, art, verdict, flag, op, hist>>

(***************************************************************************)
(* The picker takes the newest file whose number of lines is the commonest,*)
(* of several commonest ones the smallest (pandas' mode), and ignores empty*)
(* ones.  A coupled resume steps back past checkpoints without a snapshot. *)
(***************************************************************************)
Newest == IF torn = "short" /\ ckpt <= 1 THEN ckpt + 1 ELSE ckpt
Usable == (1..ckpt) \ bare
Picked(p) ==
  IF Newest = ckpt /\ ckpt \in bare /\ Usable # {}
  THEN p \in Usable /\ \A c \in Usable : c <= p
  ELSE p = Newest
PickerRaises == ckpt = 0 /\ torn = "empty"

(* prepare_simulation_command                                              *)
PrepareForced ==
  /\ pc = "pruned" /\ log.force
  /\ IF Swmm THEN UNCHANGED <<ckpt, torn>> ELSE PruneAbove(0)
  /\ pos' = 0 /\ pc' = "ready"
  /\ UNCHANGED <<cfg, sol, log, bare, marker, art, verdict, flag, op, hist>>
PrepareSkips ==
  /\ pc = "pruned" /\ ~log.force /\ Completed
  /\ pc' = "flagging"
  /\ UNCHANGED <<cfg, sol, pos, log, files, verdict, flag, op, hist>>
Resumable == cfg.pickup /\ ~Swmm
PrepareResumes ==
  /\ pc = "pruned" /\ ~log.force /\ ~Completed /\ Resumable /\ ~PickerRaises /\ Newest > 0
  /\ \E p \in 1..Steps : Picked(p) /\ pos' = p
  /\ log' = [log EXCEPT !.resumes = UpTo(@, Len(cfg.schedule))]
  /\ pc' = "ready"
  /\ UNCHANGED <<cfg, sol, files, verdict, flag, op, hist>>
PrepareFresh ==
  /\ pc = "pruned" /\ ~log.force /\ ~Completed
  /\ Resumable => ~PickerRaises /\ Newest = 0
  /\ pos' = 0 /\ pc' = "ready"
  /\ UNCHANGED <<cfg, sol, log, files, verdict, flag, op, hist>>
Prepare == PrepareForced \/ PrepareSkips \/ PrepareResumes \/ PrepareFresh

Launch_Appends ==
  /\ pc = "ready" /\ pc' = "launched"
  /\ sol' = "starting"
  /\ hist' = [hist EXCEPT !.mine = TRUE]
  /\ UNCHANGED <<cfg, pos, log, files, verdict, flag, op>>

(* The run log is opened for writing, the solver started.                  *)
Launch ==
  /\ pc = "ready" /\ pc' = "launched"
  /\ sol' = "starting" /\ marker' = FALSE
  /\ hist' = [hist EXCEPT !.mine = TRUE]
  /\ UNCHANGED <<cfg, pos, log, ckpt, torn, bare, art, verdict, flag, op>>

Consume_Forgets ==
  /\ pc = "launched" /\ pc' = "waiting"
  /\ UNCHANGED <<cfg, sol, pos, log, files, verdict, flag, op, hist>>
Consume ==
  /\ pc = "launched" /\ pc' = "waiting"
  /\ log' = [log EXCEPT !.force = FALSE]
  /\ UNCHANGED <<cfg, sol, pos, files, verdict, flag, op, hist>>

-----------------------------------------------------------------------------
(***************************************************************************)
(* The solver (external).  It cannot start from a torn checkpoint, nor a   *)
(* coupled one from a checkpoint whose snapshot it has not published.  swmm*)
(* and tritonswmm reopen their rpt when they start; performance.txt stays  *)
(* until the end.                                                          *)
(***************************************************************************)
SolverStarts ==
  /\ sol = "starting" /\ pos <= ckpt /\ pos \notin bare
  /\ sol' = "running"
  /\ art' = IF cfg.model = "triton" THEN art ELSE "partial"
  /\ hist' = [hist EXCEPT !.unopened = FALSE]
  /\ UNCHANGED <<cfg, pc, pos, log, ckpt, torn, bare, marker, verdict, flag, op>>

(* Starting takes longer than the runner needs to clear its force.         *)
Underway == sol = "running" /\ (pc = "waiting" \/ May("slow_consume"))

SolverCheckpoints ==
  /\ Underway /\ ~Swmm /\ pos < Steps /\ pos \notin bare
  /\ pos' = pos + 1
  /\ ckpt' = IF pos' > ckpt THEN pos' ELSE ckpt
  /\ torn' = IF pos' > ckpt THEN "no" ELSE torn
  /\ bare' = IF Coupled THEN bare \cup {pos'} ELSE bare
  /\ hist' = [hist EXCEPT !.best = IF hist.mine /\ pos' > @ THEN pos' ELSE @,
                          !.spoils = IF pc = "waiting" THEN @ ELSE @ \cup {"slow_consume"}]
  /\ UNCHANGED <<cfg, pc, sol, log, marker, art, verdict, flag, op>>

SolverPublishes ==
  /\ Underway /\ Coupled /\ pos \in bare
  /\ bare' = bare \ {pos}
  /\ UNCHANGED <<cfg, pc, sol, pos, log, ckpt, torn, marker, art, verdict, flag, op, hist>>

SolverEnds ==
  /\ Underway /\ (Swmm \/ pos = Steps) /\ pos \notin bare
  /\ sol' = "exited" /\ marker' = TRUE /\ art' = "final"
  /\ hist' = [hist EXCEPT !.fresh = hist.mine]
  /\ UNCHANGED <<cfg, pc, pos, log, ckpt, torn, bare, verdict, flag, op>>

SolverCrashes ==
  /\ sol \in {"starting", "running"} /\ sol' = "exited" /\ Stopped
  /\ hist' = Disturbed
  /\ UNCHANGED <<cfg, pc, pos, log, ckpt, bare, marker, art, verdict, flag, op>>

(* wait_with_deterministic_checkpoint_kill counts the files, the one that  *)
(* is being written among them.                                            *)
WatcherKills ==
  /\ pc = "waiting" /\ Armed /\ sol = "running" /\ sol' = "exited" /\ Stopped
  /\ ckpt + (IF torn' = "no" THEN 0 ELSE 1) > Boundary
  /\ UNCHANGED <<cfg, pc, pos, log, ckpt, bare, marker, art, verdict, flag, op, hist>>

(* The guard script refuses to exec the solver, or the watchdog finds      *)
(* SLURM's complaint in the run log.                                       *)
GuardStops ==
  /\ May("gpu_refusal") /\ ~Swmm
  /\ sol = "starting" \/ (sol = "running" /\ pc = "waiting" /\ ~Armed)
  /\ sol' = "exited" /\ Stopped /\ verdict' = TRUE
  /\ hist' = Spoilt("gpu_refusal", Disturbed)
  /\ UNCHANGED <<cfg, pc, pos, log, ckpt, bare, marker, art, flag, op>>

-----------------------------------------------------------------------------
Record ==
  /\ pc = "waiting" /\ sol = "exited" /\ pc' = "recorded"
  /\ log' = [log EXCEPT !.done = Completed]
  /\ UNCHANGED <<cfg, sol, pos, files, verdict, flag, op, hist>>

(* A failing verdict is a forced rerun that nobody asked for.              *)
TakeVerdict ==
  /\ pc = "recorded" /\ pc' = "judging"
  /\ log' = [log EXCEPT !.force = @ \/ verdict]
  /\ hist' = IF verdict THEN [hist EXCEPT !.best = 0] ELSE hist
  /\ UNCHANGED <<cfg, sol, pos, files, verdict, flag, op>>

AttemptFails ==
  /\ pc = "judging" /\ ~Completed
  /\ FailsAfterLaunch(hist)
  /\ UNCHANGED <<cfg, pos, files, flag, op>>

AttemptSucceeds ==
  /\ pc = "judging" /\ Completed /\ pc' = "flagging"
  /\ log' = [log EXCEPT !.fails = 0] \/ (May("uncounted") /\ UNCHANGED log)
  /\ hist' = [hist EXCEPT !.launches = 0, !.missed = 0]
  /\ UNCHANGED <<cfg, sol, pos, files, verdict, flag, op>>

EmitFlag ==
  /\ pc = "flagging" /\ flag' = TRUE
  /\ Ends(hist)
  /\ UNCHANGED <<cfg, pos, log, files, op>>

Raising == {"admitted", "pruned", "ready", "recorded", "judging", "flagging"}
(* Any of the attempt's steps may raise; main's except clause bumps.       *)
AttemptRaises ==
  /\ \/ pc \in Raising
     \/ pc = "waiting" /\ sol = "exited"
  /\ IF pc \in {"waiting", "recorded", "judging"}
     THEN FailsAfterLaunch(Disturbed) ELSE FailsBeforeLaunch(Disturbed)
  /\ UNCHANGED torn
  /\ UNCHANGED <<cfg, pos, ckpt, bare, marker, art, flag, op>>

(* The write that clears the force raises, and the solver goes with the    *)
(* job.                                                                    *)
ConsumeRaises ==
  /\ pc = "launched" /\ May("lost_consume")
  /\ FailsAfterLaunch(Spoilt("lost_consume", Disturbed)) /\ Stopped
  /\ UNCHANGED <<cfg, pos, ckpt, bare, marker, art, flag, op>>

(* Walltime, or the node: SIGKILL to the runner and to the solver.         *)
Killed ==
  /\ pc # "idle"
  /\ Ends(Disturbed) /\ Stopped
  /\ UNCHANGED <<cfg, pos, log, ckpt, bare, marker, art, flag, op>>

-----------------------------------------------------------------------------
(* _apply_force_rerun at the simulate floor: first the flags, then the log.*)
ForceDeletesFlags ==
  /\ op = "none" /\ (pc = "idle" \/ May("overlap"))
  /\ op' = "flags_deleted" /\ flag' = FALSE
  /\ hist' = IF pc = "idle" THEN hist ELSE Spoilt("overlap", hist)
  /\ UNCHANGED <<cfg, pc, sol, pos, log, files, verdict>>
ForceArms ==
  /\ op = "flags_deleted" /\ op' = "none"
  /\ log' = [log EXCEPT !.force = TRUE]
  /\ hist' = [hist EXCEPT !.launches = 0, !.missed = 0, !.mine = FALSE, !.fresh = FALSE,
                          !.best = 0, !.steady = FALSE, !.unopened = FALSE]
  /\ UNCHANGED <<cfg, pc, sol, pos, files, verdict, flag>>
DriverDies ==
  /\ op = "flags_deleted" /\ op' = "none"
  /\ UNCHANGED <<cfg, pc, sol, pos, log, files, verdict, flag, hist>>

Gate == GateResets \/ GateRefuses \/ GatePasses
Attempt ==
  \/ PreconditionFails \/ Gate \/ PruneOvershoot \/ Prepare \/ Launch \/ Consume \/ Record
  \/ TakeVerdict \/ AttemptFails \/ AttemptSucceeds \/ EmitFlag \/ AttemptRaises
  \/ ConsumeRaises
Solver == SolverStarts \/ SolverCheckpoints \/ SolverPublishes \/ SolverEnds \/ SolverCrashes
Forced == ForceDeletesFlags \/ ForceArms \/ DriverDies

Next == Dispatch \/ Attempt \/ Solver \/ WatcherKills \/ GuardStops \/ Killed \/ Forced

Spec == Init /\ [][Next]_vars

(***************************************************************************)
(* An attempt and its solver run on, and Snakemake (or its operator)       *)
(* dispatches the rule again while its output is missing.                  *)
(***************************************************************************)
FairSpec ==
  Spec /\ WF_vars(Dispatch) /\ WF_vars(Attempt) /\ WF_vars(Solver)
    /\ WF_vars(ForceArms \/ DriverDies)

-----------------------------------------------------------------------------
(***************************************************************************)
(* "A simulation whose failures are DETERMINISTIC is launched at most      *)
(* hpc_consecutive_failure_budget_simulate times per era"                  *)
(* (test_consecutive_failure_budget_gate.py): the solver is not launched   *)
(* again once that many launches since the last completion or forced rerun *)
(* have ended in a failure, whatever kills, exceptions and forced reruns   *)
(* came in between.  A failure whose count could not be written is one     *)
(* launch more, and no more than one.                                      *)
(***************************************************************************)
BudgetKept ==
  pc = "launched" /\ cfg.budget > 0 => hist.launches < cfg.budget + hist.missed
BudgetHolds == hist.spoils \subseteq {"slow_consume"} => BudgetKept

(***************************************************************************)
(* A simulation is flagged complete only if a solver that was launched     *)
(* after the last forced rerun ran to its end: neither a kill after the    *)
(* force was cleared nor what an earlier run left (simulation_completed in *)
(* the log, performance.txt, the run log) can flag it.  With a rpt for its *)
(* artifact (swmm, tritonswmm) it takes a solver that comes as far as      *)
(* reopening the rpt; one that dies before is taken to have completed.     *)
(***************************************************************************)
OldReport == cfg.model # "triton" /\ hist.unopened
FlagIsFresh == "overlap" \notin hist.spoils => (flag => hist.fresh \/ OldReport)

(***************************************************************************)
(* A launch gives up no checkpoint that a solver has written since the last*)
(* forced rerun, but such as have no snapshot: the force is cleared before *)
(* there is anything a second pruning could lose, and nothing else prunes. *)
(***************************************************************************)
NothingLost ==
  pc = "launched" /\ cfg.pickup /\ cfg.schedule = <<>>
    => \A c \in 1..hist.best : c <= pos \/ c \in bare
ProgressKept == hist.spoils \subseteq {"gpu_refusal", "lost_consume"} => NothingLost

(***************************************************************************)
(* As long as attempts end only by the interruption schedule, the k-th     *)
(* resume starts from exactly the k-th boundary, however late the watcher  *)
(* was and whatever the kill left half written.                            *)
(***************************************************************************)
BoundariesHeld ==
  [][PrepareResumes /\ hist.steady => log.resumes < Len(cfg.schedule) /\ pos' = Boundary]_vars

(***************************************************************************)
(* Once nobody kills, forces or refuses a GPU and failures are counted, a  *)
(* simulation under a budget comes to rest: it is flagged, or its budget is*)
(* spent and nothing is launched.  The exception is an attempt that fails  *)
(* before its launch with the force still pending: the gate resets what it *)
(* has bumped, for ever.                                                   *)
(***************************************************************************)
Rest == flag \/ (log.fails >= cfg.budget /\ ~log.force)
FailsForced ==
  /\ log.force /\ pc \in {"check", "admitted", "pruned", "ready", "launched"}
  /\ PreconditionFails \/ AttemptRaises \/ ConsumeRaises
FailsUncounted ==
  /\ PreconditionFails \/ AttemptFails \/ AttemptRaises \/ ConsumeRaises
  /\ log' # Bumped
Quiet == ~Killed /\ ~Forced /\ ~GuardStops /\ ~FailsForced /\ ~FailsUncounted
Settles == <>[][Quiet]_vars => <>[](cfg.budget > 0 => Rest)
=============================================================================
