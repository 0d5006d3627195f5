------------------------------ MODULE Inflight ------------------------------
(***************************************************************************)
(* The at-most-once-execution protocol of a batch_job run.  One SLURM job  *)
(* per simulation rule; the job's worker (run_simulation_runner) and the   *)
(* driver (submit_workflow plus the Snakemake process it launches) share   *)
(* nothing but small files under _status/:                                 *)
(*                                                                         *)
(*   _queued/T.json     written by the driver once Snakemake is launched   *)
(*   _submitted/T.json  written by the worker when it starts               *)
(*   _completed/T.json, _failed/T.json   the worker's terminal markers     *)
(*   c_run_T.flag       the rule's output, written by a successful worker  *)
(*                                                                         *)
(* A driver may die at any time and leave its jobs in SLURM; the next one  *)
(* reads those files, asks sacct and squeue, and emits for every token     *)
(* either a run rule or a wait rule (wait_for_sentinel_runner).            *)
(*                                                                         *)
(* Files are modelled by their presence and by the job id they carry; an   *)
(* mtime by whether its age has passed the bound it is compared with.      *)
(***************************************************************************)
EXTENDS Naturals, FiniteSets

CONSTANTS
  Token,    \* simulation rule tokens, e.g. run_triton_evt-3
  Job,      \* SLURM job ids; each is used once
  NoJob,    \* "no job id": an absent file, or a payload without one
  Planned,  \* the payload of a _queued file that carries no job id
  Faults    \* which of FaultKinds the environment may show

(***************************************************************************)
(* The situations the protocol does not survive.  A run names the ones it  *)
(* admits; a theorem, where it needs that, which of them it excludes.      *)
(*   handoff      a worker starts while a driver is between the first and  *)
(*                the last directory read of one reconcile                 *)
(*   die_launching  the driver dies before it has written _queued, or      *)
(*                between an sbatch and the line that prints its job id    *)
(*   die_pending  it dies later, while a job of it waits in the queue      *)
(*                without the evidence Witnessed asks for                  *)
(*   die_working  the same for a job whose worker has started              *)
(*   slow_exit    a token is forced, pruned or submitted again while its   *)
(*                previous worker is still between its flag and its exit   *)
(*   old_queue    a _queued file ages out while its job is in the queue    *)
(***************************************************************************)
FaultKinds == {"handoff", "die_launching", "die_pending", "die_working",
               "slow_exit", "old_queue"}

ASSUME NamesAssumption ==
  /\ NoJob \notin Job
  /\ Planned \notin Job \cup {NoJob}
  /\ Faults \subseteq FaultKinds

May(f) == f \in Faults

VARIABLES
  queued,     \* [Token -> Job \cup {Planned, NoJob}]: _queued/T.json, NoJob if absent
  submitted,  \* [Token -> Job \cup {NoJob}]: _submitted/T.json
  completed,  \* the tokens with a _completed marker
  failed,     \* the tokens with a _failed marker
  flag,       \* the tokens whose c_run flag exists
  subOld,     \* tokens whose _submitted age has reached _max_plausible_job_lifetime_min
  qOld,       \* tokens whose _queued age has reached hpc_max_wait_for_inflight_min
  log,        \* [Token -> Job \cup {NoJob}]: newest submission printed in the tmux logs
  owner,      \* [Job -> Token \cup {NoJob}]: the token a job was submitted for
  pc,         \* [Job -> the life of a job, see WorkerPc]
  dpc,        \* the driver: "down", the reconcile's next read, or "up"
  round,      \* 1: the reconcile before the Snakefile is built; 2: the guards' one
  seen,       \* reconcile: the _submitted files found (then: those without a marker)
  jid,        \* reconcile: the job ids read from the files of seen
  pending,    \* reconcile: the tokens of _queued not superseded by another file
  alive,      \* reconcile: the tokens classified alive so far
  plan,       \* [Token -> "run", "wait" or "none"]: the rule emitted
  rule,       \* [Token -> the rule's life in the driver]
  mine,       \* [Token -> the job the driver tracks for the token]
  waitJob,    \* [Token -> the job id a wait rule probes]
  wrote       \* whether this driver has written the _queued files

files   == <<queued, submitted, completed, failed, flag, subOld, qOld, log>>
jobs    == <<owner, pc>>
scratch == <<seen, jid, pending, alive>>
rules   == <<plan, rule, mine, waitJob, wrote>>
vars    == <<files, jobs, dpc, round, scratch, rules>>

WorkerPc == {"unused", "pending",                      \* in SLURM, no worker
             "begin", "handoff", "clear", "work",      \* worker running
             "okMark", "okUnlink", "errMark", "errUnlink",  \* main's finally
             "ok", "err", "killed", "cancelled"}       \* gone; cancelled: before a sentinel
Scanning == {"scan", "queue", "sift", "sacct", "recover"}

Gone(j)      == pc[j] \in {"ok", "err", "killed", "cancelled"}
InSlurm(j)   == pc[j] # "unused" /\ ~Gone(j)
(* the simulation is queued or being computed: what must not happen twice  *)
Executing(j) == pc[j] \in {"pending", "begin", "handoff", "clear", "work"}
Exiting(j)   == pc[j] \in {"okMark", "okUnlink", "errMark", "errUnlink"}
JobsOf(t)    == {j \in Job : owner[j] = t}
SettledOr(t) == (\E j \in JobsOf(t) : Exiting(j)) => May("slow_exit")

(* The evidence on disk that keeps job j from being submitted again.       *)
Witnessed(j) ==
  LET t == owner[j] IN
  /\ t \notin completed \cup failed
  /\ pc[j] \in {"pending", "begin"} =>
       queued[t] # NoJob /\ submitted[t] = NoJob /\ log[t] = j
  /\ pc[j] \in {"handoff", "clear", "work"} => submitted[t] = j

FilesOK ==
  /\ queued \in [Token -> Job \cup {Planned, NoJob}]
  /\ submitted \in [Token -> Job \cup {NoJob}]
  /\ completed \subseteq Token /\ failed \subseteq Token /\ flag \subseteq Token
  /\ subOld \subseteq Token /\ qOld \subseteq Token
  /\ log \in [Token -> Job \cup {NoJob}]
JobsOK ==
  /\ owner \in [Job -> Token \cup {NoJob}]
  /\ pc \in [Job -> WorkerPc]
  /\ \A j \in Job : pc[j] # "unused" => owner[j] \in Token
ScratchOK ==
  /\ seen \subseteq Token /\ pending \subseteq Token /\ alive \subseteq Token
  /\ jid \in [Token -> Job \cup {NoJob}]
DriverOK ==
  /\ dpc \in Scanning \cup {"down", "emit", "launch", "up"}
  /\ round \in {1, 2}
RulesOK ==
  /\ plan \in [Token -> {"none", "run", "wait"}]
  /\ rule \in [Token -> {"todo", "active", "waiting", "probing", "ok", "failed"}]
  /\ mine \in [Token -> Job \cup {NoJob}]
  /\ waitJob \in [Token -> Job \cup {NoJob}]
  /\ wrote \in BOOLEAN
TypeOK == FilesOK /\ JobsOK /\ ScratchOK /\ DriverOK /\ RulesOK

Init ==
  /\ queued = [t \in Token |-> NoJob]
  /\ submitted = [t \in Token |-> NoJob]
  /\ completed = {} /\ failed = {} /\ flag = {}
  /\ subOld = {} /\ qOld = {}
  /\ log = [t \in Token |-> NoJob]
  /\ owner = [j \in Job |-> NoJob]
  /\ pc = [j \in Job |-> "unused"]
  /\ dpc = "down" /\ round = 1
  /\ seen = {} /\ pending = {} /\ alive = {}
  /\ jid = [t \in Token |-> NoJob]
  /\ plan = [t \in Token |-> "none"]
  /\ rule = [t \in Token |-> "todo"]
  /\ mine = [t \in Token |-> NoJob]
  /\ waitJob = [t \in Token |-> NoJob]
  /\ wrote = FALSE

---------------------------------------------------------------------------
(* The worker: run_simulation_runner.main inside SLURM job j.              *)

Become(j, p) == pc' = [pc EXCEPT ![j] = p]
Quiet == UNCHANGED <<dpc, round, scratch, rules, owner>>

(* No worker passes its sentinel on while a driver reads the directories.  *)
MayHandOff == dpc \in Scanning => May("handoff")

(* SLURM starts the job; the worker has not written anything yet.          *)
JobStart(j) ==
  /\ pc[j] = "pending"
  /\ Become(j, "begin")
  /\ UNCHANGED files /\ Quiet

WriteSubmitted(j) ==
  /\ pc[j] = "begin" /\ MayHandOff
  /\ submitted' = [submitted EXCEPT ![owner[j]] = j]
  /\ subOld' = subOld \ {owner[j]}
  /\ Become(j, "handoff")
  /\ UNCHANGED <<queued, completed, failed, flag, qOld, log>> /\ Quiet

UnlinkQueued(j) ==
  /\ pc[j] = "handoff" /\ MayHandOff
  /\ queued' = [queued EXCEPT ![owner[j]] = NoJob]
  /\ Become(j, "clear")
  /\ UNCHANGED <<submitted, completed, failed, flag, subOld, qOld, log>> /\ Quiet

(* Variant of ClearFailed: the marker of the earlier attempt stays.        *)
ClearFailed_Latched(j) ==
  /\ pc[j] = "clear"
  /\ Become(j, "work")
  /\ UNCHANGED files /\ Quiet

(* Only _failed is cleared: a _completed of an earlier attempt stays.      *)
ClearFailed(j) ==
  /\ pc[j] = "clear"
  /\ failed' = failed \ {owner[j]}
  /\ Become(j, "work")
  /\ UNCHANGED <<queued, submitted, completed, flag, subOld, qOld, log>> /\ Quiet

(* The simulation completes (or is found complete) and emits its flag.     *)
WorkSucceeds(j) ==
  /\ pc[j] = "work"
  /\ flag' = flag \cup {owner[j]}
  /\ Become(j, "okMark")
  /\ UNCHANGED <<queued, submitted, completed, failed, subOld, qOld, log>> /\ Quiet

(* Any of main's failure returns, or its except clause.                    *)
WorkFails(j) ==
  /\ pc[j] = "work"
  /\ failed' = failed \cup {owner[j]}
  /\ Become(j, "errMark")
  /\ UNCHANGED <<queued, submitted, completed, flag, subOld, qOld, log>> /\ Quiet

(* Variant of FinallyMark: it does not look for a _failed marker.          *)
FinallyMark_Blind(j) ==
  /\ pc[j] \in {"okMark", "errMark"}
  /\ completed' = completed \cup {owner[j]}
  /\ Become(j, IF pc[j] = "okMark" THEN "okUnlink" ELSE "errUnlink")
  /\ UNCHANGED <<queued, submitted, failed, flag, subOld, qOld, log>> /\ Quiet

(* The finally clause writes _completed if neither marker exists...        *)
FinallyMark(j) ==
  /\ pc[j] \in {"okMark", "errMark"}
  /\ completed' = IF owner[j] \in completed \cup failed
                  THEN completed ELSE completed \cup {owner[j]}
  /\ Become(j, IF pc[j] = "okMark" THEN "okUnlink" ELSE "errUnlink")
  /\ UNCHANGED <<queued, submitted, failed, flag, subOld, qOld, log>> /\ Quiet

(* ...and unlinks the sentinel by its name, whoever wrote it.              *)
FinallyUnlink(j) ==
  /\ pc[j] \in {"okUnlink", "errUnlink"}
  /\ submitted' = [submitted EXCEPT ![owner[j]] = NoJob]
  /\ Become(j, IF pc[j] = "okUnlink" THEN "ok" ELSE "err")
  /\ UNCHANGED <<queued, completed, failed, flag, subOld, qOld, log>> /\ Quiet

(* scancel, walltime, node failure: no finally clause runs.                *)
Kill(j) ==
  /\ InSlurm(j)
  /\ Become(j, IF pc[j] \in {"pending", "begin"} THEN "cancelled" ELSE "killed")
  /\ UNCHANGED files /\ Quiet

Worker(j) ==
  \/ JobStart(j) \/ WriteSubmitted(j) \/ UnlinkQueued(j) \/ ClearFailed(j)
  \/ WorkSucceeds(j) \/ WorkFails(j) \/ FinallyMark(j) \/ FinallyUnlink(j)

---------------------------------------------------------------------------
(* Time.  SLURM's walltime ends a job before the _submitted bound does.    *)

AgeSubmitted(t) ==
  /\ submitted[t] # NoJob /\ t \notin subOld
  /\ ~InSlurm(submitted[t])
  /\ subOld' = subOld \cup {t}
  /\ UNCHANGED <<queued, submitted, completed, failed, flag, qOld, log, jobs>> /\ Quiet

AgeQueued(t) ==
  /\ queued[t] # NoJob /\ t \notin qOld
  /\ (\E j \in JobsOf(t) : Executing(j)) => May("old_queue")
  /\ qOld' = qOld \cup {t}
  /\ UNCHANGED <<queued, submitted, completed, failed, flag, subOld, log, jobs>> /\ Quiet

---------------------------------------------------------------------------
(* What SLURM answers.  sacct may have no row for a job, and may still     *)
(* show a finished job as running; it never calls a job dead that is not.  *)

SacctRow(j) == IF InSlurm(j) THEN {"live", "none"} ELSE {"dead", "live", "none"}
SacctAnswers == {row \in [Job -> {"dead", "live", "none"}] :
                   \A j \in Job : row[j] \in SacctRow(j)}

(* A job id carried by two tokens of the same sweep is not conclusive.     *)
Conclusive(ids, S, t) == ids[t] \in Job /\ \A u \in S \ {t} : ids[u] # ids[t]
RowOf(row, ids, S, t) == IF Conclusive(ids, S, t) THEN row[ids[t]] ELSE "none"

---------------------------------------------------------------------------
(* The driver's reconcile: _reconcile_inflight_submissions, one action per *)
(* read of the directories, run twice before Snakemake is launched.        *)

Step(p) == dpc' = p
FilesButSweep == UNCHANGED <<completed, failed, flag, log>>

DriverStart ==
  /\ dpc = "down"
  /\ Step("scan")
  /\ round' = 1
  /\ UNCHANGED <<files, jobs, scratch, rules>>

(* sentinels = sorted(submitted_dir.glob("*.json"))                        *)
ScanSubmitted ==
  /\ dpc = "scan"
  /\ Step("queue")
  /\ seen' = {t \in Token : submitted[t] # NoJob}
  /\ UNCHANGED <<files, jobs, round, jid, pending, alive, rules>>

(* Variant of StillQueued: a payload without a job id is overlooked.       *)
StillQueued_Keyed(t) ==
  queued[t] \in Job /\ submitted[t] = NoJob /\ t \notin completed \cup failed

StillQueued(t) ==
  queued[t] # NoJob /\ submitted[t] = NoJob /\ t \notin completed \cup failed

AfterReconcile == IF round = 1 THEN "emit" ELSE "launch"

(* The _queued sweep, and the fast path when there is nothing to classify. *)
ScanQueued ==
  /\ dpc = "queue"
  /\ LET still == {t \in Token : StillQueued(t)} IN
     /\ pending' = still
     /\ IF seen = {} /\ still = {} THEN Step(AfterReconcile) ELSE Step("sift")
  /\ alive' = {}
  /\ UNCHANGED <<files, jobs, round, seen, jid, rules>>

(* _classify_via_state_markers: a terminal marker ends a sentinel's life.  *)
ClassifyMarkers ==
  /\ dpc = "sift"
  /\ LET done == seen \cap (completed \cup failed) IN
     /\ submitted' = [t \in Token |-> IF t \in done THEN NoJob ELSE submitted[t]]
     /\ seen' = seen \ done
     /\ jid' = [t \in Token |-> IF t \in seen \ done THEN submitted[t] ELSE NoJob]
  /\ Step("sacct")
  /\ FilesButSweep
  /\ UNCHANGED <<queued, subOld, qOld, jobs, round, pending, alive, rules>>

(* Variant of Reclaimable: silence of sacct is taken for death.            *)
Reclaimable_Silence(t, answer) == answer # "live"

(* A dead row reclaims; without a row the sentinel's age decides, and a    *)
(* sentinel that cannot be read any more counts as too old.                *)
Reclaimable(t, answer) ==
  \/ answer = "dead"
  \/ answer = "none" /\ (submitted[t] = NoJob \/ t \in subOld)

(* _classify_stale_via_sacct over the sentinels without a marker.          *)
ClassifyStale ==
  /\ dpc = "sacct"
  /\ \E row \in SacctAnswers :
       LET stale == {t \in seen : Reclaimable(t, RowOf(row, jid, seen, t))}
       IN /\ submitted' = [t \in Token |-> IF t \in stale THEN NoJob ELSE submitted[t]]
          /\ alive' = seen \ stale
  /\ Step("recover")
  /\ FilesButSweep
  /\ UNCHANGED <<queued, subOld, qOld, jobs, round, seen, jid, pending, rules>>

(* _recover_pending_from_queued, after _rekey_queued_from_tmux_logs: a     *)
(* token never printed in a tmux log is dropped, the others carry the job  *)
(* id printed last (writing it renews the mtime).                          *)
Rekeyed(t) == CASE t \in pending /\ log[t] = NoJob -> NoJob
                [] t \in pending /\ queued[t] # NoJob -> log[t]
                [] OTHER -> queued[t]

(* Variant of Held: only a row holds a token.                              *)
Held_RowOnly(t, answer, id, asked, old) == answer = "live"

(* A pending token is held on a live row; without a row on what squeue     *)
(* says, and if that is silent too for as long as its file is young.       *)
Held(t, answer, id, asked, old) ==
  \/ answer = "live"
  \/ answer = "none" /\ IF asked THEN InSlurm(id) ELSE id # NoJob /\ t \notin old

RecoverPending ==
  /\ dpc = "recover"
  /\ \E row \in SacctAnswers, squeue \in BOOLEAN :
       LET ids == [t \in Token |-> Rekeyed(t)]
           cand == {t \in pending : log[t] # NoJob}
           old == qOld \ {t \in pending : ids[t] # queued[t]}
           held == {t \in cand : Held(t, RowOf(row, ids, cand, t), ids[t],
                                      squeue /\ Conclusive(ids, cand, t), old)}
       IN /\ queued' = [t \in Token |-> IF t \in cand \ held THEN NoJob ELSE ids[t]]
          /\ qOld' = old
          /\ alive' = alive \cup held
  /\ seen' = {} /\ pending' = {} /\ jid' = [t \in Token |-> NoJob]
  /\ Step(AfterReconcile)
  /\ FilesButSweep
  /\ UNCHANGED <<submitted, subOld, jobs, round, rules>>

(* generate_snakefile_content: a wait rule replaces the run rule of every  *)
(* alive token.  Then the guards of the submission reconcile once more and *)
(* discard the answer.                                                     *)
EmitSnakefile ==
  /\ dpc = "emit"
  /\ plan' = [t \in Token |-> IF t \in alive THEN "wait" ELSE "run"]
  /\ rule' = [t \in Token |-> "todo"]
  /\ Step("scan") /\ round' = 2
  /\ alive' = {}
  /\ UNCHANGED <<files, jobs, seen, jid, pending, mine, waitJob, wrote>>

Launch ==
  /\ dpc = "launch"
  /\ Step("up") /\ round' = 1
  /\ alive' = {}
  /\ UNCHANGED <<files, jobs, seen, jid, pending, rules>>

Reconcile ==
  \/ DriverStart \/ ScanSubmitted \/ ScanQueued \/ ClassifyMarkers
  \/ ClassifyStale \/ RecoverPending \/ EmitSnakefile \/ Launch

---------------------------------------------------------------------------
(* The launched driver.                                                    *)

Still == UNCHANGED <<dpc, round, scratch>>

(* on_launch = _write_queued_sentinels, for every planned token; an equal  *)
(* payload is not rewritten and keeps its mtime.                           *)
WriteQueued ==
  /\ dpc = "up" /\ ~wrote
  /\ queued' = [t \in Token |-> Planned]
  /\ qOld' = {t \in qOld : queued[t] = Planned}
  /\ wrote' = TRUE
  /\ UNCHANGED <<submitted, completed, failed, flag, subOld, log, jobs, plan, rule, mine, waitJob>>
  /\ Still

(* Snakemake's executor sbatches the run rule of a token without a flag.   *)
Submit(t, j) ==
  /\ dpc = "up" /\ plan[t] = "run" /\ rule[t] = "todo" /\ t \notin flag
  /\ pc[j] = "unused"
  /\ SettledOr(t)
  /\ owner' = [owner EXCEPT ![j] = t]
  /\ pc' = [pc EXCEPT ![j] = "pending"]
  /\ mine' = [mine EXCEPT ![t] = j]
  /\ rule' = [rule EXCEPT ![t] = "active"]
  /\ UNCHANGED <<files, plan, waitJob, wrote>> /\ Still

(* "Job n has been submitted with SLURM jobid m" reaches the tmux log.     *)
PrintSubmission(t) ==
  /\ dpc = "up" /\ mine[t] # NoJob /\ log[t] # mine[t]
  /\ log' = [log EXCEPT ![t] = mine[t]]
  /\ UNCHANGED <<queued, submitted, completed, failed, flag, subOld, qOld, jobs, rules>> /\ Still

(* Snakemake learns that its job ended: a failure removes the rule's       *)
(* output and is retried while job ids last.                               *)
JobReported(t) ==
  /\ dpc = "up" /\ mine[t] # NoJob /\ Gone(mine[t])
  /\ mine' = [mine EXCEPT ![t] = NoJob]
  /\ IF pc[mine[t]] = "ok"
     THEN /\ rule' = [rule EXCEPT ![t] = "ok"]
          /\ UNCHANGED flag
     ELSE /\ \E r \in {"todo", "failed"} :
               /\ r = "todo" => \E j \in Job : pc[j] = "unused"
               /\ rule' = [rule EXCEPT ![t] = r]
          /\ flag' = flag \ {t}
  /\ UNCHANGED <<queued, submitted, completed, failed, subOld, qOld, log, jobs, plan, waitJob, wrote>>
  /\ Still

---------------------------------------------------------------------------
(* wait_for_sentinel_runner, the body of a wait rule.                      *)

(* Variant of SubmittedJobid: a payload without an id is taken for one.    *)
SubmittedJobid_Raw(t) == IF submitted[t] # NoJob THEN submitted[t] ELSE queued[t]

(* _read_submitted_jobid: from _submitted, else from _queued.              *)
SubmittedJobid(t) ==
  IF submitted[t] # NoJob THEN submitted[t]
  ELSE IF queued[t] = Planned THEN NoJob ELSE queued[t]

WaitBegin(t) ==
  /\ dpc = "up" /\ plan[t] = "wait" /\ rule[t] = "todo" /\ t \notin flag
  /\ waitJob' = [waitJob EXCEPT ![t] = SubmittedJobid(t)]
  /\ rule' = [rule EXCEPT ![t] = "waiting"]
  /\ UNCHANGED <<files, jobs, plan, mine, wrote>> /\ Still

(* Variant of WaitPoll: the markers are polled, the job is never probed.   *)
WaitPoll_MarkersOnly(t) ==
  /\ dpc = "up" /\ rule[t] = "waiting" /\ t \in completed \cup failed
  /\ rule' = [rule EXCEPT ![t] = IF t \in completed THEN "ok" ELSE "failed"]
  /\ UNCHANGED <<files, jobs, plan, mine, waitJob, wrote>> /\ Still

(* One turn of the poll loop: the markers, then (rarely) the probe.        *)
WaitPoll(t) ==
  /\ dpc = "up" /\ rule[t] = "waiting"
  /\ rule' = [rule EXCEPT ![t] = CASE t \in completed -> "ok"
                                   [] t \in failed \ completed -> "failed"
                                   [] OTHER -> "probing"]
  /\ (t \notin completed \cup failed) => waitJob[t] # NoJob
  /\ UNCHANGED <<files, jobs, plan, mine, waitJob, wrote>> /\ Still

(* job_is_dead_confirmed: squeue must not list the job and sacct must call *)
(* it dead; then _write_failed_marker_and_reclaim.                         *)
ProbeDead(t) ==
  /\ dpc = "up" /\ rule[t] = "probing"
  /\ "dead" \in SacctRow(waitJob[t])
  /\ failed' = failed \cup {t}
  /\ submitted' = [submitted EXCEPT ![t] = NoJob]
  /\ rule' = [rule EXCEPT ![t] = "failed"]
  /\ UNCHANGED <<queued, completed, flag, subOld, qOld, log, jobs, plan, mine, waitJob, wrote>>
  /\ Still

ProbeUnsure(t) ==
  /\ dpc = "up" /\ rule[t] = "probing"
  /\ rule' = [rule EXCEPT ![t] = "waiting"]
  /\ UNCHANGED <<files, jobs, plan, mine, waitJob, wrote>> /\ Still

(* --max-wait-minutes has passed.                                          *)
WaitExpires(t) ==
  /\ dpc = "up" /\ rule[t] = "waiting"
  /\ rule' = [rule EXCEPT ![t] = "failed"]
  /\ UNCHANGED <<files, jobs, plan, mine, waitJob, wrote>> /\ Still

WaitRule(t) == 
  WaitBegin(t) \/ WaitPoll(t) \/ ProbeDead(t) \/ ProbeUnsure(t) \/ WaitExpires(t)

---------------------------------------------------------------------------
(* The driver's death (or its normal end), and the operator between two.   *)

Announced(j) == wrote /\ log[owner[j]] = j

(* Which kind of loss a death of the driver is for job j, if it is one.    *)
Loss(j) ==
  CASE Witnessed(j) \/ ~Executing(j) -> {}
    [] pc[j] \in {"pending", "begin"} /\ ~Announced(j) -> {"die_launching"}
    [] pc[j] \in {"pending", "begin"} /\ Announced(j) -> {"die_pending"}
    [] OTHER -> {"die_working"}

DriverDie ==
  /\ dpc # "down"
  /\ \A j \in Job : Loss(j) \subseteq Faults
  /\ Step("down") /\ round' = 1
  /\ seen' = {} /\ pending' = {} /\ alive' = {}
  /\ jid' = [t \in Token |-> NoJob]
  /\ plan' = [t \in Token |-> "none"]
  /\ rule' = [t \in Token |-> "todo"]
  /\ mine' = [t \in Token |-> NoJob]
  /\ waitJob' = [t \in Token |-> NoJob]
  /\ wrote' = FALSE
  /\ UNCHANGED <<files, jobs>>

(* --force-rerun from the simulate stage: the flag goes, no marker does.   *)
ForceRerun(t) ==
  /\ dpc = "down" /\ t \in flag /\ SettledOr(t)
  /\ flag' = flag \ {t}
  /\ UNCHANGED <<queued, submitted, completed, failed, subOld, qOld, log, jobs>> /\ Quiet

(* _prune_settled_markers.                                                 *)
PruneSettledMarkers ==
  /\ dpc = "down" /\ \A t \in Token : SettledOr(t)
  /\ \E t \in completed \cup failed : submitted[t] = NoJob
  /\ completed' = {t \in completed : submitted[t] # NoJob}
  /\ failed' = {t \in failed : submitted[t] # NoJob}
  /\ UNCHANGED <<queued, submitted, flag, subOld, qOld, log, jobs>> /\ Quiet

Next ==
  \/ \E j \in Job : Worker(j) \/ Kill(j)
  \/ \E t \in Token : AgeSubmitted(t) \/ AgeQueued(t)
  \/ Reconcile
  \/ WriteQueued
  \/ \E t \in Token, j \in Job : Submit(t, j)
  \/ \E t \in Token : PrintSubmission(t) \/ JobReported(t) \/ WaitRule(t) \/ ForceRerun(t)
  \/ DriverDie
  \/ PruneSettledMarkers

Spec == Init /\ [][Next]_vars

(* A started worker runs on; Snakemake keeps looking at its jobs and rules; *)
(* the poll loop keeps turning; sacct is not silent about a dead job for   *)
(* ever.  Nothing makes SLURM start a job.                                 *)
Fairness ==
  /\ \A j \in Job : WF_vars(Worker(j) /\ pc[j] # "pending")
  /\ \A t \in Token : /\ WF_vars(WaitBegin(t)) /\ WF_vars(WaitPoll(t))
                      /\ WF_vars(ProbeUnsure(t)) /\ SF_vars(ProbeDead(t))

FairSpec == Spec /\ Fairness

---------------------------------------------------------------------------
(* At most once: no simulation is ever queued or computed by two SLURM     *)
(* jobs, whichever driver submitted them.                                  *)
AtMostOnce ==
  \A j, k \in Job : Executing(j) /\ Executing(k) /\ owner[j] = owner[k] => j = k

(* The same promise as a specification: every execution of this protocol   *)
(* is one of SingleFlight, jobs holding tokens.                            *)
Running == {p \in Job \X Token : Executing(p[1]) /\ owner[p[1]] = p[2]}
SF == INSTANCE SingleFlight WITH Holder <- Job, Resource <- Token, active <- Running
AtMostOnceSpec == SF!Spec

(* No read or unlink of a reconcile destroys the evidence that keeps a     *)
(* live job from being submitted again.                                    *)
ReconcileKeepsEvidence ==
  [][Reconcile => \A j \in Job : Executing(j) /\ Witnessed(j) => Witnessed(j)']_vars

(* The _failed marker of an earlier attempt does not latch: a worker that  *)
(* finished its simulation leaves _completed and no _failed.               *)
SuccessIsMarked ==
  [][\A j \in Job : pc[j] = "okMark" /\ pc'[j] = "okUnlink"
                       => owner[j] \in completed' \ failed']_vars

(* A wait rule reports success only when the worker's flag, the rule's     *)
(* declared output, is on disk (the wait rule itself never writes it).     *)
WaitSuccessHasFlag ==
  \A t \in Token : plan[t] = "wait" /\ rule[t] = "ok" => t \in flag

(* A wait rule that has a job id to probe does not outlive that job: the   *)
(* markers or the probe end it, without its timeout.                       *)
Polling(t) == rule[t] \in {"waiting", "probing"}
WaitEndsWithItsJob ==
  \A t \in Token :
    (Polling(t) /\ waitJob[t] # NoJob /\ ~InSlurm(waitJob[t])) ~> ~Polling(t)

=============================================================================
