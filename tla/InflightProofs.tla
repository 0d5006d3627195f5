--------------------------- MODULE InflightProofs ---------------------------
(***************************************************************************)
(* Theorems about Inflight, for any sets of tokens and jobs.               *)
(***************************************************************************)
EXTENDS Inflight, TLAPS

---------------------------------------------------------------------------
(* The inductive invariant behind AtMostOnce, for Faults = {}.             *)

Handed(j) == pc[j] \in {"handoff", "clear", "work"}
Waiting(j) == pc[j] \in {"pending", "begin"}

(* What a driver tracks is a job it submitted itself under a run rule.     *)
MineOK ==
  \A t \in Token : mine[t] # NoJob =>
    /\ dpc = "up" /\ plan[t] = "run" /\ rule[t] = "active"
    /\ owner[mine[t]] = t /\ pc[mine[t]] # "unused"

(* A live job that no driver tracks has left its evidence on disk.         *)
OrphansWitnessed ==
  \A j \in Job : Executing(j) /\ mine[owner[j]] # j => Witnessed(j)

(* A run rule stands only where no other driver's job is live.             *)
PlanOK ==
  \A j \in Job : Executing(j) /\ plan[owner[j]] = "run" => mine[owner[j]] = j

(* No worker is on its way out while another job of its token is live.     *)
NoExitOverlap ==
  \A j, k \in Job : Executing(j) /\ Exiting(k) => owner[j] # owner[k]

(* A sentinel names a job whose worker wrote it; a live one is not old.    *)
SentinelOK ==
  \A t \in Token : submitted[t] # NoJob =>
    /\ owner[submitted[t]] = t
    /\ pc[submitted[t]] \notin {"unused", "pending", "begin"}
    /\ InSlurm(submitted[t]) => t \notin subOld

(* Printed and re-keyed job ids are submitted ones; a _queued file re-keyed *)
(* to a live job is not old.                                               *)
QueuedOK ==
  \A t \in Token :
    /\ log[t] # NoJob => owner[log[t]] = t /\ pc[log[t]] # "unused"
    /\ queued[t] \in Job => /\ owner[queued[t]] = t /\ pc[queued[t]] # "unused"
                            /\ Executing(queued[t]) => t \notin qOld

(* Between its reads the reconcile has not lost sight of any live job.     *)
Tracked ==
  \A j \in Job : Executing(j) =>
    LET t == owner[j] IN
    /\ Handed(j) =>
         /\ dpc \in {"queue", "sift"} => t \in seen
         /\ dpc = "sacct" => t \in seen /\ jid[t] = j
         /\ dpc = "recover" => t \in alive
    /\ Waiting(j) =>
         /\ dpc \in {"sift", "sacct", "recover"} => t \in pending
         /\ dpc = "emit" \/ plan[t] = "wait" => queued[t] \in {j, Planned}
    /\ dpc = "emit" => t \in alive

(* A wait rule probes the job that is live, if it has an id at all.        *)
WaitOK ==
  \A t \in Token : Polling(t) =>
    /\ plan[t] = "wait" /\ dpc = "up"
    /\ rule[t] = "probing" => waitJob[t] # NoJob
    /\ \A j \in JobsOf(t) : Executing(j) => waitJob[t] \in {j, NoJob}

IInv ==
  /\ TypeOK /\ AtMostOnce
  /\ MineOK /\ OrphansWitnessed /\ PlanOK /\ NoExitOverlap
  /\ SentinelOK /\ QueuedOK /\ Tracked /\ WaitOK

---------------------------------------------------------------------------

(* The initial state is well typed.                                        *)
LEMMA InitTypeOK == Init => TypeOK
<1> SUFFICES ASSUME Init PROVE TypeOK
  OBVIOUS
<1>1. FilesOK   BY DEF Init, FilesOK
<1>2. JobsOK    BY DEF Init, JobsOK, WorkerPc
<1>3. ScratchOK BY DEF Init, ScratchOK
<1>4. DriverOK  BY DEF Init, DriverOK
<1>5. RulesOK   BY DEF Init, RulesOK
<1> QED BY <1>1, <1>2, <1>3, <1>4, <1>5 DEF TypeOK

(* A step of a worker keeps the state well typed.                          *)
LEMMA WorkerTypeOK == ASSUME TypeOK, NEW j \in Job, Worker(j) \/ Kill(j) PROVE TypeOK'
<1> USE DEF TypeOK, Quiet, scratch, rules
<1>1. ScratchOK' /\ DriverOK' /\ RulesOK'
  <2>1. UNCHANGED <<dpc, round, scratch, rules>>
    BY DEF Worker, JobStart, WriteSubmitted, UnlinkQueued, ClearFailed, WorkSucceeds,
           WorkFails, FinallyMark, FinallyUnlink, Kill
  <2> QED BY <2>1 DEF ScratchOK, DriverOK, RulesOK
<1>2. JobsOK'
  BY DEF Worker, JobStart, WriteSubmitted, UnlinkQueued, ClearFailed, WorkSucceeds,
         WorkFails, FinallyMark, FinallyUnlink, Kill, Become, JobsOK, WorkerPc, InSlurm, Gone
<1>3. FilesOK'
  <2> owner[j] \in Token
    BY DEF JobsOK, Worker, JobStart, WriteSubmitted, UnlinkQueued, ClearFailed, WorkSucceeds,
           WorkFails, FinallyMark, FinallyUnlink, Kill, InSlurm
  <2> USE DEF FilesOK, files
  <2>1. CASE JobStart(j) \/ Kill(j) BY <2>1 DEF JobStart, Kill
  <2>2. CASE WriteSubmitted(j) BY <2>2 DEF WriteSubmitted
  <2>3. CASE UnlinkQueued(j)   BY <2>3 DEF UnlinkQueued
  <2>4. CASE ClearFailed(j)    BY <2>4 DEF ClearFailed
  <2>5. CASE WorkSucceeds(j)   BY <2>5 DEF WorkSucceeds
  <2>6. CASE WorkFails(j)      BY <2>6 DEF WorkFails
  <2>7. CASE FinallyMark(j)    BY <2>7 DEF FinallyMark
  <2>8. CASE FinallyUnlink(j)  BY <2>8 DEF FinallyUnlink
  <2> QED BY <2>1, <2>2, <2>3, <2>4, <2>5, <2>6, <2>7, <2>8 DEF Worker
<1> QED BY <1>1, <1>2, <1>3

(* A step of the reconcile, or the driver's death, keeps it well typed.    *)
LEMMA ReconcileTypeOK == ASSUME TypeOK, Reconcile \/ DriverDie PROVE TypeOK'
<1> USE DEF TypeOK
<1>1. FilesOK'
  <2> USE DEF FilesOK, files, FilesButSweep
  <2>1. CASE ClassifyMarkers BY <2>1 DEF ClassifyMarkers
  <2>2. CASE ClassifyStale BY <2>2 DEF ClassifyStale
  <2>3. CASE RecoverPending
    BY <2>3 DEF RecoverPending, Rekeyed
  <2>4. CASE ~(ClassifyMarkers \/ ClassifyStale \/ RecoverPending)
    BY <2>4 DEF Reconcile, DriverStart, ScanSubmitted, ScanQueued, EmitSnakefile, Launch, DriverDie
  <2> QED BY <2>1, <2>2, <2>3, <2>4
<1>2. JobsOK'
  <2> UNCHANGED jobs
    BY DEF Reconcile, DriverStart, ScanSubmitted, ScanQueued, ClassifyMarkers, ClassifyStale,
           RecoverPending, EmitSnakefile, Launch, DriverDie
  <2> QED BY DEF jobs, JobsOK
<1>3. ScratchOK'
  <2> USE DEF ScratchOK, FilesOK, scratch
  <2>1. CASE ClassifyMarkers BY <2>1 DEF ClassifyMarkers
  <2>2. CASE ClassifyStale BY <2>2 DEF ClassifyStale
  <2>3. CASE RecoverPending BY <2>3 DEF RecoverPending
  <2>4. CASE ~(ClassifyMarkers \/ ClassifyStale \/ RecoverPending)
    BY <2>4 DEF Reconcile, DriverStart, ScanSubmitted, ScanQueued, EmitSnakefile, Launch, DriverDie
  <2> QED BY <2>1, <2>2, <2>3, <2>4
<1>4. DriverOK'
  BY DEF Reconcile, DriverStart, ScanSubmitted, ScanQueued, ClassifyMarkers, ClassifyStale,
         RecoverPending, EmitSnakefile, Launch, DriverDie, DriverOK, Step, AfterReconcile, Scanning
<1>5. RulesOK'
  <2>1. CASE EmitSnakefile BY <2>1 DEF EmitSnakefile, RulesOK
  <2>2. CASE DriverDie BY <2>2 DEF DriverDie, RulesOK
  <2>3. CASE ~(EmitSnakefile \/ DriverDie)
    <3> UNCHANGED rules
      BY <2>3 DEF Reconcile, DriverStart, ScanSubmitted, ScanQueued, ClassifyMarkers,
                  ClassifyStale, RecoverPending, Launch
    <3> QED BY DEF rules, RulesOK
  <2> QED BY <2>1, <2>2, <2>3
<1> QED BY <1>1, <1>2, <1>3, <1>4, <1>5

(* So does a step of a launched driver, of a wait rule or of the operator. *)
LEMMA TokenTypeOK ==
  ASSUME TypeOK, NEW t \in Token,
         \/ \E j \in Job : Submit(t, j)
         \/ PrintSubmission(t) \/ JobReported(t) \/ WaitRule(t) \/ ForceRerun(t)
         \/ AgeSubmitted(t) \/ AgeQueued(t)
  PROVE  TypeOK'
<1> USE DEF TypeOK, FilesOK, JobsOK, ScratchOK, DriverOK, RulesOK, Still, Quiet,
            files, jobs, scratch, rules
<1>1. ASSUME NEW j \in Job, Submit(t, j) PROVE TypeOK'
  BY <1>1 DEF Submit, WorkerPc
<1>2. CASE PrintSubmission(t) BY <1>2 DEF PrintSubmission
<1>3. CASE JobReported(t) BY <1>3 DEF JobReported
<1>4. CASE WaitRule(t)
  BY <1>4 DEF WaitRule, WaitBegin, WaitPoll, ProbeDead, ProbeUnsure, WaitExpires, SubmittedJobid
<1>5. CASE ForceRerun(t) BY <1>5 DEF ForceRerun
<1>6. CASE AgeSubmitted(t) \/ AgeQueued(t) BY <1>6 DEF AgeSubmitted, AgeQueued
<1> QED BY <1>1, <1>2, <1>3, <1>4, <1>5, <1>6

LEMMA SweepTypeOK == ASSUME TypeOK, WriteQueued \/ PruneSettledMarkers PROVE TypeOK'
<1> USE DEF TypeOK, FilesOK, JobsOK, ScratchOK, DriverOK, RulesOK, Still, Quiet, jobs, scratch, rules
<1>1. CASE WriteQueued BY <1>1 DEF WriteQueued
<1>2. CASE PruneSettledMarkers BY <1>2 DEF PruneSettledMarkers
<1> QED BY <1>1, <1>2

LEMMA StutterTypeOK == ASSUME TypeOK, UNCHANGED vars PROVE TypeOK'
BY DEF vars, TypeOK, FilesOK, JobsOK, ScratchOK, DriverOK, RulesOK, files, jobs, scratch, rules

LEMMA NextTypeOK == TypeOK /\ [Next]_vars => TypeOK'
BY WorkerTypeOK, ReconcileTypeOK, TokenTypeOK, SweepTypeOK, StutterTypeOK DEF Next

(* No step of the protocol leaves the types of its files, jobs, reconcile  *)
(* scratch and rules: in particular a job never runs without an owner, and *)
(* a wait rule never probes the payload of a _queued file without an id.   *)
THEOREM TypeCorrect == Spec => []TypeOK
BY InitTypeOK, NextTypeOK, PTL DEF Spec

---------------------------------------------------------------------------
(* The invariant is inductive where the environment shows no fault: one    *)
(* lemma per action.  Step <1>1 is typing, <1>2 the conjuncts the action   *)
(* leaves alone or re-establishes by its guard, the steps after it the     *)
(* conjuncts it would break if another did not hold.                       *)

USE DEF IInv, TypeOK, FilesOK, JobsOK, ScratchOK, DriverOK, RulesOK,
        files, jobs, scratch, rules,
        Executing, Exiting, InSlurm, Gone, JobsOf, Witnessed, Handed, Waiting, Polling, May

LEMMA JobStartInd == ASSUME Faults = {}, IInv, NEW j \in Job, JobStart(j) PROVE IInv'
<1> USE DEF JobStart, Quiet, Become
<1>1. TypeOK' BY NextTypeOK DEF Next, Worker, Reconcile, WaitRule
<1>2. (AtMostOnce /\ MineOK /\ OrphansWitnessed /\ PlanOK /\ NoExitOverlap
       /\ SentinelOK /\ QueuedOK /\ Tracked /\ WaitOK)'
  BY <1>1, NamesAssumption DEF AtMostOnce, MineOK, OrphansWitnessed, PlanOK, NoExitOverlap, SentinelOK,
       QueuedOK, Tracked, WaitOK
<1> QED BY <1>1, <1>2

LEMMA WriteSubmittedInd == ASSUME Faults = {}, IInv, NEW j \in Job, WriteSubmitted(j) PROVE IInv'
<1> USE DEF WriteSubmitted, Quiet, Become, MayHandOff, Scanning
<1>1. TypeOK' BY NextTypeOK DEF Next, Worker, Reconcile, WaitRule
<1>2. (AtMostOnce /\ MineOK /\ PlanOK /\ NoExitOverlap /\ SentinelOK
       /\ QueuedOK /\ Tracked /\ WaitOK)'
  BY <1>1, NamesAssumption DEF AtMostOnce, MineOK, PlanOK, NoExitOverlap, SentinelOK, QueuedOK,
     Tracked, WaitOK
<1>3. OrphansWitnessed' BY <1>1, NamesAssumption DEF OrphansWitnessed, MineOK, PlanOK
<1> QED BY <1>1, <1>2, <1>3

LEMMA UnlinkQueuedInd == ASSUME Faults = {}, IInv, NEW j \in Job, UnlinkQueued(j) PROVE IInv'
<1> USE DEF UnlinkQueued, Quiet, Become, MayHandOff, Scanning
<1>1. TypeOK' BY NextTypeOK DEF Next, Worker, Reconcile, WaitRule
<1>2. (AtMostOnce /\ MineOK /\ PlanOK /\ NoExitOverlap
       /\ SentinelOK /\ QueuedOK /\ WaitOK)'
  BY <1>1, NamesAssumption DEF AtMostOnce, MineOK, PlanOK, NoExitOverlap, SentinelOK, QueuedOK, WaitOK
<1>3. OrphansWitnessed' BY <1>1, NamesAssumption DEF OrphansWitnessed, MineOK, PlanOK
<1>4. Tracked' BY <1>1, NamesAssumption DEF Tracked, MineOK, OrphansWitnessed
<1> QED BY <1>1, <1>2, <1>3, <1>4

LEMMA ClearFailedInd == ASSUME Faults = {}, IInv, NEW j \in Job, ClearFailed(j) PROVE IInv'
<1> USE DEF ClearFailed, Quiet, Become
<1>1. TypeOK' BY NextTypeOK DEF Next, Worker, Reconcile, WaitRule
<1>2. (AtMostOnce /\ MineOK /\ OrphansWitnessed /\ PlanOK /\ NoExitOverlap
       /\ SentinelOK /\ QueuedOK /\ Tracked /\ WaitOK)'
  BY <1>1, NamesAssumption DEF AtMostOnce, MineOK, OrphansWitnessed, PlanOK, NoExitOverlap, SentinelOK,
       QueuedOK, Tracked, WaitOK
<1> QED BY <1>1, <1>2

LEMMA WorkSucceedsInd == ASSUME Faults = {}, IInv, NEW j \in Job, WorkSucceeds(j) PROVE IInv'
<1> USE DEF WorkSucceeds, Quiet, Become
<1>1. TypeOK' BY NextTypeOK DEF Next, Worker, Reconcile, WaitRule
<1>2. (AtMostOnce /\ MineOK /\ OrphansWitnessed /\ PlanOK /\ SentinelOK
       /\ QueuedOK /\ Tracked /\ WaitOK)'
  BY <1>1, NamesAssumption DEF AtMostOnce, MineOK, OrphansWitnessed, PlanOK, SentinelOK, QueuedOK,
     Tracked,
       WaitOK
<1>3. NoExitOverlap' BY <1>1, NamesAssumption DEF NoExitOverlap, MineOK, OrphansWitnessed, PlanOK
<1> QED BY <1>1, <1>2, <1>3

LEMMA WorkFailsInd == ASSUME Faults = {}, IInv, NEW j \in Job, WorkFails(j) PROVE IInv'
<1> USE DEF WorkFails, Quiet, Become
<1>1. TypeOK' BY NextTypeOK DEF Next, Worker, Reconcile, WaitRule
<1>2. (AtMostOnce /\ MineOK /\ PlanOK /\ SentinelOK /\ QueuedOK /\ Tracked /\ WaitOK)'
  BY <1>1, NamesAssumption DEF AtMostOnce, MineOK, PlanOK, SentinelOK, QueuedOK, Tracked, WaitOK
<1>3. OrphansWitnessed' BY <1>1, NamesAssumption DEF OrphansWitnessed, MineOK, PlanOK
<1>4. NoExitOverlap' BY <1>1, NamesAssumption DEF NoExitOverlap, MineOK, OrphansWitnessed, PlanOK
<1> QED BY <1>1, <1>2, <1>3, <1>4

LEMMA FinallyMarkInd == ASSUME Faults = {}, IInv, NEW j \in Job, FinallyMark(j) PROVE IInv'
<1> USE DEF FinallyMark, Quiet, Become
<1>1. TypeOK' BY NextTypeOK DEF Next, Worker, Reconcile, WaitRule
<1>2. (AtMostOnce /\ MineOK /\ PlanOK /\ NoExitOverlap /\ SentinelOK
       /\ QueuedOK /\ Tracked /\ WaitOK)'
  BY <1>1, NamesAssumption DEF AtMostOnce, MineOK, PlanOK, NoExitOverlap, SentinelOK, QueuedOK,
     Tracked, WaitOK
  (* Nor does the marker end the life of another live job's record. *)
<1>3. OrphansWitnessed' BY <1>1, NamesAssumption DEF OrphansWitnessed, NoExitOverlap
<1> QED BY <1>1, <1>2, <1>3

LEMMA FinallyUnlinkInd == ASSUME Faults = {}, IInv, NEW j \in Job, FinallyUnlink(j) PROVE IInv'
<1> USE DEF FinallyUnlink, Quiet, Become
<1>1. TypeOK' BY NextTypeOK DEF Next, Worker, Reconcile, WaitRule
<1>2. (AtMostOnce /\ MineOK /\ PlanOK /\ NoExitOverlap /\ SentinelOK
       /\ QueuedOK /\ Tracked /\ WaitOK)'
  BY <1>1, NamesAssumption DEF AtMostOnce, MineOK, PlanOK, NoExitOverlap, SentinelOK, QueuedOK,
     Tracked, WaitOK
  (* The sentinel taken is not the one of another live job. *)
<1>3. OrphansWitnessed' BY <1>1, NamesAssumption DEF OrphansWitnessed, NoExitOverlap
<1> QED BY <1>1, <1>2, <1>3

LEMMA KillInd == ASSUME Faults = {}, IInv, NEW j \in Job, Kill(j) PROVE IInv'
<1> USE DEF Kill, Quiet, Become
<1>1. TypeOK' BY NextTypeOK DEF Next, Worker, Reconcile, WaitRule
<1>2. (AtMostOnce /\ MineOK /\ OrphansWitnessed /\ PlanOK /\ NoExitOverlap
       /\ SentinelOK /\ QueuedOK /\ Tracked /\ WaitOK)'
  BY <1>1, NamesAssumption DEF AtMostOnce, MineOK, OrphansWitnessed, PlanOK, NoExitOverlap, SentinelOK,
       QueuedOK, Tracked, WaitOK
<1> QED BY <1>1, <1>2

LEMMA AgeSubmittedInd == ASSUME Faults = {}, IInv, NEW t \in Token, AgeSubmitted(t) PROVE IInv'
<1> USE DEF AgeSubmitted, Quiet
<1>1. TypeOK' BY NextTypeOK DEF Next, Worker, Reconcile, WaitRule
<1>2. (AtMostOnce /\ MineOK /\ OrphansWitnessed /\ PlanOK /\ NoExitOverlap
       /\ SentinelOK /\ QueuedOK /\ Tracked /\ WaitOK)'
  BY <1>1, NamesAssumption DEF AtMostOnce, MineOK, OrphansWitnessed, PlanOK, NoExitOverlap, SentinelOK,
       QueuedOK, Tracked, WaitOK
<1> QED BY <1>1, <1>2

LEMMA AgeQueuedInd == ASSUME Faults = {}, IInv, NEW t \in Token, AgeQueued(t) PROVE IInv'
<1> USE DEF AgeQueued, Quiet
<1>1. TypeOK' BY NextTypeOK DEF Next, Worker, Reconcile, WaitRule
<1>2. (AtMostOnce /\ MineOK /\ OrphansWitnessed /\ PlanOK /\ NoExitOverlap
       /\ SentinelOK /\ QueuedOK /\ Tracked /\ WaitOK)'
  BY <1>1, NamesAssumption DEF AtMostOnce, MineOK, OrphansWitnessed, PlanOK, NoExitOverlap, SentinelOK,
       QueuedOK, Tracked, WaitOK
<1> QED BY <1>1, <1>2

LEMMA DriverStartInd == ASSUME Faults = {}, IInv, DriverStart PROVE IInv'
<1> USE DEF DriverStart, Step
<1>1. TypeOK' BY NextTypeOK DEF Next, Worker, Reconcile, WaitRule
<1>2. (AtMostOnce /\ MineOK /\ OrphansWitnessed /\ PlanOK /\ NoExitOverlap
       /\ SentinelOK /\ QueuedOK /\ Tracked /\ WaitOK)'
  BY <1>1, NamesAssumption DEF AtMostOnce, MineOK, OrphansWitnessed, PlanOK, NoExitOverlap, SentinelOK,
       QueuedOK, Tracked, WaitOK
<1> QED BY <1>1, <1>2

LEMMA ScanSubmittedInd == ASSUME Faults = {}, IInv, ScanSubmitted PROVE IInv'
<1> USE DEF ScanSubmitted, Step
<1>1. TypeOK' BY NextTypeOK DEF Next, Worker, Reconcile, WaitRule
<1>2. (AtMostOnce /\ MineOK /\ OrphansWitnessed /\ PlanOK /\ NoExitOverlap
       /\ SentinelOK /\ QueuedOK /\ WaitOK)'
  BY <1>1, NamesAssumption DEF AtMostOnce, MineOK, OrphansWitnessed, PlanOK, NoExitOverlap, SentinelOK,
       QueuedOK, WaitOK
  (* A started job is witnessed by its _submitted file. *)
<1>3. Tracked' BY <1>1, NamesAssumption DEF Tracked, MineOK, OrphansWitnessed
<1> QED BY <1>1, <1>2, <1>3

LEMMA ScanQueuedInd == ASSUME Faults = {}, IInv, ScanQueued PROVE IInv'
<1> USE DEF ScanQueued, Step, AfterReconcile, StillQueued
<1>1. TypeOK' BY NextTypeOK DEF Next, Worker, Reconcile, WaitRule
<1>2. (AtMostOnce /\ MineOK /\ OrphansWitnessed /\ PlanOK /\ NoExitOverlap
       /\ SentinelOK /\ QueuedOK /\ WaitOK)'
  BY <1>1, NamesAssumption DEF AtMostOnce, MineOK, OrphansWitnessed, PlanOK, NoExitOverlap, SentinelOK,
       QueuedOK, WaitOK
  (* A waiting job is witnessed by its _queued file, a started one was in seen. *)
<1>3. Tracked' BY <1>1, NamesAssumption DEF Tracked, MineOK, OrphansWitnessed
<1> QED BY <1>1, <1>2, <1>3

LEMMA ClassifyMarkersInd == ASSUME Faults = {}, IInv, ClassifyMarkers PROVE IInv'
<1> USE DEF ClassifyMarkers, Step, FilesButSweep
<1>1. TypeOK' BY NextTypeOK DEF Next, Worker, Reconcile, WaitRule
<1>2. (AtMostOnce /\ MineOK /\ OrphansWitnessed /\ PlanOK /\ NoExitOverlap
       /\ SentinelOK /\ QueuedOK /\ WaitOK)'
  BY <1>1, NamesAssumption DEF AtMostOnce, MineOK, OrphansWitnessed, PlanOK, NoExitOverlap, SentinelOK,
       QueuedOK, WaitOK
  (* The token of a witnessed live job carries no marker. *)
<1>3. Tracked' BY <1>1, NamesAssumption DEF Tracked, MineOK, OrphansWitnessed
<1> QED BY <1>1, <1>2, <1>3

LEMMA ClassifyStaleInd == ASSUME Faults = {}, IInv, ClassifyStale PROVE IInv'
<1> USE DEF ClassifyStale, Step, FilesButSweep, Reclaimable, RowOf, Conclusive,
            SacctAnswers, SacctRow
<1>1. TypeOK' BY NextTypeOK DEF Next, Worker, Reconcile, WaitRule
<1>2. (AtMostOnce /\ MineOK /\ PlanOK /\ NoExitOverlap
       /\ SentinelOK /\ QueuedOK /\ WaitOK)'
  BY <1>1, NamesAssumption DEF AtMostOnce, MineOK, PlanOK, NoExitOverlap, SentinelOK, QueuedOK, WaitOK
  (* So no sentinel of a live job is reclaimed. *)
<1>3. OrphansWitnessed' BY <1>1, NamesAssumption DEF OrphansWitnessed, SentinelOK, Tracked
  (* sacct never calls a live job dead, and a live sentinel is not old. *)
<1>4. Tracked' BY <1>1, NamesAssumption DEF Tracked, MineOK, OrphansWitnessed, SentinelOK
<1> QED BY <1>1, <1>2, <1>3, <1>4

LEMMA EmitSnakefileInd == ASSUME Faults = {}, IInv, EmitSnakefile PROVE IInv'
<1> USE DEF EmitSnakefile, Step
<1>1. TypeOK' BY NextTypeOK DEF Next, Worker, Reconcile, WaitRule
<1>2. (AtMostOnce /\ MineOK /\ OrphansWitnessed /\ NoExitOverlap /\ SentinelOK
       /\ QueuedOK /\ Tracked /\ WaitOK)'
  BY <1>1, NamesAssumption DEF AtMostOnce, MineOK, OrphansWitnessed, NoExitOverlap, SentinelOK,
     QueuedOK,
       Tracked, WaitOK
  (* Every live job's token is in alive, so it gets a wait rule. *)
<1>3. PlanOK' BY <1>1, NamesAssumption DEF PlanOK, Tracked
<1> QED BY <1>1, <1>2, <1>3

LEMMA LaunchInd == ASSUME Faults = {}, IInv, Launch PROVE IInv'
<1> USE DEF Launch, Step
<1>1. TypeOK' BY NextTypeOK DEF Next, Worker, Reconcile, WaitRule
<1>2. (AtMostOnce /\ MineOK /\ OrphansWitnessed /\ PlanOK /\ NoExitOverlap
       /\ SentinelOK /\ QueuedOK /\ Tracked /\ WaitOK)'
  BY <1>1, NamesAssumption DEF AtMostOnce, MineOK, OrphansWitnessed, PlanOK, NoExitOverlap, SentinelOK,
       QueuedOK, Tracked, WaitOK
<1> QED BY <1>1, <1>2

LEMMA WriteQueuedInd == ASSUME Faults = {}, IInv, WriteQueued PROVE IInv'
<1> USE DEF WriteQueued, Still
<1>1. TypeOK' BY NextTypeOK DEF Next, Worker, Reconcile, WaitRule
<1>2. (AtMostOnce /\ MineOK /\ OrphansWitnessed /\ PlanOK /\ NoExitOverlap
       /\ SentinelOK /\ QueuedOK /\ Tracked /\ WaitOK)'
  BY <1>1, NamesAssumption DEF AtMostOnce, MineOK, OrphansWitnessed, PlanOK, NoExitOverlap, SentinelOK,
       QueuedOK, Tracked, WaitOK
<1> QED BY <1>1, <1>2

LEMMA SubmitInd == ASSUME Faults = {}, IInv, NEW t \in Token, NEW j \in Job, Submit(t, j) PROVE IInv'
<1> USE DEF Submit, Still, SettledOr
<1>1. TypeOK' BY NextTypeOK DEF Next, Worker, Reconcile, WaitRule
<1>2. (MineOK /\ NoExitOverlap /\ SentinelOK /\ QueuedOK /\ Tracked /\ WaitOK)'
  BY <1>1, NamesAssumption DEF MineOK, NoExitOverlap, SentinelOK, QueuedOK, Tracked, WaitOK
  (* A run rule without a tracked job has no live job at all. *)
<1>3. AtMostOnce' BY <1>1, NamesAssumption DEF AtMostOnce, MineOK, PlanOK
<1>4. OrphansWitnessed' BY <1>1, NamesAssumption DEF OrphansWitnessed, MineOK
<1>5. PlanOK' BY <1>1, NamesAssumption DEF PlanOK, MineOK
<1> QED BY <1>1, <1>2, <1>3, <1>4, <1>5

LEMMA PrintSubmissionInd == ASSUME Faults = {}, IInv, NEW t \in Token, PrintSubmission(t) PROVE IInv'
<1> USE DEF PrintSubmission, Still
<1>1. TypeOK' BY NextTypeOK DEF Next, Worker, Reconcile, WaitRule
<1>2. (AtMostOnce /\ MineOK /\ PlanOK /\ NoExitOverlap
       /\ SentinelOK /\ Tracked /\ WaitOK)'
  BY <1>1, NamesAssumption DEF AtMostOnce, MineOK, PlanOK, NoExitOverlap, SentinelOK, Tracked, WaitOK
<1>3. OrphansWitnessed' BY <1>1, NamesAssumption DEF OrphansWitnessed, MineOK, PlanOK
<1>4. QueuedOK' BY <1>1, NamesAssumption DEF QueuedOK, MineOK
<1> QED BY <1>1, <1>2, <1>3, <1>4

LEMMA JobReportedInd == ASSUME Faults = {}, IInv, NEW t \in Token, JobReported(t) PROVE IInv'
<1> USE DEF JobReported, Still
<1>1. TypeOK' BY NextTypeOK DEF Next, Worker, Reconcile, WaitRule
<1>2. (AtMostOnce /\ MineOK /\ OrphansWitnessed /\ PlanOK /\ NoExitOverlap
       /\ SentinelOK /\ QueuedOK /\ Tracked /\ WaitOK)'
  BY <1>1, NamesAssumption DEF AtMostOnce, MineOK, OrphansWitnessed, PlanOK, NoExitOverlap, SentinelOK,
       QueuedOK, Tracked, WaitOK
<1> QED BY <1>1, <1>2

LEMMA WaitBeginInd == ASSUME Faults = {}, IInv, NEW t \in Token, WaitBegin(t) PROVE IInv'
<1> USE DEF WaitBegin, Still, SubmittedJobid
<1>1. TypeOK' BY NextTypeOK DEF Next, Worker, Reconcile, WaitRule
<1>2. (AtMostOnce /\ MineOK /\ OrphansWitnessed /\ PlanOK /\ NoExitOverlap
       /\ SentinelOK /\ QueuedOK /\ Tracked)'
  BY <1>1, NamesAssumption DEF AtMostOnce, MineOK, OrphansWitnessed, PlanOK, NoExitOverlap, SentinelOK,
       QueuedOK, Tracked
  (* The id read is that of the live job, or none. *)
<1>3. WaitOK' BY <1>1, NamesAssumption DEF WaitOK, MineOK, OrphansWitnessed, Tracked
<1> QED BY <1>1, <1>2, <1>3

LEMMA WaitPollInd == ASSUME Faults = {}, IInv, NEW t \in Token, WaitPoll(t) PROVE IInv'
<1> USE DEF WaitPoll, Still
<1>1. TypeOK' BY NextTypeOK DEF Next, Worker, Reconcile, WaitRule
<1>2. (AtMostOnce /\ MineOK /\ OrphansWitnessed /\ PlanOK /\ NoExitOverlap
       /\ SentinelOK /\ QueuedOK /\ Tracked /\ WaitOK)'
  BY <1>1, NamesAssumption DEF AtMostOnce, MineOK, OrphansWitnessed, PlanOK, NoExitOverlap, SentinelOK,
       QueuedOK, Tracked, WaitOK
<1> QED BY <1>1, <1>2

LEMMA ProbeDeadInd == ASSUME Faults = {}, IInv, NEW t \in Token, ProbeDead(t) PROVE IInv'
<1> USE DEF ProbeDead, Still, SacctRow
<1>1. TypeOK' BY NextTypeOK DEF Next, Worker, Reconcile, WaitRule
<1>2. (AtMostOnce /\ MineOK /\ PlanOK /\ NoExitOverlap /\ SentinelOK
       /\ QueuedOK /\ Tracked /\ WaitOK)'
  BY <1>1, NamesAssumption DEF AtMostOnce, MineOK, PlanOK, NoExitOverlap, SentinelOK, QueuedOK,
     Tracked, WaitOK
  (* The probed job is the only one the token could have live. *)
<1>3. OrphansWitnessed' BY <1>1, NamesAssumption DEF OrphansWitnessed, WaitOK
<1> QED BY <1>1, <1>2, <1>3

LEMMA ProbeUnsureInd == ASSUME Faults = {}, IInv, NEW t \in Token, ProbeUnsure(t) PROVE IInv'
<1> USE DEF ProbeUnsure, Still
<1>1. TypeOK' BY NextTypeOK DEF Next, Worker, Reconcile, WaitRule
<1>2. (AtMostOnce /\ MineOK /\ OrphansWitnessed /\ PlanOK /\ NoExitOverlap
       /\ SentinelOK /\ QueuedOK /\ Tracked /\ WaitOK)'
  BY <1>1, NamesAssumption DEF AtMostOnce, MineOK, OrphansWitnessed, PlanOK, NoExitOverlap, SentinelOK,
       QueuedOK, Tracked, WaitOK
<1> QED BY <1>1, <1>2

LEMMA WaitExpiresInd == ASSUME Faults = {}, IInv, NEW t \in Token, WaitExpires(t) PROVE IInv'
<1> USE DEF WaitExpires, Still
<1>1. TypeOK' BY NextTypeOK DEF Next, Worker, Reconcile, WaitRule
<1>2. (AtMostOnce /\ MineOK /\ OrphansWitnessed /\ PlanOK /\ NoExitOverlap
       /\ SentinelOK /\ QueuedOK /\ Tracked /\ WaitOK)'
  BY <1>1, NamesAssumption DEF AtMostOnce, MineOK, OrphansWitnessed, PlanOK, NoExitOverlap, SentinelOK,
       QueuedOK, Tracked, WaitOK
<1> QED BY <1>1, <1>2

LEMMA DriverDieInd == ASSUME Faults = {}, IInv, DriverDie PROVE IInv'
<1> USE DEF DriverDie, Step, Loss
<1>1. TypeOK' BY NextTypeOK DEF Next, Worker, Reconcile, WaitRule
<1>2. (AtMostOnce /\ MineOK /\ OrphansWitnessed /\ PlanOK /\ NoExitOverlap
       /\ SentinelOK /\ QueuedOK /\ Tracked /\ WaitOK)'
  BY <1>1, NamesAssumption DEF AtMostOnce, MineOK, OrphansWitnessed, PlanOK, NoExitOverlap, SentinelOK,
       QueuedOK, Tracked, WaitOK
<1> QED BY <1>1, <1>2

LEMMA ForceRerunInd == ASSUME Faults = {}, IInv, NEW t \in Token, ForceRerun(t) PROVE IInv'
<1> USE DEF ForceRerun, Quiet, SettledOr
<1>1. TypeOK' BY NextTypeOK DEF Next, Worker, Reconcile, WaitRule
<1>2. (AtMostOnce /\ MineOK /\ OrphansWitnessed /\ PlanOK /\ NoExitOverlap
       /\ SentinelOK /\ QueuedOK /\ Tracked /\ WaitOK)'
  BY <1>1, NamesAssumption DEF AtMostOnce, MineOK, OrphansWitnessed, PlanOK, NoExitOverlap, SentinelOK,
       QueuedOK, Tracked, WaitOK
<1> QED BY <1>1, <1>2

LEMMA PruneSettledMarkersInd == ASSUME Faults = {}, IInv, PruneSettledMarkers PROVE IInv'
<1> USE DEF PruneSettledMarkers, Quiet, SettledOr
<1>1. TypeOK' BY NextTypeOK DEF Next, Worker, Reconcile, WaitRule
<1>2. (AtMostOnce /\ MineOK /\ OrphansWitnessed /\ PlanOK /\ NoExitOverlap
       /\ SentinelOK /\ QueuedOK /\ Tracked /\ WaitOK)'
  BY <1>1, NamesAssumption DEF AtMostOnce, MineOK, OrphansWitnessed, PlanOK, NoExitOverlap, SentinelOK,
       QueuedOK, Tracked, WaitOK
<1> QED BY <1>1, <1>2

(* The recovery of pending tokens keeps the _queued file of every live     *)
(* waiting job, re-keyed to it, and holds its token.                       *)
LEMMA RecoverHolds ==
  ASSUME Faults = {}, IInv, RecoverPending
  PROVE  /\ \A j \in Job : Waiting(j) =>
              queued'[owner[j]] = j /\ owner[j] \notin qOld' /\ owner[j] \in alive'
         /\ alive \subseteq alive'
         /\ \A t \in Token : queued'[t] \in Job =>
              \/ queued'[t] = queued[t] /\ qOld' \subseteq qOld
              \/ queued'[t] = log[t] /\ t \notin qOld'
<1> DEFINE ids == [t \in Token |-> Rekeyed(t)]
           cand == {t \in pending : log[t] # NoJob}
           old == qOld \ {t \in pending : ids[t] # queued[t]}
           held(row, squeue) ==
             {t \in cand : Held(t, RowOf(row, ids, cand, t), ids[t],
                                squeue /\ Conclusive(ids, cand, t), old)}
<1>1. PICK row \in SacctAnswers, squeue \in BOOLEAN :
        /\ queued' = [t \in Token |-> IF t \in cand \ held(row, squeue) THEN NoJob ELSE ids[t]]
        /\ qOld' = old
        /\ alive' = alive \cup held(row, squeue)
  BY DEF RecoverPending
<1>2. dpc = "recover" BY DEF RecoverPending
<1>3. ASSUME NEW j \in Job, Waiting(j)
      PROVE  queued'[owner[j]] = j /\ owner[j] \notin qOld' /\ owner[j] \in alive'
  <2> DEFINE t == owner[j]
  <2>1. t \in Token /\ Executing(j) /\ InSlurm(j)
    BY <1>3
  <2>2. t \in pending
    BY <1>2, <1>3, <2>1 DEF Tracked
  <2>3. queued[t] # NoJob /\ log[t] = j
    <3>1. mine[t] # j BY <1>2, <2>1, NamesAssumption DEF MineOK
    <3> QED BY <1>3, <2>1, <3>1 DEF OrphansWitnessed
  <2>4. t \in cand /\ ids[t] = j
    BY <2>1, <2>2, <2>3, NamesAssumption DEF Rekeyed
  <2>5. t \notin old
    <3>1. queued[t] = j => t \notin qOld BY <2>1 DEF QueuedOK
    <3>2. queued[t] # j => t \notin old BY <2>2, <2>4
    <3> QED BY <3>1, <3>2
  <2>6. RowOf(row, ids, cand, t) \in {"live", "none"}
    BY <2>1, <2>4 DEF RowOf, SacctAnswers, SacctRow
  <2>7. t \in held(row, squeue)
    BY <2>1, <2>4, <2>5, <2>6, NamesAssumption DEF Held
  <2> QED BY <1>1, <2>1, <2>4, <2>5, <2>7
<1>4. alive \subseteq alive' BY <1>1
<1>5. ASSUME NEW t \in Token, queued'[t] \in Job
      PROVE  \/ queued'[t] = queued[t] /\ qOld' \subseteq qOld
             \/ queued'[t] = log[t] /\ t \notin qOld'
  <2>1. queued'[t] = ids[t] BY <1>1, <1>5, NamesAssumption
  <2> QED BY <1>1, <1>5, <2>1, NamesAssumption DEF Rekeyed
<1> QED BY <1>3, <1>4, <1>5

LEMMA RecoverPendingInd == ASSUME Faults = {}, IInv, RecoverPending PROVE IInv'
<1> USE DEF FilesButSweep
<1>0. TypeOK' BY NextTypeOK DEF Next, Reconcile
<1>1. AtMostOnce' /\ PlanOK' BY <1>0 DEF RecoverPending, AtMostOnce, PlanOK
<1>2. MineOK' BY <1>0 DEF RecoverPending, MineOK
<1>3. OrphansWitnessed'
  <2> SUFFICES ASSUME NEW j \in Job, Executing(j), mine[owner[j]] # j PROVE Witnessed(j)'
    BY <1>0 DEF RecoverPending, OrphansWitnessed
  <2>1. owner[j] \in Token /\ Witnessed(j) BY <1>0 DEF OrphansWitnessed
  <2>2. UNCHANGED <<submitted, completed, failed, log, owner, pc>> BY DEF RecoverPending
  <2>3. Waiting(j) => queued'[owner[j]] # NoJob BY RecoverHolds, NamesAssumption
  <2> QED BY <2>1, <2>2, <2>3 DEF Witnessed
<1>4. NoExitOverlap' /\ SentinelOK'
  BY <1>0 DEF RecoverPending, NoExitOverlap, SentinelOK
<1>5. QueuedOK'
  <2>1. UNCHANGED <<log, owner, pc>> BY DEF RecoverPending
  <2>2. ASSUME NEW t \in Token, log'[t] # NoJob
        PROVE  owner'[log'[t]] = t /\ pc'[log'[t]] # "unused"
    BY <1>0, <2>1, <2>2 DEF QueuedOK
  <2>3. ASSUME NEW t \in Token, queued'[t] \in Job
        PROVE  (/\ owner[queued[t]] = t /\ pc[queued[t]] # "unused"
                /\ Executing(queued[t]) => t \notin qOld)'
    <3>1. queued'[t] \in {log[t], queued[t]} BY <2>3, RecoverHolds
    <3>2. owner[queued'[t]] = t /\ pc[queued'[t]] # "unused"
      BY <1>0, <2>3, <3>1, NamesAssumption DEF QueuedOK
    <3>3. Executing(queued'[t]) => t \notin qOld'
      <4>1. CASE queued'[t] = queued[t] /\ qOld' \subseteq qOld
        BY <1>0, <2>1, <2>3, <4>1 DEF QueuedOK
      <4>2. CASE queued'[t] = log[t] /\ t \notin qOld' BY <4>2
      <4> QED BY <2>3, <4>1, <4>2, RecoverHolds
    <3> QED BY <2>1, <3>2, <3>3
  <2> QED BY <2>2, <2>3 DEF QueuedOK
<1>6. Tracked'
  BY <1>0, RecoverHolds DEF RecoverPending, Tracked, Step, AfterReconcile
<1>7. WaitOK' BY <1>0 DEF RecoverPending, WaitOK
<1> QED BY <1>0, <1>1, <1>2, <1>3, <1>4, <1>5, <1>6, <1>7 DEF IInv

LEMMA StutterInd == ASSUME IInv, UNCHANGED vars PROVE IInv'
<1> USE DEF vars
<1>1. TypeOK' BY StutterTypeOK
<1>2. (AtMostOnce /\ MineOK /\ OrphansWitnessed /\ PlanOK /\ NoExitOverlap)'
  BY DEF AtMostOnce, MineOK, OrphansWitnessed, PlanOK, NoExitOverlap
<1>3. (SentinelOK /\ QueuedOK /\ Tracked /\ WaitOK)'
  BY DEF SentinelOK, QueuedOK, Tracked, WaitOK
<1> QED BY <1>1, <1>2, <1>3

(* Initially there is no job, no file and no driver.                       *)
LEMMA InitInd == Init => IInv
<1> SUFFICES ASSUME Init PROVE IInv
  OBVIOUS
<1>1. TypeOK BY InitTypeOK
<1>2. AtMostOnce /\ MineOK /\ OrphansWitnessed /\ PlanOK /\ NoExitOverlap
  BY DEF Init, AtMostOnce, MineOK, OrphansWitnessed, PlanOK, NoExitOverlap
<1>3. SentinelOK /\ QueuedOK /\ Tracked /\ WaitOK
  BY NamesAssumption DEF Init, SentinelOK, QueuedOK, Tracked, WaitOK
<1> QED BY <1>1, <1>2, <1>3

LEMMA NextInd == ASSUME Faults = {}, IInv, [Next]_vars PROVE IInv'
<1>1. ASSUME NEW j \in Job, Worker(j) \/ Kill(j) PROVE IInv'
  BY <1>1, JobStartInd, WriteSubmittedInd, UnlinkQueuedInd, ClearFailedInd, WorkSucceedsInd,
     WorkFailsInd, FinallyMarkInd, FinallyUnlinkInd, KillInd DEF Worker
<1>2. ASSUME NEW t \in Token, AgeSubmitted(t) \/ AgeQueued(t) \/ ForceRerun(t) PROVE IInv'
  BY <1>2, AgeSubmittedInd, AgeQueuedInd, ForceRerunInd
<1>3. CASE Reconcile
  BY <1>3, DriverStartInd, ScanSubmittedInd, ScanQueuedInd, ClassifyMarkersInd, ClassifyStaleInd,
     RecoverPendingInd, EmitSnakefileInd, LaunchInd DEF Reconcile
<1>4. CASE WriteQueued \/ DriverDie \/ PruneSettledMarkers
  BY <1>4, WriteQueuedInd, DriverDieInd, PruneSettledMarkersInd
<1>5. ASSUME NEW t \in Token, NEW j \in Job, Submit(t, j) PROVE IInv'
  BY <1>5, SubmitInd
<1>6. ASSUME NEW t \in Token, PrintSubmission(t) \/ JobReported(t) PROVE IInv'
  BY <1>6, PrintSubmissionInd, JobReportedInd
<1>7. ASSUME NEW t \in Token, WaitRule(t) PROVE IInv'
  BY <1>7, WaitBeginInd, WaitPollInd, ProbeDeadInd, ProbeUnsureInd, WaitExpiresInd DEF WaitRule
<1>8. CASE UNCHANGED vars BY <1>8, StutterInd
<1> QED BY <1>1, <1>2, <1>3, <1>4, <1>5, <1>6, <1>7, <1>8 DEF Next

---------------------------------------------------------------------------
(* What the terminal markers say, for Faults = {}: the second invariant,   *)
(* inductive under IInv.                                                   *)

Cleared(j) == pc[j] \in {"clear", "work"} \/ Exiting(j)

(* The sentinel of a worker that wrote it is its own until the worker or a *)
(* reconcile unlinks it.                                                   *)
HandedOK == \A j \in Job : Handed(j) => submitted[owner[j]] = j

(* A worker in its finally clause: whoever unlinked its sentinel saw a     *)
(* marker, and the driver that tracks its token tracks no other job.       *)
ExitOK ==
  \A j \in Job : Exiting(j) =>
    LET t == owner[j] IN
    /\ submitted[t] \in {j, NoJob}
    /\ submitted[t] = NoJob => t \in completed \cup failed
    /\ pc[j] \in {"okUnlink", "errUnlink"} => t \in completed \cup failed
    /\ dpc = "sacct" /\ t \in seen => jid[t] = j
    /\ mine[t] \in {j, NoJob}

(* Each worker's outcome is on disk from the moment it is known.           *)
OutcomeOK ==
  \A j \in Job :
    /\ pc[j] \in {"work", "okMark"} => owner[j] \notin failed
    /\ pc[j] = "errMark" => owner[j] \in failed
    /\ pc[j] \in {"okMark", "okUnlink"} => owner[j] \in flag

(* The _queued file of a worker that has unlinked it names no job.         *)
UnlinkedOK ==
  \A j \in Job :
    /\ Cleared(j) => queued[owner[j]] \in {NoJob, Planned}
    /\ dpc \in {"sift", "sacct", "recover"} /\ (Handed(j) \/ Exiting(j))
         => owner[j] \notin pending

(* A wait rule probes the job SLURM still has, even one past its work.     *)
ProbeOK ==
  \A t \in Token : Polling(t) => \A j \in JobsOf(t) : InSlurm(j) => waitJob[t] \in {j, NoJob}

(* The tokens a reconcile has not found a marker for, and those it emitted *)
(* a wait rule for.                                                        *)
Unmarked ==
  {t \in Token : \/ plan[t] = "wait" \/ t \in alive
                 \/ dpc \in {"sacct", "recover"} /\ t \in seen
                 \/ dpc \in {"sift", "sacct", "recover"} /\ t \in pending}

(* The _completed marker of such a token comes with its flag: it is not a  *)
(* marker left by an attempt whose flag was forced or failed away since.   *)
FreshOK == Unmarked \cap completed \subseteq flag

IdleOK ==
  /\ dpc \in {"down", "up", "scan", "queue"} => alive = {}
  /\ dpc = "down" => \A t \in Token : plan[t] = "none"

MarkInv ==
  /\ HandedOK /\ ExitOK /\ OutcomeOK /\ UnlinkedOK /\ ProbeOK /\ FreshOK /\ IdleOK
  /\ WaitSuccessHasFlag

USE DEF MarkInv

LEMMA JobStartMark ==
  ASSUME Faults = {}, IInv, MarkInv, NEW j \in Job, JobStart(j) PROVE MarkInv'
<1> USE NamesAssumption DEF JobStart, Become, Quiet
<1>1. (HandedOK /\ ExitOK /\ OutcomeOK /\ UnlinkedOK /\ ProbeOK /\ FreshOK /\ IdleOK /\
    WaitSuccessHasFlag)'
  BY DEF HandedOK, ExitOK, OutcomeOK, UnlinkedOK, ProbeOK, FreshOK, IdleOK, WaitSuccessHasFlag,
       Cleared, Unmarked
<1> QED BY <1>1

LEMMA WriteSubmittedMark ==
  ASSUME Faults = {}, IInv, MarkInv, NEW j \in Job, WriteSubmitted(j) PROVE MarkInv'
<1> USE NamesAssumption DEF WriteSubmitted, Become, Quiet, MayHandOff, Scanning
<1>1. (OutcomeOK /\ UnlinkedOK /\ ProbeOK /\ FreshOK /\ IdleOK /\ WaitSuccessHasFlag)'
  BY DEF OutcomeOK, UnlinkedOK, ProbeOK, FreshOK, IdleOK, WaitSuccessHasFlag, Cleared, Unmarked
<1>2. HandedOK' BY DEF HandedOK, AtMostOnce
<1>3. ExitOK' BY DEF ExitOK, NoExitOverlap
<1> QED BY <1>1, <1>2, <1>3

LEMMA UnlinkQueuedMark ==
  ASSUME Faults = {}, IInv, MarkInv, NEW j \in Job, UnlinkQueued(j) PROVE MarkInv'
<1> USE NamesAssumption DEF UnlinkQueued, Become, Quiet, MayHandOff, Scanning
<1>1. (HandedOK /\ ExitOK /\ OutcomeOK /\ UnlinkedOK /\ ProbeOK /\ FreshOK /\ IdleOK /\
    WaitSuccessHasFlag)'
  BY DEF HandedOK, ExitOK, OutcomeOK, UnlinkedOK, ProbeOK, FreshOK, IdleOK, WaitSuccessHasFlag,
       Cleared, Unmarked
<1> QED BY <1>1

LEMMA ClearFailedMark ==
  ASSUME Faults = {}, IInv, MarkInv, NEW j \in Job, ClearFailed(j) PROVE MarkInv'
<1> USE NamesAssumption DEF ClearFailed, Become, Quiet
<1>1. (HandedOK /\ UnlinkedOK /\ ProbeOK /\ FreshOK /\ IdleOK /\ WaitSuccessHasFlag)'
  BY DEF HandedOK, UnlinkedOK, ProbeOK, FreshOK, IdleOK, WaitSuccessHasFlag, Cleared, Unmarked
  (* The marker taken is not one an exiting worker relies on.                *)
<1>2. ExitOK' BY DEF ExitOK, NoExitOverlap
<1>3. OutcomeOK' BY DEF OutcomeOK, NoExitOverlap
<1> QED BY <1>1, <1>2, <1>3

LEMMA WorkSucceedsMark ==
  ASSUME Faults = {}, IInv, MarkInv, NEW j \in Job, WorkSucceeds(j) PROVE MarkInv'
<1> USE NamesAssumption DEF WorkSucceeds, Become, Quiet
<1>1. (HandedOK /\ OutcomeOK /\ UnlinkedOK /\ ProbeOK /\ FreshOK /\ IdleOK /\ WaitSuccessHasFlag)'
  BY DEF HandedOK, OutcomeOK, UnlinkedOK, ProbeOK, FreshOK, IdleOK, WaitSuccessHasFlag, Cleared,
       Unmarked
<1>2. ExitOK' BY DEF ExitOK, HandedOK, Tracked, MineOK, PlanOK
<1> QED BY <1>1, <1>2

LEMMA WorkFailsMark ==
  ASSUME Faults = {}, IInv, MarkInv, NEW j \in Job, WorkFails(j) PROVE MarkInv'
<1> USE NamesAssumption DEF WorkFails, Become, Quiet
<1>1. (HandedOK /\ UnlinkedOK /\ ProbeOK /\ FreshOK /\ IdleOK /\ WaitSuccessHasFlag)'
  BY DEF HandedOK, UnlinkedOK, ProbeOK, FreshOK, IdleOK, WaitSuccessHasFlag, Cleared, Unmarked
<1>2. ExitOK' BY DEF ExitOK, HandedOK, Tracked, MineOK, PlanOK
  (* No other worker of the token is at its work or on its way out.          *)
<1>3. OutcomeOK' BY DEF OutcomeOK, AtMostOnce, NoExitOverlap
<1> QED BY <1>1, <1>2, <1>3

LEMMA FinallyMarkMark ==
  ASSUME Faults = {}, IInv, MarkInv, NEW j \in Job, FinallyMark(j) PROVE MarkInv'
<1> USE NamesAssumption DEF FinallyMark, Become, Quiet
<1>1. (HandedOK /\ ExitOK /\ OutcomeOK /\ UnlinkedOK /\ ProbeOK /\ IdleOK /\ WaitSuccessHasFlag)'
  BY DEF HandedOK, ExitOK, OutcomeOK, UnlinkedOK, ProbeOK, IdleOK, WaitSuccessHasFlag, Cleared
  (* A worker that writes _completed succeeded, and left its flag before.    *)
<1>2. FreshOK' BY DEF FreshOK, Unmarked, OutcomeOK
<1> QED BY <1>1, <1>2

LEMMA FinallyUnlinkMark ==
  ASSUME Faults = {}, IInv, MarkInv, NEW j \in Job, FinallyUnlink(j) PROVE MarkInv'
<1> USE NamesAssumption DEF FinallyUnlink, Become, Quiet
<1>1. (ExitOK /\ OutcomeOK /\ UnlinkedOK /\ ProbeOK /\ FreshOK /\ IdleOK /\ WaitSuccessHasFlag)'
  BY DEF ExitOK, OutcomeOK, UnlinkedOK, ProbeOK, FreshOK, IdleOK, WaitSuccessHasFlag, Cleared,
       Unmarked
<1>2. HandedOK' BY DEF HandedOK, NoExitOverlap
<1> QED BY <1>1, <1>2

LEMMA KillMark ==
  ASSUME Faults = {}, IInv, MarkInv, NEW j \in Job, Kill(j) PROVE MarkInv'
<1> USE NamesAssumption DEF Kill, Become, Quiet
<1>1. (HandedOK /\ ExitOK /\ OutcomeOK /\ UnlinkedOK /\ ProbeOK /\ FreshOK /\ IdleOK /\
    WaitSuccessHasFlag)'
  BY DEF HandedOK, ExitOK, OutcomeOK, UnlinkedOK, ProbeOK, FreshOK, IdleOK, WaitSuccessHasFlag,
       Cleared, Unmarked
<1> QED BY <1>1

LEMMA AgeSubmittedMark ==
  ASSUME Faults = {}, IInv, MarkInv, NEW t \in Token, AgeSubmitted(t) PROVE MarkInv'
<1> USE NamesAssumption DEF AgeSubmitted, Quiet
<1>1. (HandedOK /\ ExitOK /\ OutcomeOK /\ UnlinkedOK /\ ProbeOK /\ FreshOK /\ IdleOK /\
    WaitSuccessHasFlag)'
  BY DEF HandedOK, ExitOK, OutcomeOK, UnlinkedOK, ProbeOK, FreshOK, IdleOK, WaitSuccessHasFlag,
       Cleared, Unmarked
<1> QED BY <1>1

LEMMA AgeQueuedMark ==
  ASSUME Faults = {}, IInv, MarkInv, NEW t \in Token, AgeQueued(t) PROVE MarkInv'
<1> USE NamesAssumption DEF AgeQueued, Quiet
<1>1. (HandedOK /\ ExitOK /\ OutcomeOK /\ UnlinkedOK /\ ProbeOK /\ FreshOK /\ IdleOK /\
    WaitSuccessHasFlag)'
  BY DEF HandedOK, ExitOK, OutcomeOK, UnlinkedOK, ProbeOK, FreshOK, IdleOK, WaitSuccessHasFlag,
       Cleared, Unmarked
<1> QED BY <1>1

LEMMA DriverStartMark ==
  ASSUME Faults = {}, IInv, MarkInv, DriverStart PROVE MarkInv'
<1> USE NamesAssumption DEF DriverStart, Step
<1>1. (HandedOK /\ ExitOK /\ OutcomeOK /\ UnlinkedOK /\ ProbeOK /\ FreshOK /\ IdleOK /\
    WaitSuccessHasFlag)'
  BY DEF HandedOK, ExitOK, OutcomeOK, UnlinkedOK, ProbeOK, FreshOK, IdleOK, WaitSuccessHasFlag,
       Cleared, Unmarked
<1> QED BY <1>1

LEMMA ScanSubmittedMark ==
  ASSUME Faults = {}, IInv, MarkInv, ScanSubmitted PROVE MarkInv'
<1> USE NamesAssumption DEF ScanSubmitted, Step
<1>1. (HandedOK /\ ExitOK /\ OutcomeOK /\ UnlinkedOK /\ ProbeOK /\ FreshOK /\ IdleOK /\
    WaitSuccessHasFlag)'
  BY DEF HandedOK, ExitOK, OutcomeOK, UnlinkedOK, ProbeOK, FreshOK, IdleOK, WaitSuccessHasFlag,
       Cleared, Unmarked
<1> QED BY <1>1

LEMMA ScanQueuedMark ==
  ASSUME Faults = {}, IInv, MarkInv, ScanQueued PROVE MarkInv'
<1> USE NamesAssumption DEF ScanQueued, Step, StillQueued, AfterReconcile
<1>1. (HandedOK /\ ExitOK /\ OutcomeOK /\ ProbeOK /\ FreshOK /\ IdleOK /\ WaitSuccessHasFlag)'
  BY DEF HandedOK, ExitOK, OutcomeOK, ProbeOK, FreshOK, IdleOK, WaitSuccessHasFlag, Unmarked
  (* A token is pending only without a sentinel and without a marker.        *)
<1>2. UnlinkedOK' BY DEF UnlinkedOK, Cleared, HandedOK, ExitOK
<1> QED BY <1>1, <1>2

LEMMA ClassifyMarkersMark ==
  ASSUME Faults = {}, IInv, MarkInv, ClassifyMarkers PROVE MarkInv'
<1> USE NamesAssumption DEF ClassifyMarkers, Step, FilesButSweep
<1>1. (ExitOK /\ OutcomeOK /\ UnlinkedOK /\ ProbeOK /\ FreshOK /\ IdleOK /\ WaitSuccessHasFlag)'
  BY DEF ExitOK, OutcomeOK, UnlinkedOK, ProbeOK, FreshOK, IdleOK, WaitSuccessHasFlag, Cleared,
       Unmarked
<1>2. HandedOK' BY DEF HandedOK, OrphansWitnessed, MineOK
<1> QED BY <1>1, <1>2

LEMMA ClassifyStaleMark ==
  ASSUME Faults = {}, IInv, MarkInv, ClassifyStale PROVE MarkInv'
<1> USE NamesAssumption DEF ClassifyStale, Step, FilesButSweep, Reclaimable, RowOf, Conclusive,
    SacctAnswers, SacctRow
<1>1. (OutcomeOK /\ UnlinkedOK /\ ProbeOK /\ FreshOK /\ IdleOK /\ WaitSuccessHasFlag)'
  BY DEF OutcomeOK, UnlinkedOK, ProbeOK, FreshOK, IdleOK, WaitSuccessHasFlag, Cleared, Unmarked
  (* sacct never calls a live job dead, and a live sentinel is not old.      *)
<1>2. HandedOK' BY DEF HandedOK, Tracked, SentinelOK
<1>3. ExitOK' BY DEF ExitOK, SentinelOK
<1> QED BY <1>1, <1>2, <1>3

LEMMA RecoverPendingMark == ASSUME Faults = {}, IInv, MarkInv, RecoverPending PROVE MarkInv'
<1> USE NamesAssumption DEF Step, FilesButSweep, AfterReconcile
<1>1. (HandedOK /\ ExitOK /\ OutcomeOK /\ ProbeOK /\ IdleOK /\ WaitSuccessHasFlag)'
  BY DEF RecoverPending, HandedOK, ExitOK, OutcomeOK, ProbeOK, IdleOK, WaitSuccessHasFlag
<1>2. UnlinkedOK'
  <2>1. dpc = "recover" /\ dpc' \in {"emit", "launch"} /\ UNCHANGED <<owner, pc>>
    BY DEF RecoverPending
  <2>2. \A t \in Token : t \notin pending => queued'[t] = queued[t]
    BY DEF RecoverPending, Rekeyed
  <2> QED BY <2>1, <2>2 DEF UnlinkedOK, Cleared
  (* A token held was pending, one alive before had no marker. *)
<1>3. FreshOK'
  <2>1. alive' \subseteq alive \cup pending BY DEF RecoverPending
  <2> QED BY <2>1 DEF RecoverPending, FreshOK, Unmarked
<1> QED BY <1>1, <1>2, <1>3

LEMMA EmitSnakefileMark ==
  ASSUME Faults = {}, IInv, MarkInv, EmitSnakefile PROVE MarkInv'
<1> USE NamesAssumption DEF EmitSnakefile, Step
<1>1. (HandedOK /\ ExitOK /\ OutcomeOK /\ UnlinkedOK /\ ProbeOK /\ FreshOK /\ IdleOK /\
    WaitSuccessHasFlag)'
  BY DEF HandedOK, ExitOK, OutcomeOK, UnlinkedOK, ProbeOK, FreshOK, IdleOK, WaitSuccessHasFlag,
       Cleared, Unmarked
<1> QED BY <1>1

LEMMA LaunchMark ==
  ASSUME Faults = {}, IInv, MarkInv, Launch PROVE MarkInv'
<1> USE NamesAssumption DEF Launch, Step
<1>1. (HandedOK /\ ExitOK /\ OutcomeOK /\ UnlinkedOK /\ ProbeOK /\ FreshOK /\ IdleOK /\
    WaitSuccessHasFlag)'
  BY DEF HandedOK, ExitOK, OutcomeOK, UnlinkedOK, ProbeOK, FreshOK, IdleOK, WaitSuccessHasFlag,
       Cleared, Unmarked
<1> QED BY <1>1

LEMMA WriteQueuedMark ==
  ASSUME Faults = {}, IInv, MarkInv, WriteQueued PROVE MarkInv'
<1> USE NamesAssumption DEF WriteQueued, Still
<1>1. (HandedOK /\ ExitOK /\ OutcomeOK /\ UnlinkedOK /\ ProbeOK /\ FreshOK /\ IdleOK /\
    WaitSuccessHasFlag)'
  BY DEF HandedOK, ExitOK, OutcomeOK, UnlinkedOK, ProbeOK, FreshOK, IdleOK, WaitSuccessHasFlag,
       Cleared, Unmarked
<1> QED BY <1>1

LEMMA SubmitMark ==
  ASSUME Faults = {}, IInv, MarkInv, NEW t \in Token, NEW j \in Job, Submit(t, j) PROVE MarkInv'
<1> USE NamesAssumption DEF Submit, Still, SettledOr
<1>1. (HandedOK /\ ExitOK /\ OutcomeOK /\ UnlinkedOK /\ ProbeOK /\ FreshOK /\ IdleOK /\
    WaitSuccessHasFlag)'
  BY DEF HandedOK, ExitOK, OutcomeOK, UnlinkedOK, ProbeOK, FreshOK, IdleOK, WaitSuccessHasFlag,
       Cleared, Unmarked
<1> QED BY <1>1

LEMMA PrintSubmissionMark ==
  ASSUME Faults = {}, IInv, MarkInv, NEW t \in Token, PrintSubmission(t) PROVE MarkInv'
<1> USE NamesAssumption DEF PrintSubmission, Still
<1>1. (HandedOK /\ ExitOK /\ OutcomeOK /\ UnlinkedOK /\ ProbeOK /\ FreshOK /\ IdleOK /\
    WaitSuccessHasFlag)'
  BY DEF HandedOK, ExitOK, OutcomeOK, UnlinkedOK, ProbeOK, FreshOK, IdleOK, WaitSuccessHasFlag,
       Cleared, Unmarked
<1> QED BY <1>1

LEMMA JobReportedMark ==
  ASSUME Faults = {}, IInv, MarkInv, NEW t \in Token, JobReported(t) PROVE MarkInv'
<1> USE NamesAssumption DEF JobReported, Still
<1>1. (HandedOK /\ ExitOK /\ UnlinkedOK /\ ProbeOK /\ IdleOK)'
  BY DEF HandedOK, ExitOK, UnlinkedOK, ProbeOK, IdleOK, Cleared
  (* The flag removed is not that of a worker on its way out,                *)
<1>2. OutcomeOK' BY DEF OutcomeOK, ExitOK
  (* nor that of a token a wait rule stands for.                             *)
<1>3. FreshOK' BY DEF FreshOK, Unmarked, MineOK, IdleOK
<1>4. WaitSuccessHasFlag' BY DEF WaitSuccessHasFlag, MineOK
<1> QED BY <1>1, <1>2, <1>3, <1>4

LEMMA WaitBeginMark ==
  ASSUME Faults = {}, IInv, MarkInv, NEW t \in Token, WaitBegin(t) PROVE MarkInv'
<1> USE NamesAssumption DEF WaitBegin, Still, SubmittedJobid
<1>1. (HandedOK /\ ExitOK /\ OutcomeOK /\ UnlinkedOK /\ FreshOK /\ IdleOK /\ WaitSuccessHasFlag)'
  BY DEF HandedOK, ExitOK, OutcomeOK, UnlinkedOK, FreshOK, IdleOK, WaitSuccessHasFlag, Cleared,
       Unmarked
<1>2. ProbeOK'
  <2>1. ASSUME NEW j \in Job, owner[j] = t, InSlurm(j) PROVE SubmittedJobid(t) \in {j, NoJob}
    <3>1. mine[t] = NoJob BY DEF MineOK
    <3>2. CASE Waiting(j) BY <2>1, <3>1, <3>2 DEF OrphansWitnessed, Tracked
    <3>3. CASE Handed(j)  BY <2>1, <3>3 DEF HandedOK
      (* Past its work, a worker has unlinked _queued. *)
    <3>4. CASE Exiting(j) BY <2>1, <3>4 DEF ExitOK, UnlinkedOK, Cleared
    <3> QED BY <2>1, <3>2, <3>3, <3>4 DEF WorkerPc
  <2> QED BY <2>1 DEF ProbeOK
<1> QED BY <1>1, <1>2

LEMMA WaitPollMark ==
  ASSUME Faults = {}, IInv, MarkInv, NEW t \in Token, WaitPoll(t) PROVE MarkInv'
<1> USE NamesAssumption DEF WaitPoll, Still
<1>1. (HandedOK /\ ExitOK /\ OutcomeOK /\ UnlinkedOK /\ ProbeOK /\ FreshOK /\ IdleOK)'
  BY DEF HandedOK, ExitOK, OutcomeOK, UnlinkedOK, ProbeOK, FreshOK, IdleOK, Cleared, Unmarked
<1>2. WaitSuccessHasFlag' BY DEF WaitSuccessHasFlag, FreshOK, Unmarked, WaitOK
<1> QED BY <1>1, <1>2

LEMMA ProbeDeadMark ==
  ASSUME Faults = {}, IInv, MarkInv, NEW t \in Token, ProbeDead(t) PROVE MarkInv'
<1> USE NamesAssumption DEF ProbeDead, Still, SacctRow
<1>1. (ExitOK /\ UnlinkedOK /\ ProbeOK /\ FreshOK /\ IdleOK /\ WaitSuccessHasFlag)'
  BY DEF ExitOK, UnlinkedOK, ProbeOK, FreshOK, IdleOK, WaitSuccessHasFlag, Cleared, Unmarked
  (* The probed job is the only one SLURM could still have.                  *)
<1>2. HandedOK' BY DEF HandedOK, WaitOK
<1>3. OutcomeOK' BY DEF OutcomeOK, ProbeOK, WaitOK
<1> QED BY <1>1, <1>2, <1>3

LEMMA ProbeUnsureMark ==
  ASSUME Faults = {}, IInv, MarkInv, NEW t \in Token, ProbeUnsure(t) PROVE MarkInv'
<1> USE NamesAssumption DEF ProbeUnsure, Still
<1>1. (HandedOK /\ ExitOK /\ OutcomeOK /\ UnlinkedOK /\ ProbeOK /\ FreshOK /\ IdleOK /\
    WaitSuccessHasFlag)'
  BY DEF HandedOK, ExitOK, OutcomeOK, UnlinkedOK, ProbeOK, FreshOK, IdleOK, WaitSuccessHasFlag,
       Cleared, Unmarked
<1> QED BY <1>1

LEMMA WaitExpiresMark ==
  ASSUME Faults = {}, IInv, MarkInv, NEW t \in Token, WaitExpires(t) PROVE MarkInv'
<1> USE NamesAssumption DEF WaitExpires, Still
<1>1. (HandedOK /\ ExitOK /\ OutcomeOK /\ UnlinkedOK /\ ProbeOK /\ FreshOK /\ IdleOK /\
    WaitSuccessHasFlag)'
  BY DEF HandedOK, ExitOK, OutcomeOK, UnlinkedOK, ProbeOK, FreshOK, IdleOK, WaitSuccessHasFlag,
       Cleared, Unmarked
<1> QED BY <1>1

LEMMA DriverDieMark ==
  ASSUME Faults = {}, IInv, MarkInv, DriverDie PROVE MarkInv'
<1> USE NamesAssumption DEF DriverDie, Step
<1>1. (HandedOK /\ ExitOK /\ OutcomeOK /\ UnlinkedOK /\ ProbeOK /\ FreshOK /\ IdleOK /\
    WaitSuccessHasFlag)'
  BY DEF HandedOK, ExitOK, OutcomeOK, UnlinkedOK, ProbeOK, FreshOK, IdleOK, WaitSuccessHasFlag,
       Cleared, Unmarked
<1> QED BY <1>1

LEMMA ForceRerunMark ==
  ASSUME Faults = {}, IInv, MarkInv, NEW t \in Token, ForceRerun(t) PROVE MarkInv'
<1> USE NamesAssumption DEF ForceRerun, Quiet, SettledOr
<1>1. (HandedOK /\ ExitOK /\ OutcomeOK /\ UnlinkedOK /\ ProbeOK /\ IdleOK)'
  BY DEF HandedOK, ExitOK, OutcomeOK, UnlinkedOK, ProbeOK, IdleOK, Cleared
  (* Nothing is planned while the operator removes a flag.                   *)
<1>2. FreshOK' BY DEF FreshOK, Unmarked, IdleOK
<1>3. WaitSuccessHasFlag' BY DEF WaitSuccessHasFlag, IdleOK
<1> QED BY <1>1, <1>2, <1>3

LEMMA PruneSettledMarkersMark ==
  ASSUME Faults = {}, IInv, MarkInv, PruneSettledMarkers PROVE MarkInv'
<1> USE NamesAssumption DEF PruneSettledMarkers, Quiet, SettledOr
<1>1. (HandedOK /\ ExitOK /\ OutcomeOK /\ UnlinkedOK /\ ProbeOK /\ FreshOK /\ IdleOK /\
    WaitSuccessHasFlag)'
  BY DEF HandedOK, ExitOK, OutcomeOK, UnlinkedOK, ProbeOK, FreshOK, IdleOK, WaitSuccessHasFlag,
       Cleared, Unmarked
<1> QED BY <1>1

LEMMA StutterMark == ASSUME MarkInv, UNCHANGED vars PROVE MarkInv'
<1> USE DEF vars
<1>1. (HandedOK /\ ExitOK /\ OutcomeOK /\ UnlinkedOK)'
  BY DEF HandedOK, ExitOK, OutcomeOK, UnlinkedOK, Cleared
<1>2. (ProbeOK /\ FreshOK /\ IdleOK /\ WaitSuccessHasFlag)'
  BY DEF ProbeOK, FreshOK, IdleOK, WaitSuccessHasFlag, Unmarked
<1> QED BY <1>1, <1>2

LEMMA InitMark == Init => MarkInv
<1> SUFFICES ASSUME Init PROVE MarkInv
  OBVIOUS
<1>1. HandedOK /\ ExitOK /\ OutcomeOK /\ UnlinkedOK
  BY DEF Init, HandedOK, ExitOK, OutcomeOK, UnlinkedOK, Cleared
<1>2. ProbeOK /\ FreshOK /\ IdleOK /\ WaitSuccessHasFlag
  BY DEF Init, ProbeOK, FreshOK, IdleOK, WaitSuccessHasFlag
<1> QED BY <1>1, <1>2

LEMMA NextMark == ASSUME Faults = {}, IInv, MarkInv, [Next]_vars PROVE MarkInv'
<1>1. ASSUME NEW j \in Job, Worker(j) \/ Kill(j) PROVE MarkInv'
  BY <1>1, JobStartMark, WriteSubmittedMark, UnlinkQueuedMark, ClearFailedMark, WorkSucceedsMark,
     WorkFailsMark, FinallyMarkMark, FinallyUnlinkMark, KillMark DEF Worker
<1>2. ASSUME NEW t \in Token, AgeSubmitted(t) \/ AgeQueued(t) \/ ForceRerun(t) PROVE MarkInv'
  BY <1>2, AgeSubmittedMark, AgeQueuedMark, ForceRerunMark
<1>3. CASE Reconcile
  BY <1>3, DriverStartMark, ScanSubmittedMark, ScanQueuedMark, ClassifyMarkersMark,
     ClassifyStaleMark, RecoverPendingMark, EmitSnakefileMark, LaunchMark DEF Reconcile
<1>4. CASE WriteQueued \/ DriverDie \/ PruneSettledMarkers
  BY <1>4, WriteQueuedMark, DriverDieMark, PruneSettledMarkersMark
<1>5. ASSUME NEW t \in Token, NEW j \in Job, Submit(t, j) PROVE MarkInv'
  BY <1>5, SubmitMark
<1>6. ASSUME NEW t \in Token, PrintSubmission(t) \/ JobReported(t) PROVE MarkInv'
  BY <1>6, PrintSubmissionMark, JobReportedMark
<1>7. ASSUME NEW t \in Token, WaitRule(t) PROVE MarkInv'
  BY <1>7, WaitBeginMark, WaitPollMark, ProbeDeadMark, ProbeUnsureMark, WaitExpiresMark DEF WaitRule
<1>8. CASE UNCHANGED vars BY <1>8, StutterMark
<1> QED BY <1>1, <1>2, <1>3, <1>4, <1>5, <1>6, <1>7, <1>8 DEF Next

---------------------------------------------------------------------------
(* A simulation is never queued or computed by two SLURM jobs, for any     *)
(* number of tokens, jobs, driver deaths and reconciles, as long as the    *)
(* environment shows none of FaultKinds.                                   *)
THEOREM AtMostOnceHolds == ASSUME Faults = {} PROVE Spec => []AtMostOnce
<1>1. IInv /\ [Next]_vars => IInv' BY NextInd
<1>2. IInv => AtMostOnce OBVIOUS
<1> QED BY InitInd, <1>1, <1>2, PTL DEF Spec

(* The protocol implements SingleFlight: sbatch is its Begin, the end of a *)
(* worker's computation or the loss of its job is its End, and every other *)
(* step of a worker, a reconcile, a driver or the operator is invisible.   *)
THEOREM Implements == ASSUME Faults = {} PROVE Spec => AtMostOnceSpec
<1>1. Init => SF!Init
  BY DEF Init, SF!Init, Running
<1>2. ASSUME IInv, [Next]_vars PROVE [SF!Next]_Running
  <2> USE DEF SF!Next
  <2>1. ASSUME NEW t \in Token, NEW j \in Job, Submit(t, j)
        PROVE  SF!Begin(j, t)
    <3>1. \A k \in Job : ~(Executing(k) /\ owner[k] = t)
      BY <1>2, <2>1, NamesAssumption DEF Submit, PlanOK, MineOK
    <3>2. Running' = Running \cup {<<j, t>>}
      BY <1>2, <2>1 DEF Submit, Running
    <3> QED BY <3>1, <3>2 DEF SF!Begin, Running
  <2>2. ASSUME NEW j \in Job, Worker(j) \/ Kill(j)
        PROVE  Running' = Running \/ \E t \in Token : SF!End(j, t)
    <3>1. owner' = owner /\ \A k \in Job \ {j} : pc'[k] = pc[k]
      BY <1>2, <2>2 DEF Worker, JobStart, WriteSubmitted, UnlinkQueued, ClearFailed, WorkSucceeds,
                        WorkFails, FinallyMark, FinallyUnlink, Kill, Quiet, Become
    <3>2. Executing(j)' => Executing(j)
      BY <1>2, <2>2 DEF Worker, JobStart, WriteSubmitted, UnlinkQueued, ClearFailed, WorkSucceeds,
                        WorkFails, FinallyMark, FinallyUnlink, Kill, Quiet, Become
    <3>3. CASE Executing(j) /\ ~(Executing(j)')
      <4>1. owner[j] \in Token BY <1>2, <3>3
      <4>2. <<j, owner[j]>> \in Running BY <3>3, <4>1 DEF Running
      <4>3. Running' = Running \ {<<j, owner[j]>>} BY <3>1, <3>3, <4>1 DEF Running
      <4> QED BY <4>1, <4>2, <4>3 DEF SF!End
    <3>4. CASE ~(Executing(j) /\ ~(Executing(j)'))
      <4>1. \A k \in Job : Executing(k)' <=> Executing(k) BY <3>1, <3>2, <3>4
      <4>2. ASSUME NEW q \in Job \X Token
            PROVE  (Executing(q[1]) /\ owner[q[1]] = q[2])' <=> Executing(q[1]) /\ owner[q[1]] = q[2]
        <5>1. q[1] \in Job OBVIOUS
        <5>2. Executing(q[1])' <=> Executing(q[1]) BY <4>1, <5>1
        <5> HIDE DEF Executing
        <5> QED BY <3>1, <5>2
      <4> HIDE DEF Executing
      <4> QED BY <4>2 DEF Running
    <3> QED BY <3>2, <3>3, <3>4
  <2>3. CASE UNCHANGED jobs
    BY <2>3 DEF Running
  <2>4. ASSUME NEW j \in Job, Worker(j) \/ Kill(j) PROVE [SF!Next]_Running
    BY <1>2, <2>2, <2>4
  <2>5. (\E t \in Token, j \in Job : Submit(t, j)) \/ (\E j \in Job : Worker(j) \/ Kill(j))
        \/ UNCHANGED jobs
    BY <1>2 DEF Next, Reconcile, WaitRule, AgeSubmitted, AgeQueued, DriverStart, ScanSubmitted,
                ScanQueued, ClassifyMarkers, ClassifyStale, RecoverPending, EmitSnakefile, Launch,
                WriteQueued, PrintSubmission, JobReported, WaitBegin, WaitPoll, ProbeDead,
                ProbeUnsure, WaitExpires, ForceRerun, DriverDie, PruneSettledMarkers, Quiet, vars
  <2> QED BY <2>1, <2>3, <2>4, <2>5
<1>3. IInv /\ [Next]_vars => IInv' BY NextInd
<1> QED BY InitInd, <1>1, <1>2, <1>3, PTL DEF Spec, AtMostOnceSpec, SF!Spec

(* A wait rule reports success only over the flag of the worker it waited  *)
(* for: the _completed marker it saw is never the leftover of an attempt   *)
(* whose flag a forced rerun or a reported failure has removed since.      *)
THEOREM WaitSuccessIsReal == ASSUME Faults = {} PROVE Spec => []WaitSuccessHasFlag
<1>1. IInv /\ [Next]_vars => IInv' BY NextInd
<1>2. IInv /\ MarkInv /\ [Next]_vars => MarkInv' BY NextMark
<1>3. MarkInv => WaitSuccessHasFlag OBVIOUS
<1> QED BY InitInd, InitMark, <1>1, <1>2, <1>3, PTL DEF Spec

(* A worker that finished its simulation leaves _completed and no _failed, *)
(* whatever an earlier attempt, another job of its token or the probe of a *)
(* wait rule wrote meanwhile.                                              *)
THEOREM SuccessMarked == ASSUME Faults = {} PROVE Spec => SuccessIsMarked
<1> DEFINE Marked == \A j \in Job : pc[j] = "okMark" /\ pc'[j] = "okUnlink"
                                      => owner[j] \in completed' \ failed'
<1>1. IInv /\ [Next]_vars => IInv' BY NextInd
<1>2. IInv /\ MarkInv /\ [Next]_vars => MarkInv' BY NextMark
<1>3. ASSUME IInv, MarkInv, [Next]_vars PROVE [Marked]_vars
  <2> SUFFICES ASSUME NEW j \in Job, pc[j] = "okMark", pc'[j] = "okUnlink"
               PROVE  owner[j] \in completed' \ failed'
    OBVIOUS
  <2>1. FinallyMark(j)
    <3>1. ASSUME NEW k \in Job, Worker(k) \/ Kill(k) PROVE k = j /\ FinallyMark(k)
      BY <1>3, <3>1 DEF Worker, JobStart, WriteSubmitted, UnlinkQueued, ClearFailed, WorkSucceeds,
                        WorkFails, FinallyMark, FinallyUnlink, Kill, Become
    <3>2. ASSUME NEW t \in Token, NEW k \in Job, Submit(t, k) PROVE FALSE
      BY <1>3, <3>2 DEF Submit
    <3>3. pc' # pc OBVIOUS
    <3> QED
      BY <1>3, <3>1, <3>2, <3>3
      DEF Next, Reconcile, WaitRule, AgeSubmitted, AgeQueued, DriverStart, ScanSubmitted,
          ScanQueued, ClassifyMarkers, ClassifyStale, RecoverPending, EmitSnakefile, Launch,
          WriteQueued, PrintSubmission, JobReported, WaitBegin, WaitPoll, ProbeDead, ProbeUnsure,
          WaitExpires, ForceRerun, DriverDie, PruneSettledMarkers, Quiet, vars
  <2>2. owner[j] \in Token /\ owner[j] \notin failed BY <1>3 DEF OutcomeOK
  <2> QED BY <1>3, <2>1, <2>2 DEF FinallyMark
<1> QED BY InitInd, InitMark, <1>1, <1>2, <1>3, PTL DEF Spec, SuccessIsMarked
---------------------------------------------------------------------------
(* What a reconcile reads is evidence, and it destroys none, in far more   *)
(* situations than those AtMostOnce survives: drivers that die with live   *)
(* jobs unwitnessed, and workers slow to exit.  A worker may even start    *)
(* between the reads, unless dead drivers have left jobs behind unseen.    *)
(* Only a _queued file that ages out under its job is not survived.        *)
Bearable ==
  /\ "old_queue" \notin Faults
  /\ "handoff" \in Faults => Faults \cap {"die_launching", "die_pending", "die_working"} = {}

(* The job id that the sweep asks sacct about is still the live sentinel's. *)
JidOK ==
  dpc = "sacct" => \A t \in seen :
    submitted[t] # NoJob /\ Executing(submitted[t]) => jid[t] = submitted[t]

(* Where a worker may start between the reads, the sentinel it replaces is *)
(* not one the reconcile has seen, as there was none.                      *)
NoSentinelYet ==
  dpc # "up" => /\ AtMostOnce
                /\ \A j \in Job : Waiting(j) => submitted[owner[j]] = NoJob
Unseen ==
  dpc \in {"queue", "sift", "sacct"} => \A j \in Job : Waiting(j) => owner[j] \notin seen
HandoffOK == "handoff" \in Faults => NoSentinelYet /\ Unseen

EvidenceInv == TypeOK /\ MineOK /\ SentinelOK /\ QueuedOK /\ JidOK /\ HandoffOK

LEMMA WorkerEvidence ==
  ASSUME Bearable, EvidenceInv, NEW j \in Job, Worker(j) \/ Kill(j) PROVE EvidenceInv'
<1> USE NamesAssumption DEF EvidenceInv, Quiet, Become, MayHandOff, Scanning
<1>1. TypeOK' BY NextTypeOK DEF Next
<1>2. MineOK'
  BY <1>1 DEF MineOK, Worker, JobStart, WriteSubmitted, UnlinkQueued, ClearFailed, WorkSucceeds,
              WorkFails, FinallyMark, FinallyUnlink, Kill
<1>3. CASE JobStart(j) \/ Kill(j) \/ ClearFailed(j) \/ WorkSucceeds(j) \/ WorkFails(j)
           \/ FinallyMark(j)
  <2>1. /\ UNCHANGED <<queued, submitted, subOld, qOld, log, owner, dpc, seen, jid>>
        /\ \A k \in Job : /\ Executing(k)' => Executing(k)
                          /\ Waiting(k)' => Waiting(k)
                          /\ InSlurm(k)' => InSlurm(k)
                          /\ pc[k] # "unused" => pc'[k] # "unused"
                          /\ ~Waiting(k) => ~(Waiting(k)')
    BY <1>1, <1>3 DEF JobStart, Kill, ClearFailed, WorkSucceeds, WorkFails, FinallyMark
  <2>2. SentinelOK' BY <1>1, <2>1 DEF SentinelOK
  <2>3. QueuedOK' BY <1>1, <2>1 DEF QueuedOK
  <2>4. JidOK' BY <1>1, <2>1 DEF JidOK
  <2>5. HandoffOK' BY <1>1, <2>1 DEF HandoffOK, NoSentinelYet, Unseen, AtMostOnce
  <2> QED BY <1>1, <1>2, <2>2, <2>3, <2>4, <2>5
<1>4. CASE WriteSubmitted(j)
  <2> USE DEF WriteSubmitted
  <2>1. SentinelOK' /\ QueuedOK' BY <1>1, <1>4 DEF SentinelOK, QueuedOK
  (* It starts between the reads only where the reconcile has not seen it.   *)
  <2>2. JidOK' BY <1>1, <1>4 DEF JidOK, HandoffOK, Unseen
  <2>3. HandoffOK' BY <1>1, <1>4 DEF HandoffOK, NoSentinelYet, Unseen, AtMostOnce
  <2> QED BY <1>1, <1>2, <2>1, <2>2, <2>3
<1>5. CASE UnlinkQueued(j)
  <2> USE DEF UnlinkQueued
  <2>1. SentinelOK' /\ QueuedOK' BY <1>1, <1>5 DEF SentinelOK, QueuedOK
  <2>2. JidOK' /\ HandoffOK'
    BY <1>1, <1>5 DEF JidOK, HandoffOK, NoSentinelYet, Unseen, AtMostOnce
  <2> QED BY <1>1, <1>2, <2>1, <2>2
<1>6. CASE FinallyUnlink(j)
  <2> USE DEF FinallyUnlink
  <2>1. SentinelOK' /\ QueuedOK' BY <1>1, <1>6 DEF SentinelOK, QueuedOK
  <2>2. JidOK' /\ HandoffOK'
    BY <1>1, <1>6 DEF JidOK, HandoffOK, NoSentinelYet, Unseen, AtMostOnce
  <2> QED BY <1>1, <1>2, <2>1, <2>2
<1> QED BY <1>3, <1>4, <1>5, <1>6 DEF Worker

(* The reconcile re-keys a _queued file to a printed id, and renews it.    *)
LEMMA Rekeys ==
  ASSUME TypeOK, RecoverPending
  PROVE  /\ qOld' \subseteq qOld
         /\ \A t \in Token : queued'[t] \in Job =>
              queued'[t] = queued[t] \/ (queued'[t] = log[t] /\ t \notin qOld')
<1> DEFINE ids == [t \in Token |-> Rekeyed(t)]
           cand == {t \in pending : log[t] # NoJob}
           old == qOld \ {t \in pending : ids[t] # queued[t]}
           held(row, squeue) ==
             {t \in cand : Held(t, RowOf(row, ids, cand, t), ids[t],
                                squeue /\ Conclusive(ids, cand, t), old)}
<1>1. PICK row \in SacctAnswers, squeue \in BOOLEAN :
        /\ queued' = [t \in Token |-> IF t \in cand \ held(row, squeue) THEN NoJob ELSE ids[t]]
        /\ qOld' = old
  BY DEF RecoverPending
<1>2. ASSUME NEW t \in Token, queued'[t] \in Job
      PROVE  queued'[t] = queued[t] \/ (queued'[t] = log[t] /\ t \notin qOld')
  <2>1. queued'[t] = ids[t] BY <1>1, <1>2, NamesAssumption
  <2> QED BY <1>1, <1>2, <2>1, NamesAssumption DEF Rekeyed
<1> QED BY <1>1, <1>2

LEMMA ReconcileEvidence ==
  ASSUME Bearable, EvidenceInv, Reconcile PROVE EvidenceInv'
<1> USE NamesAssumption DEF EvidenceInv, Step
<1>1. TypeOK' BY NextTypeOK DEF Next
<1>2. UNCHANGED <<owner, pc, log, mine, subOld>> /\ dpc # "up"
  BY DEF Reconcile, DriverStart, ScanSubmitted, ScanQueued, ClassifyMarkers, ClassifyStale,
         RecoverPending, EmitSnakefile, Launch, FilesButSweep
<1>3. MineOK' BY <1>2 DEF MineOK
<1>4. \A t \in Token : submitted'[t] \in {submitted[t], NoJob}
  BY DEF Reconcile, DriverStart, ScanSubmitted, ScanQueued, ClassifyMarkers, ClassifyStale,
         RecoverPending, EmitSnakefile, Launch
<1>5. SentinelOK' BY <1>1, <1>2, <1>4 DEF SentinelOK
<1>6. QueuedOK'
  <2>1. CASE RecoverPending BY <1>1, <1>2, <2>1, Rekeys DEF QueuedOK
  <2>2. CASE ~RecoverPending
    <3>1. UNCHANGED <<queued, qOld>>
      BY <2>2 DEF Reconcile, DriverStart, ScanSubmitted, ScanQueued, ClassifyMarkers,
                  ClassifyStale, EmitSnakefile, Launch
    <3> QED BY <1>1, <1>2, <3>1 DEF QueuedOK
  <2> QED BY <2>1, <2>2
<1>7. JidOK'
  <2>1. CASE ClassifyMarkers BY <1>1, <2>1 DEF ClassifyMarkers, JidOK
  <2>2. CASE ~ClassifyMarkers
    <3>1. dpc' # "sacct"
      BY <2>2 DEF Reconcile, DriverStart, ScanSubmitted, ScanQueued, ClassifyStale,
                  RecoverPending, EmitSnakefile, Launch, AfterReconcile
    <3> QED BY <3>1 DEF JidOK
  <2> QED BY <2>1, <2>2
<1>8. HandoffOK'
  <2> SUFFICES ASSUME "handoff" \in Faults PROVE NoSentinelYet' /\ Unseen'
    BY DEF HandoffOK
  <2>1. NoSentinelYet /\ Unseen BY DEF HandoffOK
  <2>2. NoSentinelYet' BY <1>1, <1>2, <1>4, <2>1 DEF NoSentinelYet, AtMostOnce
  <2>3. CASE ScanSubmitted BY <1>1, <2>1, <2>2, <2>3 DEF ScanSubmitted, NoSentinelYet, Unseen
  <2>4. CASE ScanQueued \/ ClassifyMarkers
    <3>1. seen' \subseteq seen /\ dpc \in {"queue", "sift"} BY <2>4 DEF ScanQueued, ClassifyMarkers
    <3> QED BY <1>1, <1>2, <2>1, <2>2, <3>1 DEF Unseen
  <2>5. CASE ~(ScanSubmitted \/ ScanQueued \/ ClassifyMarkers)
    <3>1. dpc' \notin {"queue", "sift", "sacct"}
      BY <2>5 DEF Reconcile, DriverStart, ClassifyStale, RecoverPending, EmitSnakefile, Launch,
                  AfterReconcile
    <3> QED BY <2>2, <3>1 DEF Unseen
  <2> QED BY <2>2, <2>3, <2>4, <2>5
<1> QED BY <1>1, <1>3, <1>5, <1>6, <1>7, <1>8

(* The end of a driver, without the deaths that leave a job unwitnessed,   *)
(* leaves at most one live job per token, and without a sentinel in the    *)
(* way of one that waits.                                                  *)
LEMMA DriverDieEvidence ==
  ASSUME Bearable, EvidenceInv, DriverDie PROVE EvidenceInv'
<1> USE NamesAssumption DEF EvidenceInv, DriverDie, Step
<1>1. TypeOK' BY NextTypeOK DEF Next
<1>2. (MineOK /\ SentinelOK /\ QueuedOK /\ JidOK)'
  BY <1>1 DEF MineOK, SentinelOK, QueuedOK, JidOK
<1>3. HandoffOK'
  <2> SUFFICES ASSUME "handoff" \in Faults PROVE NoSentinelYet' /\ Unseen'
    BY DEF HandoffOK
  <2>1. ASSUME NEW j \in Job, Executing(j) PROVE Witnessed(j)
    BY <2>1 DEF Bearable, Loss
  <2>2. \A j \in Job : Waiting(j) => submitted[owner[j]] = NoJob /\ log[owner[j]] = j
    BY <2>1
  <2>3. \A j \in Job : Handed(j) => submitted[owner[j]] = j
    BY <2>1
  <2>4. ASSUME NEW j \in Job, NEW k \in Job, Executing(j), Executing(k), owner[j] = owner[k]
        PROVE  j = k
    <3>1. (Waiting(j) \/ Handed(j)) /\ (Waiting(k) \/ Handed(k)) BY <2>4
    <3> QED BY <2>2, <2>3, <2>4, <3>1
  <2>5. AtMostOnce' BY <2>4 DEF AtMostOnce
  <2> QED BY <2>2, <2>5 DEF NoSentinelYet, Unseen
<1> QED BY <1>1, <1>2, <1>3

LEMMA DriverEvidence ==
  ASSUME Bearable, EvidenceInv, NEW t \in Token,
         \/ WriteQueued
         \/ \E j \in Job : Submit(t, j)
         \/ PrintSubmission(t) \/ JobReported(t) \/ WaitRule(t)
  PROVE  EvidenceInv'
<1> USE NamesAssumption DEF EvidenceInv, Still
<1>1. TypeOK' BY NextTypeOK DEF Next
<1>2. dpc = "up" /\ dpc' = "up" /\ UNCHANGED subOld
  BY DEF WriteQueued, Submit, PrintSubmission, JobReported, WaitRule, WaitBegin, WaitPoll,
         ProbeDead, ProbeUnsure, WaitExpires
<1>3. JidOK' /\ HandoffOK' BY <1>2 DEF JidOK, HandoffOK, NoSentinelYet, Unseen
<1>4. CASE WriteQueued
  <2>1. (MineOK /\ SentinelOK /\ QueuedOK)'
    BY <1>1, <1>4 DEF WriteQueued, MineOK, SentinelOK, QueuedOK
  <2> QED BY <1>1, <1>3, <2>1
<1>5. ASSUME NEW j \in Job, Submit(t, j) PROVE EvidenceInv'
  <2>1. (MineOK /\ SentinelOK /\ QueuedOK)'
    BY <1>1, <1>5 DEF Submit, MineOK, SentinelOK, QueuedOK
  <2> QED BY <1>1, <1>3, <2>1
<1>6. CASE PrintSubmission(t)
  <2>1. (MineOK /\ SentinelOK /\ QueuedOK)'
    BY <1>1, <1>6 DEF PrintSubmission, MineOK, SentinelOK, QueuedOK
  <2> QED BY <1>1, <1>3, <2>1
<1>7. CASE JobReported(t)
  <2>1. (MineOK /\ SentinelOK /\ QueuedOK)'
    BY <1>1, <1>7 DEF JobReported, MineOK, SentinelOK, QueuedOK
  <2> QED BY <1>1, <1>3, <2>1
<1>8. CASE WaitRule(t)
  <2>1. UNCHANGED <<queued, qOld, log, jobs, plan, mine>> /\ rule[t] # "active"
    BY <1>8 DEF WaitRule, WaitBegin, WaitPoll, ProbeDead, ProbeUnsure, WaitExpires
  <2>2. /\ \A u \in Token : submitted'[u] \in {submitted[u], NoJob}
        /\ \A u \in Token \ {t} : rule'[u] = rule[u]
    BY <1>8 DEF WaitRule, WaitBegin, WaitPoll, ProbeDead, ProbeUnsure, WaitExpires
  <2>3. MineOK' BY <1>2, <2>1, <2>2 DEF MineOK
  <2>4. SentinelOK' BY <1>1, <1>2, <2>1, <2>2 DEF SentinelOK
  <2>5. QueuedOK' BY <1>1, <2>1 DEF QueuedOK
  <2> QED BY <1>1, <1>3, <2>3, <2>4, <2>5
<1> QED BY <1>4, <1>5, <1>6, <1>7, <1>8

LEMMA OutsideEvidence ==
  ASSUME Bearable, EvidenceInv,
         \/ \E t \in Token : AgeSubmitted(t) \/ AgeQueued(t) \/ ForceRerun(t)
         \/ PruneSettledMarkers
  PROVE  EvidenceInv'
<1> USE NamesAssumption DEF EvidenceInv, Quiet
<1>1. TypeOK' BY NextTypeOK DEF Next
<1>2. /\ UNCHANGED <<queued, submitted, log, jobs, dpc, seen, jid, plan, rule, mine>>
      /\ \A t \in Token : t \in subOld' \ subOld => ~InSlurm(submitted[t])
      /\ \A t \in Token : t \in qOld' \ qOld => \A j \in JobsOf(t) : ~Executing(j)
  BY DEF AgeSubmitted, AgeQueued, ForceRerun, PruneSettledMarkers, Bearable
<1>3. MineOK' /\ JidOK' BY <1>2 DEF MineOK, JidOK
<1>4. SentinelOK' BY <1>1, <1>2 DEF SentinelOK
<1>5. QueuedOK' BY <1>1, <1>2 DEF QueuedOK
<1>6. HandoffOK' BY <1>2 DEF HandoffOK, NoSentinelYet, Unseen, AtMostOnce
<1> QED BY <1>1, <1>3, <1>4, <1>5, <1>6

LEMMA InitEvidence == Init => EvidenceInv
<1> SUFFICES ASSUME Init PROVE EvidenceInv
  OBVIOUS
<1>1. TypeOK BY InitTypeOK
<1>2. MineOK /\ SentinelOK /\ QueuedOK
  BY NamesAssumption DEF Init, MineOK, SentinelOK, QueuedOK
<1>3. JidOK /\ HandoffOK BY DEF Init, JidOK, HandoffOK, NoSentinelYet, Unseen, AtMostOnce
<1> QED BY <1>1, <1>2, <1>3 DEF EvidenceInv

LEMMA NextEvidence == ASSUME Bearable, EvidenceInv, [Next]_vars PROVE EvidenceInv'
<1>1. ASSUME NEW j \in Job, Worker(j) \/ Kill(j) PROVE EvidenceInv'
  BY <1>1, WorkerEvidence
<1>2. CASE Reconcile BY <1>2, ReconcileEvidence
<1>3. CASE DriverDie BY <1>3, DriverDieEvidence
<1>4. ASSUME NEW t \in Token,
             (\E j \in Job : Submit(t, j)) \/ PrintSubmission(t) \/ JobReported(t) \/ WaitRule(t)
      PROVE  EvidenceInv'
  BY <1>4, DriverEvidence
<1>5. CASE (\E t \in Token : AgeSubmitted(t) \/ AgeQueued(t) \/ ForceRerun(t))
           \/ PruneSettledMarkers
  BY <1>5, OutsideEvidence
<1>6. CASE WriteQueued
  <2> USE NamesAssumption DEF EvidenceInv, WriteQueued, Still
  <2>1. TypeOK' BY <1>6, NextTypeOK DEF Next
  <2>2. (MineOK /\ SentinelOK /\ QueuedOK)' BY <1>6, <2>1 DEF MineOK, SentinelOK, QueuedOK
  <2>3. (JidOK /\ HandoffOK)' BY <1>6 DEF JidOK, HandoffOK, NoSentinelYet, Unseen
  <2> QED BY <2>1, <2>2, <2>3
<1>7. CASE UNCHANGED vars
  <2>1. TypeOK' BY <1>7, StutterTypeOK DEF EvidenceInv
  <2>2. (MineOK /\ SentinelOK /\ QueuedOK)'
    BY <1>7 DEF EvidenceInv, vars, MineOK, SentinelOK, QueuedOK
  <2>3. (JidOK /\ HandoffOK)'
    BY <1>7 DEF EvidenceInv, vars, JidOK, HandoffOK, NoSentinelYet, Unseen, AtMostOnce
  <2> QED BY <2>1, <2>2, <2>3 DEF EvidenceInv
<1> QED BY <1>1, <1>2, <1>3, <1>4, <1>5, <1>6, <1>7 DEF Next

(* The recovery of pending tokens keeps what witnesses a waiting job.      *)
LEMMA RecoverKeeps ==
  ASSUME EvidenceInv, RecoverPending, NEW j \in Job, Waiting(j), Witnessed(j)
  PROVE  queued'[owner[j]] # NoJob
<1> USE DEF EvidenceInv
<1> DEFINE t == owner[j]
           ids == [u \in Token |-> Rekeyed(u)]
           cand == {u \in pending : log[u] # NoJob}
           old == qOld \ {u \in pending : ids[u] # queued[u]}
           held(row, squeue) ==
             {u \in cand : Held(u, RowOf(row, ids, cand, u), ids[u],
                                squeue /\ Conclusive(ids, cand, u), old)}
<1>1. PICK row \in SacctAnswers, squeue \in BOOLEAN :
        queued' = [u \in Token |-> IF u \in cand \ held(row, squeue) THEN NoJob ELSE ids[u]]
  BY DEF RecoverPending
<1>2. t \in Token /\ Executing(j) /\ InSlurm(j) /\ queued[t] # NoJob /\ log[t] = j
  OBVIOUS
<1>3. CASE t \notin pending
  BY <1>1, <1>2, <1>3 DEF Rekeyed
<1>4. CASE t \in pending
  <2>1. t \in cand /\ ids[t] = j BY <1>2, <1>4, NamesAssumption DEF Rekeyed
  <2>2. t \notin old
    <3>1. queued[t] = j => t \notin qOld BY <1>2 DEF QueuedOK
    <3>2. queued[t] # j => t \notin old BY <1>4, <2>1
    <3> QED BY <3>1, <3>2
  <2>3. RowOf(row, ids, cand, t) \in {"live", "none"}
    BY <1>2, <2>1 DEF RowOf, SacctAnswers, SacctRow
  <2>4. t \in held(row, squeue)
    BY <1>2, <2>1, <2>2, <2>3, NamesAssumption DEF Held
  <2> QED BY <1>1, <1>2, <2>1, <2>4, NamesAssumption
<1> QED BY <1>3, <1>4

(* No read or unlink of a reconcile destroys the record that keeps a live  *)
(* job from being submitted again, under Bearable.  The exceptions are     *)
(* needed: with old_queue, or with handoff and a death that leaves a job   *)
(* unwitnessed, a reconcile unlinks the record of a live job.              *)
THEOREM EvidenceIsKept == ASSUME Bearable PROVE Spec => ReconcileKeepsEvidence
<1> DEFINE Kept == Reconcile => \A j \in Job : Executing(j) /\ Witnessed(j) => Witnessed(j)'
<1>1. EvidenceInv /\ [Next]_vars => EvidenceInv' BY NextEvidence
<1>2. ASSUME EvidenceInv, Reconcile PROVE Kept
  <2> SUFFICES ASSUME NEW j \in Job, Executing(j), Witnessed(j) PROVE Witnessed(j)'
    OBVIOUS
  <2> USE NamesAssumption DEF EvidenceInv
  <2>1. UNCHANGED <<owner, pc, log, completed, failed>> /\ owner[j] \in Token
    BY <1>2 DEF Reconcile, DriverStart, ScanSubmitted, ScanQueued, ClassifyMarkers, ClassifyStale,
                RecoverPending, EmitSnakefile, Launch, FilesButSweep
  <2>2. Waiting(j) => queued'[owner[j]] # NoJob /\ submitted'[owner[j]] = NoJob
    <3>1. CASE RecoverPending BY <1>2, <3>1, RecoverKeeps DEF RecoverPending
    <3>2. CASE ~RecoverPending
      BY <1>2, <2>1, <3>2 DEF Reconcile, DriverStart, ScanSubmitted, ScanQueued, ClassifyMarkers,
                              ClassifyStale, EmitSnakefile, Launch
    <3> QED BY <3>1, <3>2
  <2>3. Handed(j) => submitted'[owner[j]] = j
    <3>1. CASE ClassifyMarkers BY <2>1, <3>1 DEF ClassifyMarkers
    (* sacct never calls a live job dead, and its sentinel is not old.         *)
    <3>2. CASE ClassifyStale
      BY <1>2, <2>1, <3>2 DEF ClassifyStale, Reclaimable, RowOf, Conclusive, SacctAnswers, SacctRow,
                        SentinelOK, JidOK
    <3>3. CASE ~(ClassifyMarkers \/ ClassifyStale)
      BY <1>2, <2>1, <3>3 DEF Reconcile, DriverStart, ScanSubmitted, ScanQueued, RecoverPending,
                              EmitSnakefile, Launch
    <3> QED BY <3>1, <3>2, <3>3
  <2> QED BY <2>1, <2>2, <2>3
<1>3. EvidenceInv /\ [Next]_vars => [Kept]_vars BY <1>2
<1> QED BY InitEvidence, <1>1, <1>3, PTL DEF Spec, ReconcileKeepsEvidence
=============================================================================
