----------------------------- MODULE DriverGate -----------------------------
(***************************************************************************)
(* The orchestrator-liveness gate: one orchestration driver per analysis   *)
(* tree.  A driver -- run()/submit_workflow(), reprocess() or              *)
(* static_plots() -- reads every record _status/_orchestrator/D.json,      *)
(* classifies each as ALIVE, DEAD or UNKNOWN, unlinks the dead ones and    *)
(* the unknown ones that are too old, refuses if any other remains, and    *)
(* otherwise writes a record of its own and starts its destructive work.   *)
(*                                                                         *)
(* A record is modelled by its presence and by whether it has been         *)
(* enriched; its other fields (mode, host, enclosing SLURM job id) are     *)
(* those of its driver, which never change.                                *)
(***************************************************************************)
EXTENDS FiniteSets

CONSTANTS
  Driver,    \* driver ids, one per invocation
  Host,      \* the machines drivers are invoked on
  Alloc,     \* SLURM allocations a driver may be invoked inside
  NoAlloc,   \* invoked on a login node
  Kinds,     \* which of AllKinds a run admits
  Faults     \* which of FaultKinds the environment may show

(*   local   run() in local mode: this process drives until it returns     *)
(*   tmux    run() in batch_job mode: a detached tmux session drives       *)
(*   onejob  run() in 1_job_many_srun_tasks mode: an sbatch job drives     *)
(*   block   a reprocess or static-plots call that waits for Snakemake     *)
(*   detach  one that Popens Snakemake and returns                         *)
AllKinds == {"local", "tmux", "onejob", "block", "detach"}

(***************************************************************************)
(* The situations the gate does not survive.                               *)
(*   two_gates    a driver enters the gate while another is between its    *)
(*                scan and its claim                                       *)
(*   detach_exit  the process of a detach driver exits before its Snakemake*)
(*   long_driver  a driver outlives _max_plausible_job_lifetime_min        *)
(*   shared_alloc two machines of one allocation run drivers               *)
(*   lost_enrich  an allocation ends that held a onejob driver, and the id *)
(*                of the job it submitted is not on record, or was not yet *)
(*                when a gate still at its probes read the record          *)
(*   wrong_override  the operator asserts a live driver dead               *)
(***************************************************************************)
FaultKinds == {"two_gates", "detach_exit", "long_driver", "shared_alloc",
               "lost_enrich", "wrong_override"}

ASSUME GateAssumption ==
  /\ NoAlloc \notin Alloc
  /\ Kinds \subseteq AllKinds
  /\ Faults \subseteq FaultKinds

May(f) == f \in Faults

VARIABLES
  pc,       \* [Driver -> Pc]
  kind,     \* [Driver -> AllKinds], chosen when the driver is invoked
  host,     \* [Driver -> Host]
  alloc,    \* [Driver -> Alloc \cup {NoAlloc}]: its $SLURM_JOB_ID
  record,   \* [Driver -> "none", "bare" (claimed) or "full" (enriched)]
  old,      \* the drivers whose record's age has reached the lifetime cap
  todo,     \* [Driver -> SUBSET (Driver \X {"bare", "full"})]: records still to classify
  refused,  \* the drivers whose scan has met a blocking record
  ended     \* the allocations that have ended

identity == <<kind, host, alloc>>
vars == <<pc, identity, record, old, todo, refused, ended>>

Pc == {"idle", "enter", "scan",      \* before the claim
       "work",                       \* claimed: deletes flags, submits
       "launched",                   \* the detached driver runs, the record is bare
       "running",                    \* the detached driver runs, this process is gone
       "raised",                     \* a reprocess raised before its builder took over
       "linger",                     \* this process outlives the driver it launched
       "gone"}

Driving(d)  == pc[d] \in {"work", "launched", "running"}
Process(d)  == pc[d] \in {"enter", "scan", "work", "launched", "raised", "linger"}
Present(d)  == Process(d) \/ pc[d] = "running"
Submits(d)  == kind[d] \in {"local", "tmux", "onejob"}

TypeOK ==
  /\ pc \in [Driver -> Pc]
  /\ kind \in [Driver -> AllKinds]
  /\ host \in [Driver -> Host]
  /\ alloc \in [Driver -> Alloc \cup {NoAlloc}]
  /\ record \in [Driver -> {"none", "bare", "full"}]
  /\ old \subseteq Driver /\ refused \subseteq Driver /\ ended \subseteq Alloc
  /\ todo \in [Driver -> SUBSET (Driver \X {"bare", "full"})]

Init ==
  /\ pc = [d \in Driver |-> "idle"]
  /\ kind \in [Driver -> Kinds]
  /\ host \in [Driver -> Host]
  /\ alloc \in [Driver -> Alloc \cup {NoAlloc}]
  /\ record = [d \in Driver |-> "none"]
  /\ old = {} /\ refused = {} /\ ended = {}
  /\ todo = [d \in Driver |-> {}]

Goto(d, p) == pc' = [pc EXCEPT ![d] = p]
Unlink(e)  == record' = [record EXCEPT ![e] = "none"]

---------------------------------------------------------------------------
(* What the gate of driver d may conclude about driver e from e's record,  *)
(* read when it was in state f.                                            *)

(* squeue, corroborated by sacct when it does not list the job: a live job *)
(* is never called dead, a finished one may still be shown as running.     *)
Slurm(live) == IF live THEN {"alive", "unknown"} ELSE {"dead", "alive", "unknown"}

(* The record of a onejob driver names the job it submitted once enriched; *)
(* until then, like that of a tmux driver, its enclosing allocation if any. *)
ByJobId(e, f) ==
  CASE kind[e] = "onejob" /\ f = "full" -> Slurm(Driving(e))
    [] ~(kind[e] = "onejob" /\ f = "full") /\ alloc[e] # NoAlloc -> Slurm(alloc[e] \notin ended)
    [] OTHER -> {"unknown"}

(* Variant of FromAfar: the probes that answer only on their own host are  *)
(* run all the same, and find nothing.                                     *)
FromAfar_ProbedHere(d, e, f) == {"dead"}

(* A tmux record of one's own allocation is taken for that of an earlier   *)
(* run of a requeued script, which is over.                                *)
FromAfar(d, e, f) ==
  IF kind[e] # "tmux" THEN {"unknown"}
  ELSE IF alloc[e] # NoAlloc /\ alloc[e] = alloc[d] THEN {"dead"} ELSE ByJobId(e, f)

(* ps -p over the recorded pid, which may have been reused.                *)
ByPid(e) == IF Process(e) THEN {"alive"} ELSE {"dead", "alive"}

(* Variant of BySession: a session that is not recorded is not there.      *)
BySession_Unnamed(e, f) ==
  IF f = "full" /\ Driving(e) THEN {"alive", "unknown"} ELSE {"dead", "unknown"}

(* tmux has-session, if a session is recorded and tmux can be run.         *)
BySession(e, f) ==
  CASE f = "bare" -> {"unknown"}
    [] f = "full" /\ Driving(e) -> {"alive", "unknown"}
    [] OTHER -> {"dead", "unknown"}

Verdicts(d, e, f) ==
  IF kind[e] = "onejob" THEN ByJobId(e, f)
  ELSE IF host[e] # host[d] THEN FromAfar(d, e, f)
  ELSE IF kind[e] = "tmux" THEN BySession(e, f)
  ELSE ByPid(e)

---------------------------------------------------------------------------
(* The gate and the claim.                                                 *)

Sharing(d) == \E e \in Driver \ {d} : alloc[d] # NoAlloc /\ alloc[e] = alloc[d]
                                        /\ host[e] # host[d] /\ Present(e)

(* The operator invokes the driver.                                        *)
Enter(d) ==
  /\ pc[d] = "idle" /\ alloc[d] \notin ended
  /\ Sharing(d) => May("shared_alloc")
  /\ Goto(d, "enter")
  /\ UNCHANGED <<identity, record, old, todo, refused, ended>>

(* The same with override_live_driver naming the record of driver e.       *)
EnterOverriding(d, e) ==
  /\ pc[d] = "idle" /\ alloc[d] \notin ended /\ Submits(d)
  /\ Sharing(d) => May("shared_alloc")
  /\ record[e] # "none"
  /\ Driving(e) => May("wrong_override")
  /\ Unlink(e)
  /\ Goto(d, "enter")
  /\ old' = old \ {e}
  /\ UNCHANGED <<identity, todo, refused, ended>>

(* read_orchestrator_sentinels, but for the driver's own.                  *)
Scan(d) ==
  /\ pc[d] = "enter"
  /\ (\E e \in Driver : pc[e] = "scan") => May("two_gates")
  /\ Goto(d, "scan")
  /\ todo' = [todo EXCEPT ![d] = {<<e, record[e]>> : e \in {x \in Driver \ {d} : record[x] # "none"}}]
  /\ refused' = refused \ {d}
  /\ UNCHANGED <<identity, record, old, ended>>

(* Variant of Blocks: an unknown driver never becomes too old.             *)
Blocks_Forever(e, v) == v = "alive" \/ v = "unknown"

(* An unknown driver blocks until its record has reached the age cap; a    *)
(* record that cannot be read any more counts as too old.                  *)
Blocks(e, v) == v = "alive" \/ (v = "unknown" /\ record[e] # "none" /\ e \notin old)

ProbeHolds(d, e) ==
  /\ pc[d] = "scan"
  /\ \E f \in {"bare", "full"} :
       /\ <<e, f>> \in todo[d]
       /\ \E v \in Verdicts(d, e, f) : Blocks(e, v)
       /\ todo' = [todo EXCEPT ![d] = @ \ {<<e, f>>}]
  /\ refused' = refused \cup {d}
  /\ UNCHANGED <<pc, identity, record, old, ended>>

ProbeReclaims(d, e) ==
  /\ pc[d] = "scan"
  /\ \E f \in {"bare", "full"} :
       /\ <<e, f>> \in todo[d]
       /\ \E v \in Verdicts(d, e, f) : ~Blocks(e, v)
       /\ todo' = [todo EXCEPT ![d] = @ \ {<<e, f>>}]
  /\ Unlink(e)
  /\ old' = old \ {e}
  /\ UNCHANGED <<pc, identity, refused, ended>>

(* The gate's WorkflowError; the operator may try again.                   *)
Refuse(d) ==
  /\ pc[d] = "scan" /\ todo[d] = {} /\ d \in refused
  /\ Goto(d, "idle")
  /\ refused' = refused \ {d}
  /\ UNCHANGED <<identity, record, old, todo, ended>>

Claim(d) ==
  /\ pc[d] = "scan" /\ todo[d] = {} /\ d \notin refused
  /\ Goto(d, "work")
  /\ record' = [record EXCEPT ![d] = "bare"]
  /\ UNCHANGED <<identity, old, todo, refused, ended>>

---------------------------------------------------------------------------
(* A driver at work.                                                       *)

(* A driver that waits for its Snakemake, or raises, removes its record.   *)
Finish(d) ==
  /\ pc[d] = "work" /\ kind[d] \in {"local", "block", "detach"}
  /\ Goto(d, "gone")
  /\ Unlink(d) /\ old' = old \ {d}
  /\ UNCHANGED <<identity, todo, refused, ended>>

(* A submission that fails leaves its record as it was claimed.            *)
SubmitFails(d) ==
  /\ pc[d] = "work" /\ kind[d] \in {"tmux", "onejob"}
  /\ Goto(d, "gone")
  /\ UNCHANGED <<identity, record, old, todo, refused, ended>>

(* A reprocess facade raises between its claim and the builder's adoption. *)
FacadeRaises(d) ==
  /\ pc[d] = "work" /\ kind[d] \in {"block", "detach"}
  /\ Goto(d, "raised")
  /\ UNCHANGED <<identity, record, old, todo, refused, ended>>

(* Variant of Reenter: the claim is not forgotten on adoption.             *)
Reenter_Unadopted(d) ==
  /\ pc[d] \in {"raised", "launched"} /\ kind[d] = "detach"
  /\ Unlink(d) /\ old' = old \ {d}
  /\ pc' = [pc EXCEPT ![d] = IF @ = "raised" THEN "enter" ELSE @]
  /\ UNCHANGED <<identity, todo, refused, ended>>

(* The same interpreter calls reprocess again: it releases its own claim.  *)
Reenter(d) ==
  /\ pc[d] = "raised"
  /\ Unlink(d) /\ old' = old \ {d}
  /\ Goto(d, "enter")
  /\ UNCHANGED <<identity, todo, refused, ended>>

Launch(d) ==
  /\ pc[d] = "work" /\ kind[d] \in {"tmux", "onejob", "detach"}
  /\ Goto(d, "launched")
  /\ UNCHANGED <<identity, record, old, todo, refused, ended>>

(* enrich_orchestrator_sentinel, which renews the mtime, or does nothing   *)
(* if the record has been reclaimed; then the process returns.             *)
Enrich(d) ==
  /\ pc[d] \in {"launched", "linger"} /\ kind[d] \in {"tmux", "onejob"}
  /\ Goto(d, IF pc[d] = "launched" THEN "running" ELSE "gone")
  /\ IF record[d] = "none" THEN UNCHANGED <<record, old>>
     ELSE record' = [record EXCEPT ![d] = "full"] /\ old' = old \ {d}
  /\ UNCHANGED <<identity, todo, refused, ended>>

(* The detached Snakemake, tmux session or SLURM job ends.                 *)
DriverEnds(d) ==
  /\ \/ pc[d] = "running" /\ Goto(d, "gone")
     \/ pc[d] = "launched" /\ Goto(d, "linger")
  /\ UNCHANGED <<identity, record, old, todo, refused, ended>>

(* The driver's process exits or is killed.                                *)
ProcessExits(d) ==
  /\ Process(d)
  /\ (pc[d] = "launched" /\ kind[d] = "detach") => May("detach_exit")
  /\ Goto(d, IF pc[d] = "launched" THEN "running" ELSE "gone")
  /\ UNCHANGED <<identity, record, old, todo, refused, ended>>

---------------------------------------------------------------------------
(* Time and SLURM.                                                         *)

AgeOut(e) ==
  /\ record[e] # "none" /\ e \notin old
  /\ Driving(e) => May("long_driver")
  /\ old' = old \cup {e}
  /\ UNCHANGED <<pc, identity, record, todo, refused, ended>>

(* An allocation takes everything in it along; the job a onejob driver     *)
(* submitted is not in it.                                                 *)
Survives(d) == kind[d] = "onejob" /\ pc[d] \in {"launched", "running"}
Unseen(d) == record[d] # "full" \/ \E g \in Driver : <<d, "bare">> \in todo[g]
AllocEnds(a) ==
  /\ a \notin ended
  /\ (\E d \in Driver : alloc[d] = a /\ Survives(d) /\ Unseen(d)) => May("lost_enrich")
  /\ ended' = ended \cup {a}
  /\ pc' = [d \in Driver |-> CASE alloc[d] = a /\ Survives(d) -> "running"
                               [] alloc[d] = a /\ ~Survives(d) /\ Present(d) -> "gone"
                               [] OTHER -> pc[d]]
  /\ UNCHANGED <<identity, record, old, todo, refused>>

Gate(d) ==
  \/ Enter(d) \/ Scan(d) \/ Refuse(d) \/ Claim(d)
  \/ \E e \in Driver : EnterOverriding(d, e) \/ ProbeHolds(d, e) \/ ProbeReclaims(d, e)

Drive(d) ==
  \/ Finish(d) \/ SubmitFails(d) \/ FacadeRaises(d) \/ Reenter(d)
  \/ Launch(d) \/ Enrich(d) \/ DriverEnds(d) \/ ProcessExits(d)

Next ==
  \/ \E d \in Driver : Gate(d) \/ Drive(d) \/ AgeOut(d)
  \/ \E a \in Alloc : AllocEnds(a)

Spec == Init /\ [][Next]_vars

(* The operator repeats a refused call, a gate runs to its end, and        *)
(* records age.  Nothing is assumed of what a probe answers.               *)
Fairness ==
  \A d \in Driver :
    /\ WF_vars(Enter(d)) /\ WF_vars(Scan(d)) /\ WF_vars(Refuse(d)) /\ WF_vars(Claim(d))
    /\ WF_vars(AgeOut(d))
    /\ WF_vars(\E e \in Driver : ProbeHolds(d, e) \/ ProbeReclaims(d, e))

FairSpec == Spec /\ Fairness

---------------------------------------------------------------------------
(* No two orchestration drivers work on one analysis tree at a time.       *)
OneDriver == \A d, e \in Driver : Driving(d) /\ Driving(e) => d = e

(* No step but the end of the driver takes the record of a live driver     *)
(* away: not a gate's reclaim, an enrichment or another call's release.    *)
LiveRecordKept ==
  [][\A d \in Driver : Driving(d) /\ record[d] # "none"
                         => record'[d] # "none" \/ ~(Driving(d)')]_vars

(* A gate is held by a driver that is gone but is still shown as alive: its *)
(* pid was reused, squeue lists its job, its enclosing allocation goes on. *)
FalseAlive(d, e) ==
  /\ pc[e] = "gone" /\ ProbeHolds(d, e)
  /\ \E f \in {"bare", "full"} : <<e, f>> \in todo[d] /\ "alive" \in Verdicts(d, e, f)

(* What an ended driver leaves behind does not lock the analysis for good: *)
(* a call that is repeated gets through once every other driver is gone,   *)
(* or the probes never stop showing one of them as alive.                  *)
OperatorGetsThrough ==
  \/ []<><<\E d, e \in Driver : FalseAlive(d, e)>>_vars
  \/ \A d \in Driver :
       (pc[d] \in {"idle", "enter", "scan"} /\ \A e \in Driver \ {d} : pc[e] = "gone")
         ~> (pc[d] \notin {"idle", "enter", "scan"} \/ alloc[d] \in ended)

(* A driver whose pid was reused holds the gate only until its record has  *)
(* reached the age cap, as the comment on the pid probe has it.            *)
CapBoundsFalseAlive ==
  [][\A d, e \in Driver : FalseAlive(d, e) => e \notin old]_vars

(* Every execution is one of SingleFlight, drivers holding the tree.       *)
Working == {p \in Driver \X {"tree"} : Driving(p[1])}
SF == INSTANCE SingleFlight WITH Holder <- Driver, Resource <- {"tree"}, active <- Working
OneDriverSpec == SF!Spec
=============================================================================
