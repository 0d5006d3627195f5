------------------------------ MODULE SifBuild ------------------------------
(***************************************************************************)
(* Container images built once per identity and shared by every experiment *)
(* (hhemt.sif): commands that plan a set of identities, reconcile the image*)
(* root, write the one Snakefile of the root and drive Snakemake over it   *)
(* (plan.py, snakefile_generator.py, driver.py), and the SLURM jobs that   *)
(* build an image, read it back and put it in place (build_runner.py,      *)
(* transaction.py).                                                        *)
(*                                                                         *)
(* Two commands may plan at the same time, on the same root.  What keeps   *)
(* them apart is the sentinels of the identities, which they read long     *)
(* before they write them, and Snakemake's lock on its outputs (external). *)
(* A reconciliation looks at every identity's files, one after the other,  *)
(* whoever is building it meanwhile.                                       *)
(***************************************************************************)
EXTENDS Naturals

CONSTANTS
  Driver,   \* commands: build-sifs, run --build-sifs, ingest
  Key,      \* identities, of image paths that differ
  Plans,    \* sets of identities a command may be given
  Digest,   \* what a build may produce
  MaxAccidents,  \* bound: how often something is killed, lost or raises
  Torn,     \* an image file of another size than its manifest records
  None

ASSUME SifAssumption ==
  /\ Plans \subseteq SUBSET Key /\ MaxAccidents \in Nat
  /\ None \notin Digest \cup Driver \cup Key \cup {Torn} /\ Torn \notin Digest

VARIABLES
  drv,        \* the commands, see Commands
  job,        \* job[d][k]: the build of k that the Snakemake of d runs
  snakefile,  \* the identities that have a rule in Snakefile.sif
  lock,       \* lock[k]: whose Snakemake has locked the manifest of k
  queued,     \* _status/_queued
  submitted,  \* _status/_submitted
  image,      \* image[k]: the digest of what is at the image path
  sidecar,    \* sidecar[k]: the digest in .sha256
  manifest,   \* manifest[k]: the digest in .manifest.json
  staged,     \* staged[k]: the digest in .sha256.tmp and .json.tmp
  spec,       \* the identities with a _build/{key}/spec.json
  spoilt,     \* history, see Spoils
  accidents   \* how many there have been
vars ==
  <<drv, job, snakefile, lock, queued, submitted, image, sidecar, manifest, staged, spec, spoilt,
    accidents>>
root == <<image, sidecar, manifest, staged>>

(***************************************************************************)
(* plan is what a command is about, todo what of it is to be built.  left  *)
(* are the identities its reconciliation has yet to look at, about the one *)
(* it is looking at, and seen the digest in the manifest it has read.      *)
(* rules is what its Snakemake has read of the Snakefile, need the rules   *)
(* whose output it found missing.                                          *)
(***************************************************************************)
Reconciling == {"planned", "stat", "unlink"}
PCs == Reconciling \cup {"idle", "doomed", "written", "held", "dag", "dead"}
Commands ==
  [pc: PCs, plan: SUBSET Key, force: BOOLEAN, todo: SUBSET Key,
   left: SUBSET Key, about: Key \cup {None}, seen: Digest \cup {None},
   rules: SUBSET Key, need: SUBSET Key]
NoCommand ==
  [pc |-> "idle", plan |-> {}, force |-> FALSE, todo |-> {},
   left |-> {}, about |-> None, seen |-> None, rules |-> {}, need |-> {}]

(* Where a build is; built is what it has produced, tries counts retries.  *)
Running == {"submitted", "building", "staged", "imaged", "sealed", "published"}
Jobs == [at: {"none", "pending", "ok", "failed"} \cup Running, built: Digest \cup {None}, tries: 0..1]
NoJob == [at |-> "none", built |-> None, tries |-> 0]

TypeOK ==
  /\ drv \in [Driver -> Commands]
  /\ job \in [Driver -> [Key -> Jobs]]
  /\ snakefile \subseteq Key
  /\ lock \in [Key -> Driver \cup {None}]
  /\ queued \subseteq Key
  /\ submitted \subseteq Key
  /\ image \in [Key -> Digest \cup {Torn, None}]
  /\ sidecar \in [Key -> Digest \cup {None}]
  /\ manifest \in [Key -> Digest \cup {None}]
  /\ staged \in [Key -> Digest \cup {None}]
  /\ spec \subseteq Key
  /\ spoilt \in [Driver -> SUBSET Key]
  /\ accidents \in 0..MaxAccidents

Init ==
  /\ drv = [d \in Driver |-> NoCommand]
  /\ job = [d \in Driver |-> [k \in Key |-> NoJob]]
  /\ snakefile = {}
  /\ lock = [k \in Key |-> None]
  /\ queued = {} /\ submitted = {} /\ spec = {}
  /\ spoilt = [d \in Driver |-> {}]
  /\ accidents = 0
  /\ image = [k \in Key |-> None] /\ sidecar = [k \in Key |-> None]
  /\ manifest = [k \in Key |-> None] /\ staged = [k \in Key |-> None]

Live(d, k) == job[d][k].at \in {"pending"} \cup Running
LiveSentinel(k) == k \in queued \cup submitted
Complete(k) == manifest[k] # None /\ image[k] # None

Goes(d, pc, cmd) == drv' = [drv EXCEPT ![d] = [cmd EXCEPT !.pc = pc]]
Moves(d, k, at) == job' = [job EXCEPT ![d][k] = [@ EXCEPT !.at = at]]

(* spoilt[d]: identities whose sentinel, record, image or spec a command   *)
(* has lost to another command's doings since it began.                    *)
Spoils(d, keys) ==
  spoilt' = [e \in Driver |-> spoilt[e] \cup (IF e = d THEN {} ELSE keys \cap drv[e].todo)]
Accident == accidents < MaxAccidents /\ accidents' = accidents + 1
Ends(d) == Goes(d, "idle", NoCommand)

-----------------------------------------------------------------------------
(* plan_sif_set: refuses an identity that has a live producer (_queued is  *)
(* read before _submitted).  An ingest (_place_or_rebuild_sifs) plans what *)
(* is built all the same, if another digest is wanted.                     *)
Plan(d, wanted, mode) ==
  /\ drv[d].pc = "idle"
  /\ \A k \in wanted : ~LiveSentinel(k)
  /\ Goes(d, "planned",
       [NoCommand EXCEPT
          !.plan = wanted, !.force = (mode = "force"), !.left = Key,
          !.todo = IF mode = "build" THEN {k \in wanted : ~Complete(k)} ELSE wanted])
  /\ spoilt' = [spoilt EXCEPT ![d] = {}]
  /\ UNCHANGED <<job, snakefile, lock, queued, submitted, root, spec, accidents>>

(***************************************************************************)
(* reconcile_sif_root, first half: one manifest after the other is read,   *)
(* its image is looked at, and the manifest of a forced, a lost or a cut   *)
(* image goes.  An image that was rebuilt in between may have another size *)
(* than the manifest that was read.                                        *)
(***************************************************************************)
Turns(d, k, pc) == Goes(d, pc, [drv[d] EXCEPT !.left = @ \ {k}, !.about = None, !.seen = None])

ReadManifest(d, k) ==
  /\ drv[d].pc = "planned" /\ k \in drv[d].left
  /\ IF manifest[k] = None THEN Turns(d, k, "planned")
     ELSE Goes(d, "stat", [drv[d] EXCEPT !.about = k, !.seen = manifest[k]])
  /\ UNCHANGED <<job, snakefile, lock, queued, submitted, root, spec, spoilt, accidents>>

Verdicts_ForcedOnly(d, k) == {drv[d].force /\ k \in drv[d].plan}
Verdicts(d, k) ==
  IF (drv[d].force /\ k \in drv[d].plan) \/ image[k] \in {Torn, None} THEN {TRUE}
  ELSE IF image[k] = drv[d].seen THEN {FALSE} ELSE BOOLEAN

LookAtImage(d) ==
  /\ drv[d].pc = "stat"
  /\ \E stale \in Verdicts(d, drv[d].about) :
       IF stale THEN Goes(d, "unlink", drv[d]) ELSE Turns(d, drv[d].about, "planned")
  /\ UNCHANGED <<job, snakefile, lock, queued, submitted, root, spec, spoilt, accidents>>

(* Whichever manifest is there by now.                                     *)
Unlink(d) ==
  LET k == drv[d].about IN
  /\ drv[d].pc = "unlink" /\ manifest[k] # None
  /\ manifest' = [manifest EXCEPT ![k] = None]
  /\ Turns(d, k, "planned")
  /\ Spoils(d, {k})
  /\ UNCHANGED <<job, snakefile, lock, queued, submitted, image, sidecar, staged, spec, accidents>>

(* A manifest that is listed and vanishes before it is read or unlinked    *)
(* raises.                                                                 *)
ReconcileRaises(d) ==
  /\ drv[d].pc \in Reconciling /\ \E k \in drv[d].left : manifest[k] = None
  /\ Ends(d)
  /\ spoilt' = [spoilt EXCEPT ![d] = {}]
  /\ UNCHANGED <<job, snakefile, lock, queued, submitted, root, spec, accidents>>

(***************************************************************************)
(* Second half: the _build directory of an identity that is not in the     *)
(* plan, has no sentinel and is older than the walltime and an hour goes.  *)
(* One that was written since a command's DAG was to begin is not that old.*)
(***************************************************************************)
Fresh(k) == \E e \in Driver : drv[e].pc = "written" /\ k \in drv[e].todo

Sweeps(d) == drv[d].pc = "planned" /\ drv[d].left = {}

Condemn_Queueless(d, k) ==
  /\ Sweeps(d)
  /\ k \in spec \ drv[d].plan /\ k \notin submitted /\ ~Fresh(k)
  /\ Goes(d, "doomed", [drv[d] EXCEPT !.about = k])
  /\ UNCHANGED <<job, snakefile, lock, queued, submitted, root, spec, spoilt, accidents>>
Condemn(d, k) ==
  /\ Sweeps(d)
  /\ k \in spec \ drv[d].plan /\ ~LiveSentinel(k) /\ ~Fresh(k)
  /\ Goes(d, "doomed", [drv[d] EXCEPT !.about = k])
  /\ UNCHANGED <<job, snakefile, lock, queued, submitted, root, spec, spoilt, accidents>>

RemoveWork(d) ==
  /\ drv[d].pc = "doomed"
  /\ spec' = spec \ {drv[d].about}
  /\ Goes(d, "planned", [drv[d] EXCEPT !.about = None])
  /\ UNCHANGED <<job, snakefile, lock, queued, submitted, root, spoilt, accidents>>

Reconcile(d) ==
  \/ \E k \in Key : ReadManifest(d, k) \/ Condemn(d, k)
  \/ LookAtImage(d) \/ Unlink(d) \/ ReconcileRaises(d) \/ RemoveWork(d)

(* write_sif_snakefile.  With nothing to build build-sifs and ingest end   *)
(* here, the pre-step of a run goes on with the Snakefile.  A spec written *)
(* into a directory that a sweep has condemned is lost to it.              *)
Condemned(k) == \E e \in Driver : drv[e].pc = "doomed" /\ drv[e].about = k
WriteSnakefile(d) ==
  /\ Sweeps(d)
  /\ snakefile' = drv[d].todo
  /\ spec' = spec \cup drv[d].todo
  /\ spoilt' = [spoilt EXCEPT ![d] = @ \cup {k \in drv[d].todo : Condemned(k)}]
  /\ \/ Goes(d, "written", [drv[d] EXCEPT !.plan = {}, !.force = FALSE])
     \/ drv[d].todo = {} /\ Ends(d)
  /\ UNCHANGED <<job, lock, queued, submitted, root, accidents>>

(* run_build_dag, before Snakemake.                                        *)
Hold(d) ==
  /\ drv[d].pc = "written"
  /\ queued' = queued \cup drv[d].todo
  /\ Goes(d, "held", drv[d])
  /\ UNCHANGED <<job, snakefile, lock, submitted, root, spec, spoilt, accidents>>

(* Snakemake (external) reads the Snakefile, locks the outputs of its rules*)
(* and runs those whose output is missing.                                 *)
LockedOut(d) == \E k \in snakefile : lock[k] # None
StartDag(d) ==
  /\ drv[d].pc = "held" /\ ~LockedOut(d)
  /\ lock' = [k \in Key |-> IF k \in snakefile THEN d ELSE lock[k]]
  /\ Goes(d, "dag", [drv[d] EXCEPT !.rules = snakefile,
                                   !.need = {k \in snakefile : manifest[k] = None}])
  /\ UNCHANGED <<job, snakefile, queued, submitted, root, spec, spoilt, accidents>>

(* run_build_dag's finally.                                                *)
Released(d) ==
  /\ queued' = queued \ drv[d].todo
  /\ spoilt' = [e \in Driver |->
       IF e = d THEN {} ELSE spoilt[e] \cup (drv[d].todo \cap drv[e].todo)]
DagRefused(d) ==
  /\ drv[d].pc = "held" /\ LockedOut(d)
  /\ Released(d)
  /\ Ends(d)
  /\ UNCHANGED <<job, snakefile, lock, submitted, root, spec, accidents>>

Final(d, k) ==
  \/ job[d][k].at = "ok"
  \/ job[d][k].at = "failed" /\ job[d][k].tries = 1
DagEnds(d) ==
  /\ drv[d].pc = "dag" /\ \A k \in drv[d].need : Final(d, k)
  /\ lock' = [k \in Key |-> IF lock[k] = d THEN None ELSE lock[k]]
  /\ job' = [job EXCEPT ![d] = [k \in Key |-> NoJob]]
  /\ Released(d)
  /\ Ends(d)
  /\ UNCHANGED <<snakefile, submitted, root, spec, accidents>>
DagSucceeds(d) == DagEnds(d) /\ \A k \in drv[d].need : job[d][k].at = "ok"

(* A command is killed; Snakemake's lock and the sentinels stay.           *)
DriverKilled(d) ==
  /\ Accident
  /\ drv[d].pc \notin {"idle", "dead"}
  /\ Goes(d, "dead", [NoCommand EXCEPT !.todo = drv[d].todo])
  /\ UNCHANGED <<job, snakefile, lock, queued, submitted, root, spec, spoilt>>

(* An operator clears away what killed commands and jobs have left, when   *)
(* nothing runs (external).                                                *)
CleanUp ==
  /\ \A d \in Driver : drv[d].pc \in {"idle", "dead"} /\ \A k \in Key : ~Live(d, k)
  /\ drv' = [d \in Driver |-> NoCommand]
  /\ job' = [d \in Driver |-> [k \in Key |-> NoJob]]
  /\ lock' = [k \in Key |-> None]
  /\ queued' = {} /\ submitted' = {}
  /\ spoilt' = [d \in Driver |-> {}]
  /\ UNCHANGED <<snakefile, root, spec, accidents>>

-----------------------------------------------------------------------------
(* retries: 1                                                              *)
Submit(d, k) ==
  /\ drv[d].pc = "dag" /\ k \in drv[d].need
  /\ \/ job[d][k].at = "none" /\ Moves(d, k, "pending")
     \/ /\ job[d][k].at = "failed" /\ job[d][k].tries = 0
        /\ job' = [job EXCEPT ![d][k] = [at |-> "pending", built |-> None, tries |-> 1]]
  /\ UNCHANGED <<drv, snakefile, lock, queued, submitted, root, spec, spoilt, accidents>>

Fails(d, k) == job' = [job EXCEPT ![d][k] = [@ EXCEPT !.at = "failed", !.built = None]]

(* Snakemake removes the output of a job before it starts it.  The runner  *)
(* needs its spec.                                                         *)
JobStarts_HandsOffFirst(d, k) ==
  /\ job[d][k].at = "pending"
  /\ manifest' = [manifest EXCEPT ![k] = None]
  /\ queued' = queued \ {k}
  /\ Moves(d, k, "submitted")
  /\ UNCHANGED <<drv, snakefile, lock, submitted, image, sidecar, staged, spec, spoilt, accidents>>
JobStarts(d, k) ==
  /\ job[d][k].at = "pending"
  /\ manifest' = [manifest EXCEPT ![k] = None]
  /\ IF k \in spec THEN submitted' = submitted \cup {k} /\ Moves(d, k, "submitted")
     ELSE Fails(d, k) /\ UNCHANGED submitted
  /\ UNCHANGED <<drv, snakefile, lock, queued, image, sidecar, staged, spec, spoilt, accidents>>

HandOff(d, k) ==
  /\ job[d][k].at = "submitted"
  /\ queued' = queued \ {k}
  /\ Spoils(d, {k})
  /\ Moves(d, k, "building")
  /\ UNCHANGED <<drv, snakefile, lock, submitted, root, spec, accidents>>

(* build_transaction: the image is built beside the old one and read back, *)
(* and its sidecar and manifest written beside theirs.                     *)
Builds(d, k, b) ==
  /\ staged' = [staged EXCEPT ![k] = b]
  /\ job' = [job EXCEPT ![d][k] = [@ EXCEPT !.at = "staged", !.built = b]]
Build(d, k) ==
  /\ job[d][k].at = "building"
  /\ \E b \in Digest : Builds(d, k, b)
  /\ UNCHANGED <<drv, snakefile, lock, queued, submitted, image, sidecar, manifest, spec, spoilt, accidents>>
ReplaceImage_ManifestToo(d, k) ==
  /\ job[d][k].at = "staged"
  /\ image' = [image EXCEPT ![k] = job[d][k].built]
  /\ manifest' = [manifest EXCEPT ![k] = staged[k]]
  /\ job' = [job EXCEPT ![d][k] = [@ EXCEPT !.at = "imaged", !.built = None]]
  /\ UNCHANGED <<drv, snakefile, lock, queued, submitted, sidecar, staged, spec, spoilt, accidents>>
ReplaceImage(d, k) ==
  /\ job[d][k].at = "staged"
  /\ image' = [image EXCEPT ![k] = job[d][k].built]
  /\ job' = [job EXCEPT ![d][k] = [@ EXCEPT !.at = "imaged", !.built = None]]
  /\ UNCHANGED <<drv, snakefile, lock, queued, submitted, sidecar, manifest, staged, spec, spoilt, accidents>>
ReplaceSidecar(d, k) ==
  /\ job[d][k].at = "imaged"
  /\ sidecar' = [sidecar EXCEPT ![k] = staged[k]]
  /\ Moves(d, k, "sealed")
  /\ UNCHANGED <<drv, snakefile, lock, queued, submitted, image, manifest, staged, spec, spoilt, accidents>>
ReplaceManifest(d, k) ==
  /\ job[d][k].at = "sealed"
  /\ manifest' = [manifest EXCEPT ![k] = staged[k]]
  /\ staged' = [staged EXCEPT ![k] = None]
  /\ Moves(d, k, "published")
  /\ UNCHANGED <<drv, snakefile, lock, queued, submitted, image, sidecar, spec, spoilt, accidents>>

(* The runner removes its _build directory and returns, or a step raises.  *)
JobReturns(d, k) ==
  /\ job[d][k].at = "published"
  /\ submitted' = submitted \ {k}
  /\ spec' = spec \ {k}
  /\ Moves(d, k, "ok")
  /\ UNCHANGED <<drv, snakefile, lock, queued, root, spoilt, accidents>>
JobRaises(d, k) ==
  /\ Accident
  /\ job[d][k].at \in {"building", "staged", "imaged", "sealed"}
  /\ submitted' = submitted \ {k}
  /\ Fails(d, k)
  /\ UNCHANGED <<drv, snakefile, lock, queued, root, spec, spoilt>>

(* Walltime: the job's sentinel stays.                                     *)
JobKilled(d, k) ==
  /\ Accident
  /\ Live(d, k)
  /\ Fails(d, k)
  /\ UNCHANGED <<drv, snakefile, lock, queued, submitted, root, spec, spoilt>>

(* An image file is lost or cut short (external).                          *)
ImageLost(k) ==
  /\ Accident
  /\ image[k] \in Digest
  /\ \E left \in {Torn, None} : image' = [image EXCEPT ![k] = left]
  /\ Spoils(None, {k})
  /\ UNCHANGED <<drv, job, snakefile, lock, queued, submitted, sidecar, manifest, staged, spec>>

Command(d) ==
  \/ \E wanted \in Plans, mode \in {"build", "force", "ingest"} : Plan(d, wanted, mode)
  \/ Reconcile(d) \/ WriteSnakefile(d) \/ Hold(d) \/ StartDag(d) \/ DagRefused(d) \/ DagEnds(d)
  \/ DriverKilled(d)
Runner(d, k) ==
  \/ Submit(d, k) \/ JobStarts(d, k) \/ HandOff(d, k) \/ Build(d, k) \/ ReplaceImage(d, k)
  \/ ReplaceSidecar(d, k) \/ ReplaceManifest(d, k) \/ JobReturns(d, k) \/ JobRaises(d, k)
  \/ JobKilled(d, k)

Next ==
  \/ \E d \in Driver : Command(d) \/ \E k \in Key : Runner(d, k)
  \/ CleanUp \/ \E k \in Key : ImageLost(k)

Spec == Init /\ [][Next]_vars

-----------------------------------------------------------------------------
(***************************************************************************)
(* The manifest's "presence proves the whole transaction"                  *)
(* (transaction.py:158): whatever was killed when, the image beside it, if *)
(* it has not been lost since, is the one it records, and so is the        *)
(* sidecar.                                                                *)
(***************************************************************************)
ManifestProves ==
  \A k \in Key : manifest[k] # None =>
    /\ sidecar[k] = manifest[k]
    /\ image[k] \in {manifest[k], Torn, None}

(***************************************************************************)
(* While a build waits in the queue or is at work, a sentinel says so to   *)
(* who plans, but for a retry that waits, an identity that came from       *)
(* another command's Snakefile, and one whose sentinel another command     *)
(* took for its own when it ended.                                         *)
(***************************************************************************)
Guarded(d, k) == k \in drv[d].todo \ spoilt[d] /\ job[d][k].tries = 0
BuildIsGuarded ==
  \A d \in Driver : \A k \in Key :
    /\ job[d][k].at \in Running => k \in submitted
    /\ job[d][k].at = "pending" /\ Guarded(d, k) => LiveSentinel(k)

(***************************************************************************)
(* "A build PENDING longer than the cap must keep its spec.json"           *)
(* (snakefile_generator.py:20), whoever sweeps meanwhile: with the same    *)
(* exceptions, and but for a spec that was written between a sweep's look  *)
(* at the directory and its removal.                                       *)
(***************************************************************************)
PendingKeepsSpec ==
  \A d \in Driver : \A k \in Key : job[d][k].at = "pending" /\ Guarded(d, k) => k \in spec

(***************************************************************************)
(* A command whose Snakemake ends well has the images it planned, unless   *)
(* another command wrote over its Snakefile, withdrew them or they were    *)
(* lost meanwhile: what Snakemake sees (manifests) never hides from it     *)
(* what the plan saw (images).                                             *)
(***************************************************************************)
SuccessMeansBuilt ==
  [][\A d \in Driver : DagSucceeds(d) =>
       \A k \in (drv[d].todo \cap drv[d].rules) \ spoilt[d] :
         manifest[k] # None /\ image[k] = manifest[k]]_vars
=============================================================================
