--------------------------- MODULE SifBuildProofs ---------------------------
(***************************************************************************)
(* Theorems about SifBuild, for any commands, identities, plans, digests   *)
(* and numbers of accidents.                                               *)
(***************************************************************************)
EXTENDS SifBuild, TLAPS

(* A build is known to a Snakemake that has locked its output; one that is *)
(* not submitted has not been tried.                                       *)
Owned ==
  /\ \A d \in Driver : drv[d].pc = "dag" =>
       drv[d].need \subseteq drv[d].rules /\ \A k \in drv[d].rules : lock[k] = d
  /\ \A d \in Driver, k \in Key : job[d][k].at # "none" =>
       /\ lock[k] = d
       /\ drv[d].pc = "dead" \/ (drv[d].pc = "dag" /\ k \in drv[d].need)
  /\ \A d \in Driver, k \in Key : job[d][k].at = "none" => job[d][k].tries = 0

(* How far a transaction has come is what its files show.                  *)
Transaction(d, k) ==
  /\ job[d][k].at \in Running => k \in submitted
  /\ job[d][k].at \in Running \ {"published"} => manifest[k] = None
  /\ job[d][k].at \in {"staged", "imaged", "sealed"} => staged[k] # None
  /\ job[d][k].at = "staged" => job[d][k].built = staged[k]
  /\ job[d][k].at \in {"imaged", "sealed"} => image[k] \in {staged[k], Torn, None}
  /\ job[d][k].at = "sealed" => sidecar[k] = staged[k]
Transactions == \A d \in Driver, k \in Key : Transaction(d, k)

(* The sentinel is there before the build is submitted.                    *)
Announced ==
  \A d \in Driver : \A k \in drv[d].todo \ spoilt[d] :
    /\ job[d][k].tries = 0
    /\ \/ job[d][k].at = "pending"
       \/ job[d][k].at = "none" /\ drv[d].pc \in {"held", "dag"}
    => k \in queued

(* What a command has seen of an image and its record stays so.            *)
Passed(d, k) ==
  \/ drv[d].pc \in {"doomed", "written", "held", "dag"}
  \/ drv[d].pc \in Reconciling /\ k \notin drv[d].left
Seen(d, k) ==
  /\ Passed(d, k) /\ manifest[k] # None => image[k] = manifest[k]
  /\ drv[d].pc # "dead" =>
       \A e \in Driver : job[e][k].at \in {"imaged", "sealed"} => image[k] = staged[k]
  /\ drv[d].pc = "dag" /\ k \in drv[d].rules /\ (k \in drv[d].need => job[d][k].at \in {"published", "ok"})
       => manifest[k] # None
AllSeen == \A d \in Driver : \A k \in drv[d].todo \ spoilt[d] : Seen(d, k)

(* From the Snakefile on, a spec is there until its build has returned, and*)
(* no sweep has condemned it; no other command has built the identity.     *)
Waits(d, k) ==
  \/ drv[d].pc \in {"written", "held"}
  \/ /\ job[d][k].tries = 0
     /\ \/ job[d][k].at = "pending"
        \/ job[d][k].at = "none" /\ drv[d].pc = "dag"
AtWork == Running \ {"submitted"}
Kept(d, k) ==
  /\ \A e \in Driver \ {d} : job[e][k].at \notin AtWork
  /\ Waits(d, k) => k \in spec /\ ~Condemned(k)
AllKept == \A d \in Driver : \A k \in drv[d].todo \ spoilt[d] : Kept(d, k)

---------------------------------------------------------------------------
LEMMA DrvType == ASSUME TypeOK, NEW d \in Driver PROVE drv[d] \in Commands
  BY DEF TypeOK

LEMMA GoesType ==
  ASSUME TypeOK, NEW d \in Driver, NEW cmd \in Commands, NEW pc \in PCs, Goes(d, pc, cmd)
  PROVE  drv' \in [Driver -> Commands]
<1>1. [cmd EXCEPT !.pc = pc] \in Commands
  BY DEF Commands
<1>2. QED
  BY <1>1 DEF Goes, TypeOK

LEMMA EndsType ==
  ASSUME TypeOK, NEW d \in Driver, Ends(d)
  PROVE  drv' \in [Driver -> Commands]
<1>1. NoCommand \in Commands /\ "idle" \in PCs
  BY DEF NoCommand, Commands, PCs
<1>2. QED
  BY <1>1, GoesType DEF Ends

LEMMA TurnsType ==
  ASSUME TypeOK, NEW d \in Driver, NEW k, Turns(d, k, "planned")
  PROVE  drv' \in [Driver -> Commands]
<1> DEFINE cmd == [drv[d] EXCEPT !.left = @ \ {k}, !.about = None, !.seen = None]
<1>1. cmd \in Commands /\ "planned" \in PCs
  BY DrvType DEF Commands, PCs, Reconciling
<1>2. Goes(d, "planned", cmd)
  BY DEF Turns
<1> HIDE DEF cmd
<1>3. QED
  BY <1>1, <1>2, GoesType

LEMMA JobType ==
  ASSUME TypeOK, NEW d \in Driver, NEW k \in Key, NEW j \in Jobs,
         job' = [job EXCEPT ![d][k] = j]
  PROVE  job' \in [Driver -> [Key -> Jobs]]
  BY DEF TypeOK

LEMMA EntryType ==
  ASSUME TypeOK, NEW d \in Driver, NEW k \in Key,
         NEW at \in {"none", "pending", "ok", "failed"} \cup Running, NEW b \in Digest \cup {None}
  PROVE  [job[d][k] EXCEPT !.at = at] \in Jobs /\ [job[d][k] EXCEPT !.at = at, !.built = b] \in Jobs
<1>1. job[d][k] \in Jobs
  BY DEF TypeOK
<1>2. QED
  BY <1>1 DEF Jobs

LEMMA MovesType ==
  ASSUME TypeOK, NEW d \in Driver, NEW k \in Key,
         NEW at \in {"none", "pending", "ok", "failed"} \cup Running, Moves(d, k, at)
  PROVE  job' \in [Driver -> [Key -> Jobs]]
<1>1. [job[d][k] EXCEPT !.at = at] \in Jobs
  BY EntryType
<1>2. job' = [job EXCEPT ![d][k] = [job[d][k] EXCEPT !.at = at]]
  BY DEF Moves
<1>3. QED
  BY <1>1, <1>2, JobType

LEMMA FailsType ==
  ASSUME TypeOK, NEW d \in Driver, NEW k \in Key, Fails(d, k)
  PROVE  job' \in [Driver -> [Key -> Jobs]]
<1>1. [job[d][k] EXCEPT !.at = "failed", !.built = None] \in Jobs
  BY EntryType
<1>2. job' = [job EXCEPT ![d][k] = [job[d][k] EXCEPT !.at = "failed", !.built = None]]
  BY DEF Fails
<1>3. QED
  BY <1>1, <1>2, JobType

LEMMA SpoilsType ==
  ASSUME TypeOK, NEW d, NEW keys, Spoils(d, keys)
  PROVE  spoilt' \in [Driver -> SUBSET Key]
  BY DEF Spoils, TypeOK, Commands

LEMMA ReleasedType ==
  ASSUME TypeOK, NEW d \in Driver, Released(d)
  PROVE  spoilt' \in [Driver -> SUBSET Key]
<1>1. drv[d].todo \in SUBSET Key
  BY DEF TypeOK, Commands
<1>2. QED
  BY <1>1 DEF Released, TypeOK

(* The files that a reconciliation leaves alone.                           *)
LEMMA ReconcileFiles ==
  ASSUME TypeOK, NEW d \in Driver, Reconcile(d)
  PROVE  /\ UNCHANGED <<job, snakefile, lock, queued, submitted, image, sidecar, staged, accidents>>
         /\ spec' \subseteq spec
         /\ \A k \in Key : manifest'[k] = manifest[k] \/ manifest'[k] = None
         /\ manifest' \in [Key -> Digest \cup {None}]
BY DEF Reconcile, ReadManifest, Condemn, LookAtImage, Unlink, ReconcileRaises, RemoveWork, root, TypeOK

LEMMA ReconcileType ==
  ASSUME TypeOK, NEW d \in Driver, Reconcile(d)
  PROVE  drv' \in [Driver -> Commands] /\ spoilt' \in [Driver -> SUBSET Key]
<1>0. drv[d] \in Commands /\ {"planned", "stat", "unlink", "doomed", "idle"} \subseteq PCs
  BY DrvType DEF PCs, Reconciling
<1>1. ASSUME NEW k \in Key, ReadManifest(d, k)
      PROVE  drv' \in [Driver -> Commands] /\ spoilt' = spoilt
  <2>1. manifest[k] \in Digest \cup {None}
    BY DEF TypeOK
  <2>2. [drv[d] EXCEPT !.about = k, !.seen = manifest[k]] \in Commands
    BY <1>0, <2>1 DEF Commands
  <2>3. QED
    BY <1>0, <1>1, <2>2, TurnsType, GoesType DEF ReadManifest
<1>2. ASSUME NEW k \in Key, Condemn(d, k)
      PROVE  drv' \in [Driver -> Commands] /\ spoilt' = spoilt
  <2>1. [drv[d] EXCEPT !.about = k] \in Commands
    BY <1>0 DEF Commands
  <2>2. QED
    BY <1>0, <1>2, <2>1, GoesType DEF Condemn
<1>3. CASE LookAtImage(d)
  <2>1. drv' \in [Driver -> Commands] /\ spoilt' = spoilt
    BY <1>0, <1>3, TurnsType, GoesType DEF LookAtImage
  <2>2. QED
    BY <2>1 DEF TypeOK
<1>4. CASE Unlink(d)
  BY <1>4, TurnsType, SpoilsType DEF Unlink
<1>5. CASE ReconcileRaises(d)
  BY <1>5, EndsType DEF ReconcileRaises, TypeOK
<1>6. CASE RemoveWork(d)
  <2>1. [drv[d] EXCEPT !.about = None] \in Commands
    BY <1>0 DEF Commands
  <2>2. QED
    BY <1>0, <1>6, <2>1, GoesType DEF RemoveWork, TypeOK
<1>7. QED
  BY <1>1, <1>2, <1>3, <1>4, <1>5, <1>6 DEF Reconcile, TypeOK

LEMMA PlanCommand ==
  ASSUME TypeOK, NEW wanted \in Plans, NEW mode
  PROVE  LET cmd == [NoCommand EXCEPT
                       !.plan = wanted, !.force = (mode = "force"), !.left = Key,
                       !.todo = IF mode = "build" THEN {k \in wanted : ~Complete(k)} ELSE wanted]
         IN  /\ cmd \in Commands /\ cmd.todo \subseteq wanted /\ cmd.left = Key
             /\ cmd.rules = {} /\ cmd.need = {}
BY SifAssumption DEF Commands, NoCommand, PCs

LEMMA TypeStep ==
  ASSUME TypeOK, Next
  PROVE  TypeOK'
<1>1. ASSUME NEW d \in Driver, NEW wanted \in Plans, NEW mode \in {"build", "force", "ingest"},
             Plan(d, wanted, mode)
      PROVE  TypeOK'
  <2>1. drv' \in [Driver -> Commands]
    BY <1>1, PlanCommand, GoesType DEF Plan, PCs, Reconciling
  <2>q. QED
    BY <1>1, <2>1 DEF TypeOK, Plan, root
<1>2. ASSUME NEW d \in Driver, Reconcile(d)
      PROVE  TypeOK'
  BY <1>2, ReconcileFiles, ReconcileType DEF TypeOK
<1>3. ASSUME NEW d \in Driver, WriteSnakefile(d)
      PROVE  TypeOK'
  <2>0. [drv[d] EXCEPT !.plan = {}, !.force = FALSE] \in Commands /\ drv[d].todo \subseteq Key
    BY DrvType DEF Commands
  <2>1. drv' \in [Driver -> Commands]
    BY <1>3, <2>0, GoesType, EndsType DEF WriteSnakefile, PCs
  <2>2. spoilt' \in [Driver -> SUBSET Key]
    BY <1>3, <2>0 DEF WriteSnakefile, TypeOK
  <2>q. QED
    BY <1>3, <2>0, <2>1, <2>2 DEF TypeOK, WriteSnakefile, root
<1>4. ASSUME NEW d \in Driver, Hold(d)
      PROVE  TypeOK'
  <2>1. drv' \in [Driver -> Commands]
    BY <1>4, GoesType, DrvType DEF Hold, PCs
  <2>q. QED
    BY <1>4, SifAssumption, <2>1 DEF TypeOK, Commands, Hold, root
<1>5. ASSUME NEW d \in Driver, StartDag(d)
      PROVE  TypeOK'
  <2>1. drv' \in [Driver -> Commands]
    BY <1>5, GoesType, DrvType DEF StartDag, TypeOK, Commands, PCs
  <2>q. QED
    BY <1>5, SifAssumption, <2>1 DEF TypeOK, Commands, StartDag, root
<1>6. ASSUME NEW d \in Driver, DagRefused(d)
      PROVE  TypeOK'
  <2>1. drv' \in [Driver -> Commands]
    BY <1>6, EndsType DEF DagRefused
  <2>2. spoilt' \in [Driver -> SUBSET Key]
    BY <1>6, ReleasedType DEF DagRefused
  <2>q. QED
    BY <1>6, SifAssumption, <2>1, <2>2 DEF TypeOK, Commands, DagRefused, root, Released
<1>7. ASSUME NEW d \in Driver, DagEnds(d)
      PROVE  TypeOK'
  <2>1. drv' \in [Driver -> Commands]
    BY <1>7, EndsType DEF DagEnds
  <2>2. job' \in [Driver -> [Key -> Jobs]]
    BY <1>7 DEF DagEnds, TypeOK, Jobs, NoJob
  <2>3. spoilt' \in [Driver -> SUBSET Key]
    BY <1>7, ReleasedType DEF DagEnds
  <2>q. QED
    BY <1>7, SifAssumption, <2>1, <2>2, <2>3 DEF TypeOK, Commands, DagEnds, root, Released
<1>8. ASSUME NEW d \in Driver, DriverKilled(d)
      PROVE  TypeOK'
  <2>1. drv' \in [Driver -> Commands]
    BY <1>8, GoesType, DrvType DEF DriverKilled, Commands, NoCommand, PCs
  <2>q. QED
    BY <1>8, SifAssumption, <2>1 DEF TypeOK, Commands, DriverKilled, root, Accident
<1>9. ASSUME NEW d \in Driver, NEW k \in Key, Submit(d, k)
      PROVE  TypeOK'
  <2>1. job' \in [Driver -> [Key -> Jobs]]
    <3>1. [at |-> "pending", built |-> None, tries |-> 1] \in Jobs
      BY DEF Jobs
    <3>2. QED
      BY <1>9, <3>1, JobType, MovesType DEF Submit
  <2>q. QED
    BY <1>9, <2>1 DEF TypeOK, Submit, root
<1>10. ASSUME NEW d \in Driver, NEW k \in Key, JobStarts(d, k)
      PROVE  TypeOK'
  <2>1. job' \in [Driver -> [Key -> Jobs]]
    BY <1>10, MovesType, FailsType DEF JobStarts, Running
  <2>q. QED
    BY <1>10, SifAssumption, <2>1 DEF TypeOK, Commands, JobStarts
<1>11. ASSUME NEW d \in Driver, NEW k \in Key, HandOff(d, k)
      PROVE  TypeOK'
  <2>1. job' \in [Driver -> [Key -> Jobs]]
    BY <1>11, MovesType DEF HandOff, Running
  <2>2. spoilt' \in [Driver -> SUBSET Key]
    BY <1>11, SpoilsType DEF HandOff
  <2>q. QED
    BY <1>11, SifAssumption, <2>1, <2>2 DEF TypeOK, Commands, HandOff, root
<1>12. ASSUME NEW d \in Driver, NEW k \in Key, Build(d, k)
      PROVE  TypeOK'
  <2>1. PICK b \in Digest : Builds(d, k, b)
    BY <1>12 DEF Build
  <2>2. [job[d][k] EXCEPT !.at = "staged", !.built = b] \in Jobs
    BY EntryType DEF Running
  <2>3. job' \in [Driver -> [Key -> Jobs]]
    <3>1. job' = [job EXCEPT ![d][k] = [job[d][k] EXCEPT !.at = "staged", !.built = b]]
      BY <2>1 DEF Builds
    <3>2. QED
      BY <3>1, <2>2, JobType
  <2>q. QED
    BY <1>12, <2>1, <2>3 DEF TypeOK, Build, Builds
<1>13. ASSUME NEW d \in Driver, NEW k \in Key, ReplaceImage(d, k)
      PROVE  TypeOK'
  <2>1. [job[d][k] EXCEPT !.at = "imaged", !.built = None] \in Jobs
    BY EntryType DEF Running
  <2>2. job' \in [Driver -> [Key -> Jobs]]
    BY <1>13, <2>1, JobType DEF ReplaceImage
  <2>3. job[d][k].built \in Digest \cup {None}
    BY DEF TypeOK, Jobs
  <2>q. QED
    BY <1>13, <2>2, <2>3 DEF TypeOK, ReplaceImage
<1>14. ASSUME NEW d \in Driver, NEW k \in Key, ReplaceSidecar(d, k)
      PROVE  TypeOK'
  <2>1. job' \in [Driver -> [Key -> Jobs]]
    BY <1>14, MovesType DEF ReplaceSidecar, Running
  <2>q. QED
    BY <1>14, SifAssumption, <2>1 DEF TypeOK, Commands, ReplaceSidecar
<1>15. ASSUME NEW d \in Driver, NEW k \in Key, ReplaceManifest(d, k)
      PROVE  TypeOK'
  <2>1. job' \in [Driver -> [Key -> Jobs]]
    BY <1>15, MovesType DEF ReplaceManifest, Running
  <2>q. QED
    BY <1>15, SifAssumption, <2>1 DEF TypeOK, Commands, ReplaceManifest
<1>16. ASSUME NEW d \in Driver, NEW k \in Key, JobReturns(d, k)
      PROVE  TypeOK'
  <2>1. job' \in [Driver -> [Key -> Jobs]]
    BY <1>16, MovesType DEF JobReturns, Running
  <2>q. QED
    BY <1>16, SifAssumption, <2>1 DEF TypeOK, Commands, JobReturns, root
<1>17. ASSUME NEW d \in Driver, NEW k \in Key, JobRaises(d, k)
      PROVE  TypeOK'
  <2>1. job' \in [Driver -> [Key -> Jobs]]
    BY <1>17, FailsType DEF JobRaises
  <2>q. QED
    BY <1>17, SifAssumption, <2>1 DEF TypeOK, Commands, JobRaises, root, Accident
<1>18. ASSUME NEW d \in Driver, NEW k \in Key, JobKilled(d, k)
      PROVE  TypeOK'
  <2>1. job' \in [Driver -> [Key -> Jobs]]
    BY <1>18, FailsType DEF JobKilled
  <2>q. QED
    BY <1>18, SifAssumption, <2>1 DEF TypeOK, Commands, JobKilled, root, Accident
<1>19. CASE CleanUp
  BY <1>19 DEF TypeOK, Commands, PCs, Jobs, Running, CleanUp, Live, NoCommand, NoJob, root
<1>20. ASSUME NEW k \in Key, ImageLost(k)
      PROVE  TypeOK'
  <2>1. spoilt' \in [Driver -> SUBSET Key]
    BY <1>20, SpoilsType DEF ImageLost
  <2>q. QED
    BY <1>20, SifAssumption, <2>1 DEF TypeOK, Commands, ImageLost, Accident
<1>q. QED
  BY <1>1, <1>2, <1>3, <1>4, <1>5, <1>6, <1>7, <1>8, <1>9, <1>10, <1>11, <1>12, <1>13, <1>14,
     <1>15, <1>16, <1>17, <1>18, <1>19, <1>20 DEF Next, Command, Runner

---------------------------------------------------------------------------
(* What the two records are after a step.                                  *)

LEMMA MovesIs ==
  ASSUME TypeOK, NEW d \in Driver, NEW k \in Key,
         NEW at \in {"none", "pending", "ok", "failed"} \cup Running, Moves(d, k, at)
  PROVE  /\ job'[d][k].at = at /\ job'[d][k].tries = job[d][k].tries
         /\ job'[d][k].built = job[d][k].built
         /\ \A e \in Driver, l \in Key : e # d \/ l # k => job'[e][l] = job[e][l]
<1> DEFINE j == [job[d][k] EXCEPT !.at = at]
<1>1. job[d][k] \in Jobs
  BY DEF TypeOK
<1>2. job' = [job EXCEPT ![d][k] = j]
  BY DEF Moves
<1>3. j \in Jobs /\ j.at = at /\ j.tries = job[d][k].tries /\ j.built = job[d][k].built
  BY EntryType, <1>1 DEF Jobs
<1> HIDE DEF j
<1>4. /\ job'[d][k] = j
      /\ \A e \in Driver, l \in Key : e # d \/ l # k => job'[e][l] = job[e][l]
  BY <1>2 DEF TypeOK
<1>5. QED
  BY <1>3, <1>4

LEMMA FailsIs ==
  ASSUME TypeOK, NEW d \in Driver, NEW k \in Key, Fails(d, k)
  PROVE  /\ job'[d][k].at = "failed"
         /\ \A e \in Driver, l \in Key : e # d \/ l # k => job'[e][l] = job[e][l]
<1> DEFINE j == [job[d][k] EXCEPT !.at = "failed", !.built = None]
<1>1. job[d][k] \in Jobs
  BY DEF TypeOK
<1>2. job' = [job EXCEPT ![d][k] = j]
  BY DEF Fails
<1>3. j \in Jobs /\ j.at = "failed"
  BY EntryType, <1>1 DEF Jobs
<1> HIDE DEF j
<1>4. /\ job'[d][k] = j
      /\ \A e \in Driver, l \in Key : e # d \/ l # k => job'[e][l] = job[e][l]
  BY <1>2 DEF TypeOK
<1>5. QED
  BY <1>3, <1>4

LEMMA ImageIs ==
  ASSUME TypeOK, NEW d \in Driver, NEW k \in Key, ReplaceImage(d, k)
  PROVE  /\ job'[d][k].at = "imaged"
         /\ \A e \in Driver, l \in Key : e # d \/ l # k => job'[e][l] = job[e][l]
<1> DEFINE j == [job[d][k] EXCEPT !.at = "imaged", !.built = None]
<1>1. job[d][k] \in Jobs
  BY DEF TypeOK
<1>2. job' = [job EXCEPT ![d][k] = j]
  BY DEF ReplaceImage
<1>3. j \in Jobs /\ j.at = "imaged"
  BY EntryType, <1>1 DEF Jobs, Running
<1> HIDE DEF j
<1>4. /\ job'[d][k] = j
      /\ \A e \in Driver, l \in Key : e # d \/ l # k => job'[e][l] = job[e][l]
  BY <1>2 DEF TypeOK
<1>5. QED
  BY <1>3, <1>4

LEMMA BuildIs ==
  ASSUME TypeOK, NEW d \in Driver, NEW k \in Key, Build(d, k)
  PROVE  \E b \in Digest :
           /\ job'[d][k].at = "staged" /\ job'[d][k].built = b /\ staged' = [staged EXCEPT ![k] = b]
           /\ \A e \in Driver, l \in Key : e # d \/ l # k => job'[e][l] = job[e][l]
<1>1. job[d][k] \in Jobs
  BY DEF TypeOK
<1>2. SUFFICES ASSUME NEW b \in Digest, Builds(d, k, b)
               PROVE  /\ job'[d][k].at = "staged" /\ job'[d][k].built = b
                      /\ staged' = [staged EXCEPT ![k] = b]
                      /\ \A e \in Driver, l \in Key : e # d \/ l # k => job'[e][l] = job[e][l]
  BY DEF Build
<1> DEFINE j == [job[d][k] EXCEPT !.at = "staged", !.built = b]
<1>3. job' = [job EXCEPT ![d][k] = j] /\ staged' = [staged EXCEPT ![k] = b]
  BY <1>2 DEF Builds
<1>4. j \in Jobs /\ j.at = "staged" /\ j.built = b
  BY EntryType, <1>1 DEF Jobs, Running
<1> HIDE DEF j
<1>5. /\ job'[d][k] = j
      /\ \A e \in Driver, l \in Key : e # d \/ l # k => job'[e][l] = job[e][l]
  BY <1>3 DEF TypeOK
<1>6. QED
  BY <1>3, <1>4, <1>5

LEMMA SubmitIs ==
  ASSUME TypeOK, NEW d \in Driver, NEW k \in Key, Submit(d, k)
  PROVE  /\ job'[d][k].at = "pending"
         /\ \/ job[d][k].at = "none" /\ job'[d][k].tries = job[d][k].tries
            \/ job[d][k].at = "failed" /\ job'[d][k].tries = 1
         /\ \A e \in Driver, l \in Key : e # d \/ l # k => job'[e][l] = job[e][l]
<1>1. CASE job[d][k].at = "none" /\ Moves(d, k, "pending")
  BY <1>1, MovesIs
<1>2. CASE /\ job[d][k].at = "failed"
           /\ job' = [job EXCEPT ![d][k] = [at |-> "pending", built |-> None, tries |-> 1]]
  <2> DEFINE j == [at |-> "pending", built |-> None, tries |-> 1]
  <2>1. j.at = "pending" /\ j.tries = 1
    OBVIOUS
  <2>2. job' = [job EXCEPT ![d][k] = j]
    BY <1>2
  <2> HIDE DEF j
  <2>3. /\ job'[d][k] = j
        /\ \A e \in Driver, l \in Key : e # d \/ l # k => job'[e][l] = job[e][l]
    BY <2>2 DEF TypeOK
  <2>4. QED
    BY <1>2, <2>1, <2>3
<1>3. QED
  BY <1>1, <1>2 DEF Submit

LEMMA GoesIs ==
  ASSUME TypeOK, NEW d \in Driver, NEW pc \in PCs, NEW cmd \in Commands, Goes(d, pc, cmd)
  PROVE  /\ drv'[d].pc = pc /\ drv'[d].left = cmd.left /\ drv'[d].todo = cmd.todo
         /\ drv'[d].about = cmd.about
         /\ drv'[d].rules = cmd.rules /\ drv'[d].need = cmd.need
         /\ \A e \in Driver : e # d => drv'[e] = drv[e]
<1> DEFINE c == [cmd EXCEPT !.pc = pc]
<1>1. /\ c.pc = pc /\ c.left = cmd.left /\ c.todo = cmd.todo /\ c.about = cmd.about
      /\ c.rules = cmd.rules /\ c.need = cmd.need
  BY DEF Commands
<1>2. drv' = [drv EXCEPT ![d] = c]
  BY DEF Goes
<1> HIDE DEF c
<1>3. drv'[d] = c /\ \A e \in Driver : e # d => drv'[e] = drv[e]
  BY <1>2 DEF TypeOK
<1>4. QED
  BY <1>1, <1>3

LEMMA PlanIs ==
  ASSUME TypeOK, NEW d \in Driver, NEW wanted \in Plans, NEW mode, Plan(d, wanted, mode)
  PROVE  /\ drv'[d].pc = "planned" /\ drv'[d].todo \subseteq wanted /\ drv'[d].left = Key
         /\ drv'[d].rules = {} /\ drv'[d].need = {}
         /\ \A e \in Driver : e # d => drv'[e] = drv[e]
<1> DEFINE cmd == [NoCommand EXCEPT
                     !.plan = wanted, !.force = (mode = "force"), !.left = Key,
                     !.todo = IF mode = "build" THEN {k \in wanted : ~Complete(k)} ELSE wanted]
<1>1. /\ cmd \in Commands /\ cmd.todo \subseteq wanted /\ cmd.left = Key
      /\ cmd.rules = {} /\ cmd.need = {}
  BY PlanCommand
<1>2. Goes(d, "planned", cmd) /\ "planned" \in PCs
  BY DEF Plan, PCs, Reconciling
<1> HIDE DEF cmd
<1>3. QED
  BY <1>1, <1>2, GoesIs

LEMMA TurnsIs ==
  ASSUME TypeOK, NEW d \in Driver, NEW k, Turns(d, k, "planned")
  PROVE  /\ drv'[d].pc = "planned" /\ drv'[d].todo = drv[d].todo
         /\ drv'[d].left = drv[d].left \ {k}
         /\ \A e \in Driver : e # d => drv'[e] = drv[e]
<1> DEFINE cmd == [drv[d] EXCEPT !.left = @ \ {k}, !.about = None, !.seen = None]
<1>1. cmd \in Commands /\ cmd.todo = drv[d].todo /\ cmd.left = drv[d].left \ {k}
  BY DrvType DEF Commands
<1>2. Goes(d, "planned", cmd) /\ "planned" \in PCs
  BY DEF Turns, PCs, Reconciling
<1> HIDE DEF cmd
<1>3. QED
  BY <1>1, <1>2, GoesIs

LEMMA EndsIs ==
  ASSUME TypeOK, NEW d \in Driver, Ends(d)
  PROVE  /\ drv'[d].pc = "idle" /\ drv'[d].todo = {}
         /\ \A e \in Driver : e # d => drv'[e] = drv[e]
<1>1. NoCommand \in Commands /\ NoCommand.todo = {} /\ "idle" \in PCs
  BY DEF Commands, NoCommand, PCs
<1>2. QED
  BY <1>1, GoesIs DEF Ends

(* A step of a reconciliation: what has been passed grows by what was      *)
(* looked at and found in order, or lost its manifest.                     *)
LEMMA ReconcileIs ==
  ASSUME TypeOK, NEW d \in Driver, Reconcile(d)
  PROVE  /\ drv[d].pc \in Reconciling \cup {"doomed"}
         /\ drv'[d].pc \in Reconciling \cup {"doomed", "idle"}
         /\ drv'[d].todo = drv[d].todo \/ drv'[d].todo = {}
         /\ \A e \in Driver : e # d => drv'[e] = drv[e]
         /\ drv'[d].pc = "idle" => drv'[d].todo = {}
         /\ drv'[d].pc = "doomed" => \E k \in Key : Condemn(d, k) /\ drv'[d].about = k
<1>0. drv[d] \in Commands /\ {"planned", "stat", "unlink", "doomed"} \subseteq PCs
  BY DrvType DEF PCs, Reconciling
<1>1. ASSUME NEW k \in Key, ReadManifest(d, k)
      PROVE  /\ drv[d].pc = "planned" /\ drv'[d].pc \in {"planned", "stat"}
             /\ drv'[d].todo = drv[d].todo /\ \A e \in Driver : e # d => drv'[e] = drv[e]
  <2>1. manifest[k] \in Digest \cup {None}
    BY DEF TypeOK
  <2> DEFINE c == [drv[d] EXCEPT !.about = k, !.seen = manifest[k]]
  <2>2. c \in Commands /\ c.todo = drv[d].todo
    BY <1>0, <2>1 DEF Commands
  <2>3. Turns(d, k, "planned") \/ Goes(d, "stat", c)
    BY <1>1 DEF ReadManifest
  <2> HIDE DEF c
  <2>4. QED
    BY <1>0, <1>1, <2>2, <2>3, TurnsIs, GoesIs DEF ReadManifest
<1>2. ASSUME NEW k \in Key, Condemn(d, k)
      PROVE  /\ drv[d].pc = "planned" /\ drv'[d].pc = "doomed" /\ drv'[d].about = k
             /\ drv'[d].todo = drv[d].todo /\ \A e \in Driver : e # d => drv'[e] = drv[e]
  <2> DEFINE c == [drv[d] EXCEPT !.about = k]
  <2>1. c \in Commands /\ c.todo = drv[d].todo /\ c.about = k
    BY <1>0 DEF Commands
  <2>2. Goes(d, "doomed", c)
    BY <1>2 DEF Condemn
  <2> HIDE DEF c
  <2>3. QED
    BY <1>0, <1>2, <2>1, <2>2, GoesIs DEF Condemn, Sweeps
<1>3. CASE LookAtImage(d)
  <2>1. Goes(d, "unlink", drv[d]) \/ Turns(d, drv[d].about, "planned")
    BY <1>3 DEF LookAtImage
  <2>2. QED
    BY <1>0, <1>3, <2>1, TurnsIs, GoesIs DEF LookAtImage, Reconciling
<1>4. CASE Unlink(d)
  BY <1>4, TurnsIs DEF Unlink, Reconciling
<1>5. CASE ReconcileRaises(d)
  BY <1>5, EndsIs DEF ReconcileRaises
<1>6. CASE RemoveWork(d)
  <2> DEFINE c == [drv[d] EXCEPT !.about = None]
  <2>1. c \in Commands /\ c.todo = drv[d].todo
    BY <1>0 DEF Commands
  <2>2. Goes(d, "planned", c)
    BY <1>6 DEF RemoveWork
  <2> HIDE DEF c
  <2>3. QED
    BY <1>0, <1>6, <2>1, <2>2, GoesIs DEF RemoveWork, Reconciling
<1>7. QED
  BY <1>1, <1>2, <1>3, <1>4, <1>5, <1>6 DEF Reconcile, Reconciling

(* Whom a step spoils.                                                     *)
LEMMA SpoiltIs ==
  ASSUME TypeOK, NEW d, NEW keys, Spoils(d, keys)
  PROVE  \A e \in Driver :
           spoilt'[e] = spoilt[e] \cup (IF e = d THEN {} ELSE keys \cap drv[e].todo)
  BY DEF Spoils

(* Whom it spoils.                                                         *)
LEMMA ReconcileSpoils ==
  ASSUME TypeOK, NEW d \in Driver, Reconcile(d)
  PROVE  /\ \A e \in Driver \ {d} : spoilt[e] \subseteq spoilt'[e]
         /\ drv'[d].pc # "idle" => spoilt[d] \subseteq spoilt'[d]
         /\ \A e \in Driver \ {d}, k \in Key :
              k \in drv[e].todo \ spoilt'[e] => manifest'[k] = manifest[k]
<1>1. CASE Unlink(d)
  BY <1>1, SpoiltIs DEF Unlink, TypeOK
<1>2. CASE ReconcileRaises(d)
  BY <1>2, EndsIs DEF ReconcileRaises, TypeOK, root
<1>3. CASE ~Unlink(d) /\ ~ReconcileRaises(d)
  <2>1. spoilt' = spoilt /\ manifest' = manifest
    BY <1>3 DEF Reconcile, ReadManifest, Condemn, LookAtImage, RemoveWork, root
  <2>2. QED
    BY <2>1
<1>4. QED
  BY <1>1, <1>2, <1>3

LEMMA WriteIs ==
  ASSUME TypeOK, NEW d \in Driver, WriteSnakefile(d)
  PROVE  /\ drv'[d].todo = drv[d].todo
         /\ drv'[d].pc = "written" \/ drv'[d].pc = "idle"
         /\ \A e \in Driver : e # d => drv'[e] = drv[e]
<1> DEFINE c == [drv[d] EXCEPT !.plan = {}, !.force = FALSE]
<1>1. c \in Commands /\ c.todo = drv[d].todo /\ "written" \in PCs
  BY DrvType DEF Commands, PCs
<1>2. Goes(d, "written", c) \/ (drv[d].todo = {} /\ Ends(d))
  BY DEF WriteSnakefile
<1> HIDE DEF c
<1>3. QED
  BY <1>1, <1>2, GoesIs, EndsIs

LEMMA HoldIs ==
  ASSUME TypeOK, NEW d \in Driver, Hold(d)
  PROVE  /\ drv'[d].pc = "held" /\ drv'[d].todo = drv[d].todo
         /\ \A e \in Driver : e # d => drv'[e] = drv[e]
  BY GoesIs, DrvType DEF PCs, Hold

LEMMA StartIs ==
  ASSUME TypeOK, NEW d \in Driver, StartDag(d)
  PROVE  /\ drv'[d].pc = "dag" /\ drv'[d].todo = drv[d].todo
         /\ drv'[d].rules = snakefile /\ drv'[d].need = {k \in snakefile : manifest[k] = None}
         /\ \A e \in Driver : e # d => drv'[e] = drv[e]
<1> DEFINE cmd == [drv[d] EXCEPT !.rules = snakefile, !.need = {k \in snakefile : manifest[k] = None}]
<1>1. /\ cmd \in Commands /\ cmd.todo = drv[d].todo
      /\ cmd.rules = snakefile /\ cmd.need = {k \in snakefile : manifest[k] = None}
  BY DrvType DEF Commands, TypeOK
<1>2. Goes(d, "dag", cmd)
  BY DEF StartDag
<1> HIDE DEF cmd
<1>3. QED
  BY <1>1, <1>2, GoesIs DEF PCs

LEMMA KilledIs ==
  ASSUME TypeOK, NEW d \in Driver, DriverKilled(d)
  PROVE  /\ drv'[d].pc = "dead" /\ drv'[d].todo = drv[d].todo
         /\ \A e \in Driver : e # d => drv'[e] = drv[e]
<1> DEFINE cmd == [NoCommand EXCEPT !.todo = drv[d].todo]
<1>1. cmd \in Commands /\ cmd.todo = drv[d].todo
  BY DrvType DEF Commands, NoCommand, PCs
<1>2. Goes(d, "dead", cmd)
  BY DEF DriverKilled
<1> HIDE DEF cmd
<1>3. QED
  BY <1>1, <1>2, GoesIs DEF PCs

(* A runner's step is about the build of its own identity.                 *)
LEMMA RunnerIs ==
  ASSUME TypeOK, NEW d \in Driver, NEW k \in Key, Runner(d, k)
  PROVE  /\ drv' = drv /\ lock' = lock
         /\ job[d][k].at # "none" \/ (drv[d].pc = "dag" /\ k \in drv[d].need)
         /\ \A e \in Driver, l \in Key : e # d \/ l # k => job'[e][l] = job[e][l]
<1>1. CASE Submit(d, k)
  BY <1>1, SubmitIs DEF Submit
<1>2. CASE JobStarts(d, k)
  BY <1>2, MovesIs, FailsIs DEF JobStarts, Running
<1>3. CASE HandOff(d, k)
  BY <1>3, MovesIs DEF HandOff, Running
<1>4. CASE Build(d, k)
  BY <1>4, BuildIs DEF Build
<1>5. CASE ReplaceImage(d, k)
  BY <1>5, ImageIs DEF ReplaceImage
<1>6. CASE ReplaceSidecar(d, k)
  BY <1>6, MovesIs DEF ReplaceSidecar, Running
<1>7. CASE ReplaceManifest(d, k)
  BY <1>7, MovesIs DEF ReplaceManifest, Running
<1>8. CASE JobReturns(d, k)
  BY <1>8, MovesIs DEF JobReturns
<1>9. CASE JobRaises(d, k)
  BY <1>9, FailsIs DEF JobRaises
<1>10. CASE JobKilled(d, k)
  BY <1>10, FailsIs DEF JobKilled, Live, Running
<1>q. QED
  BY <1>1, <1>2, <1>3, <1>4, <1>5, <1>6, <1>7, <1>8, <1>9, <1>10 DEF Runner

LEMMA RunnerTakesUp ==
  ASSUME TypeOK, NEW d \in Driver, NEW k \in Key, Runner(d, k)
  PROVE  job'[d][k].at # "none"
  BY SubmitIs, MovesIs, FailsIs, BuildIs, ImageIs
     DEF Runner, JobStarts, HandOff, ReplaceSidecar, ReplaceManifest, JobReturns, JobRaises,
         JobKilled, Running

LEMMA OwnedStep ==
  ASSUME TypeOK, Owned, Next
  PROVE  Owned'
<1>1. ASSUME NEW d \in Driver, NEW k \in Key, Runner(d, k)
      PROVE  Owned'
  <2>1. \A e \in Driver, l \in Key : job'[e][l].at = "none" => job'[e][l] = job[e][l]
    BY <1>1, RunnerIs, RunnerTakesUp
  <2>2. QED
    BY <1>1, <2>1, RunnerIs DEF Owned
<1>2. ASSUME NEW d \in Driver, NEW wanted \in Plans, NEW mode \in {"build", "force", "ingest"},
             Plan(d, wanted, mode)
      PROVE  Owned'
  <2>1. job' = job /\ lock' = lock /\ drv[d].pc = "idle"
    BY <1>2 DEF Plan
  <2>2. QED
    BY <1>2, <2>1, PlanIs DEF Owned
<1>3. ASSUME NEW d \in Driver, Reconcile(d) PROVE Owned'
  <2>1. /\ job' = job /\ lock' = lock
        /\ drv[d].pc \notin {"dag", "dead"} /\ drv'[d].pc \notin {"dag", "dead"}
        /\ \A e \in Driver : e # d => drv'[e] = drv[e]
    BY <1>3, ReconcileFiles, ReconcileIs DEF Reconciling
  <2>2. QED
    BY <2>1 DEF Owned
<1>4. ASSUME NEW d \in Driver, WriteSnakefile(d) PROVE Owned'
  <2>1. job' = job /\ lock' = lock /\ drv[d].pc = "planned"
    BY <1>4 DEF WriteSnakefile, Sweeps
  <2>2. QED
    BY <1>4, <2>1, WriteIs DEF Owned
<1>5. ASSUME NEW d \in Driver, Hold(d) PROVE Owned'
  <2>1. job' = job /\ lock' = lock /\ drv[d].pc = "written"
    BY <1>5 DEF Hold
  <2>2. QED
    BY <1>5, <2>1, HoldIs DEF Owned
<1>6. ASSUME NEW d \in Driver, StartDag(d) PROVE Owned'
  <2>1. /\ job' = job /\ drv[d].pc = "held"
        /\ \A k \in Key : lock'[k] = IF k \in snakefile THEN d ELSE lock[k]
        /\ \A k \in snakefile : lock[k] = None
    BY <1>6 DEF StartDag, LockedOut
  <2>2. snakefile \subseteq Key /\ None \notin Driver
    BY SifAssumption DEF TypeOK
  <2>3. ASSUME NEW e \in Driver, drv'[e].pc = "dag"
        PROVE  drv'[e].need \subseteq drv'[e].rules /\ \A k \in drv'[e].rules : lock'[k] = e
    <3>1. CASE e = d
      BY <1>6, <2>1, <2>2, <3>1, StartIs
    <3>2. CASE e # d
      <4>1. drv'[e] = drv[e] /\ drv[e].rules \subseteq Key
        BY <1>6, <3>2, StartIs DEF TypeOK, Commands
      <4>2. QED
        BY <2>1, <2>2, <2>3, <4>1 DEF Owned
    <3>3. QED
      BY <3>1, <3>2
  <2>4. ASSUME NEW e \in Driver, NEW k \in Key, job'[e][k].at # "none"
        PROVE  /\ lock'[k] = e
               /\ drv'[e].pc = "dead" \/ (drv'[e].pc = "dag" /\ k \in drv'[e].need)
    BY <1>6, <2>1, <2>2, <2>4, StartIs DEF Owned
  <2>5. QED
    BY <2>1, <2>3, <2>4 DEF Owned
<1>7. ASSUME NEW d \in Driver, DagRefused(d) PROVE Owned'
  <2>1. job' = job /\ lock' = lock /\ drv[d].pc = "held" /\ Ends(d)
    BY <1>7 DEF DagRefused
  <2>2. QED
    BY <2>1, EndsIs DEF Owned
<1>8. ASSUME NEW d \in Driver, DagEnds(d) PROVE Owned'
  <2>1. /\ Ends(d)
        /\ \A k \in Key : lock'[k] = IF lock[k] = d THEN None ELSE lock[k]
        /\ job' = [job EXCEPT ![d] = [k \in Key |-> NoJob]]
    BY <1>8 DEF DagEnds
  <2>2. /\ \A k \in Key : job'[d][k].at = "none" /\ job'[d][k].tries = 0
        /\ \A e \in Driver, k \in Key : e # d => job'[e][k] = job[e][k]
    BY <2>1 DEF TypeOK, NoJob
  <2>3. ASSUME NEW e \in Driver, drv'[e].pc = "dag"
        PROVE  drv'[e].need \subseteq drv'[e].rules /\ \A k \in drv'[e].rules : lock'[k] = e
    <3>1. e # d /\ drv'[e] = drv[e]
      BY <2>1, <2>3, EndsIs
    <3>2. drv[e].rules \subseteq Key
      BY DEF TypeOK, Commands
    <3>3. QED
      BY <2>1, <2>3, <3>1, <3>2 DEF Owned
  <2>4. QED
    BY <2>1, <2>2, <2>3, EndsIs DEF Owned
<1>9. ASSUME NEW d \in Driver, DriverKilled(d) PROVE Owned'
  <2>1. job' = job /\ lock' = lock
    BY <1>9 DEF DriverKilled
  <2>2. QED
    BY <1>9, <2>1, KilledIs DEF Owned
<1>10. CASE CleanUp
  BY <1>10 DEF CleanUp, Owned, NoCommand, NoJob
<1>11. ASSUME NEW k \in Key, ImageLost(k) PROVE Owned'
  BY <1>11 DEF ImageLost, Owned
<1>12. QED
  BY <1>1, <1>2, <1>3, <1>4, <1>5, <1>6, <1>7, <1>8, <1>9, <1>10, <1>11 DEF Next, Command

(* It leaves the files of other identities alone, and no other command has *)
(* a build of its identity.                                                *)
SameFiles(l) ==
  /\ image'[l] = image[l] /\ sidecar'[l] = sidecar[l]
  /\ manifest'[l] = manifest[l] /\ staged'[l] = staged[l]
  /\ l \in submitted' <=> l \in submitted
  /\ l \in queued' <=> l \in queued
  /\ l \in spec' <=> l \in spec

LEMMA RunnerFiles ==
  ASSUME TypeOK, NEW d \in Driver, NEW k \in Key, Runner(d, k)
  PROVE  \A l \in Key \ {k} : SameFiles(l)
<1>1. CASE Submit(d, k)
  BY <1>1 DEF TypeOK, SameFiles, Submit, root
<1>2. CASE JobStarts(d, k)
  BY <1>2 DEF TypeOK, SameFiles, JobStarts
<1>3. CASE HandOff(d, k)
  BY <1>3 DEF TypeOK, SameFiles, HandOff, root
<1>4. CASE Build(d, k)
  BY <1>4 DEF TypeOK, SameFiles, Build, Builds
<1>5. CASE ReplaceImage(d, k)
  BY <1>5 DEF TypeOK, SameFiles, ReplaceImage
<1>6. CASE ReplaceSidecar(d, k)
  BY <1>6 DEF TypeOK, SameFiles, ReplaceSidecar
<1>7. CASE ReplaceManifest(d, k)
  BY <1>7 DEF TypeOK, SameFiles, ReplaceManifest
<1>8. CASE JobReturns(d, k)
  BY <1>8 DEF TypeOK, SameFiles, JobReturns, root
<1>9. CASE JobRaises(d, k)
  BY <1>9 DEF TypeOK, SameFiles, JobRaises, root
<1>10. CASE JobKilled(d, k)
  BY <1>10 DEF TypeOK, SameFiles, JobKilled, root
<1>q. QED
  BY <1>1, <1>2, <1>3, <1>4, <1>5, <1>6, <1>7, <1>8, <1>9, <1>10 DEF Runner

LEMMA RunnerAlone ==
  ASSUME TypeOK, Owned, NEW d \in Driver, NEW k \in Key, Runner(d, k)
  PROVE  \A e \in Driver \ {d} : job[e][k].at = "none" /\ job'[e][k] = job[e][k]
  BY RunnerIs DEF Owned

LEMMA TransactionAfter ==
  ASSUME TypeOK, Owned, Transactions, NEW d \in Driver, NEW k \in Key, Runner(d, k)
  PROVE  Transaction(d, k)'
<1> USE DEF Running
<1>0. Transaction(d, k)
  BY DEF Transactions
<1>1. CASE Submit(d, k)
  BY <1>0, <1>1, SubmitIs DEF TypeOK, Transaction, Submit, root
<1>2. CASE JobStarts(d, k)
  BY <1>0, <1>2, MovesIs, FailsIs DEF TypeOK, Transaction, JobStarts
<1>3. CASE HandOff(d, k)
  BY <1>0, <1>3, MovesIs DEF TypeOK, Transaction, HandOff, root
<1>4. CASE Build(d, k)
  BY <1>0, <1>4, BuildIs, SifAssumption DEF TypeOK, Transaction, Build
<1>5. CASE ReplaceImage(d, k)
  BY <1>0, <1>5, ImageIs DEF TypeOK, Transaction, ReplaceImage
<1>6. CASE ReplaceSidecar(d, k)
  BY <1>0, <1>6, MovesIs DEF TypeOK, Transaction, ReplaceSidecar
<1>7. CASE ReplaceManifest(d, k)
  BY <1>0, <1>7, MovesIs DEF TypeOK, Transaction, ReplaceManifest
<1>8. CASE JobReturns(d, k)
  BY <1>0, <1>8, MovesIs DEF TypeOK, Transaction, JobReturns, root
<1>9. CASE JobRaises(d, k)
  BY <1>0, <1>9, FailsIs DEF TypeOK, Transaction, JobRaises, root
<1>10. CASE JobKilled(d, k)
  BY <1>0, <1>10, FailsIs DEF TypeOK, Transaction, JobKilled, root
<1>q. QED
  BY <1>1, <1>2, <1>3, <1>4, <1>5, <1>6, <1>7, <1>8, <1>9, <1>10 DEF Runner

LEMMA TransactionsStep ==
  ASSUME TypeOK, Owned, Transactions, Next
  PROVE  Transactions'
<1>1. ASSUME NEW d \in Driver, NEW k \in Key, Runner(d, k)
      PROVE  Transactions'
  <2>1. SUFFICES ASSUME NEW e \in Driver, NEW l \in Key
                 PROVE  Transaction(e, l)'
    BY DEF Transactions
  <2>2. CASE l # k
    <3>1. job'[e][l] = job[e][l] /\ SameFiles(l) /\ Transaction(e, l)
      BY <1>1, <2>2, RunnerIs, RunnerFiles DEF Transactions
    <3>2. QED
      BY <3>1 DEF Transaction, SameFiles
  <2>3. CASE l = k /\ e # d
    <3>1. job'[e][k].at = "none"
      BY <1>1, <2>3, RunnerAlone
    <3>2. QED
      BY <2>3, <3>1 DEF Transaction, Running
  <2>4. CASE l = k /\ e = d
    BY <1>1, <2>4, TransactionAfter
  <2>5. QED
    BY <2>2, <2>3, <2>4
<1>2. ASSUME NEW d \in Driver, Reconcile(d) PROVE Transactions'
  <2>1. \A k \in Key : manifest'[k] = None \/ manifest'[k] = manifest[k]
    BY <1>2, ReconcileFiles
  <2>2. /\ job' = job /\ submitted' = submitted /\ image' = image
        /\ sidecar' = sidecar /\ staged' = staged
    BY <1>2, ReconcileFiles
  <2>3. QED
    BY <2>1, <2>2 DEF Transactions, Transaction
<1>3. ASSUME NEW d \in Driver, DagEnds(d) PROVE Transactions'
  <2>1. \A e \in Driver, k \in Key : job'[e][k] = job[e][k] \/ job'[e][k].at = "none"
    BY <1>3 DEF DagEnds, TypeOK, NoJob
  <2>2. submitted' = submitted /\ root' = root
    BY <1>3 DEF DagEnds
  <2>3. QED
    BY <2>1, <2>2 DEF Transactions, Transaction, root, Running
<1>4. ASSUME NEW d \in Driver, Command(d), ~Reconcile(d), ~DagEnds(d) PROVE Transactions'
  <2>1. job' = job /\ submitted' = submitted /\ root' = root
    BY <1>4 DEF Command, Plan, WriteSnakefile, Hold, StartDag, DagRefused, DriverKilled
  <2>2. QED
    BY <2>1 DEF Transactions, Transaction, root
<1>5. CASE CleanUp
  <2>1. \A d \in Driver, k \in Key : job'[d][k].at = "none"
    BY <1>5 DEF CleanUp, NoJob
  <2>2. QED
    BY <2>1 DEF Transactions, Transaction, Running
<1>6. ASSUME NEW k \in Key, ImageLost(k) PROVE Transactions'
  <2>1. \A l \in Key : image'[l] = image[l] \/ image'[l] \in {Torn, None}
    BY <1>6 DEF ImageLost, TypeOK
  <2>2. /\ job' = job /\ submitted' = submitted /\ manifest' = manifest
        /\ sidecar' = sidecar /\ staged' = staged
    BY <1>6 DEF ImageLost
  <2>3. QED
    BY <2>1, <2>2 DEF Transactions, Transaction
<1>7. QED
  BY <1>1, <1>2, <1>3, <1>4, <1>5, <1>6 DEF Next

LEMMA ManifestStep ==
  ASSUME TypeOK, Owned, Transactions, ManifestProves, Next
  PROVE  ManifestProves'
<1>1. ASSUME NEW d \in Driver, NEW k \in Key, Runner(d, k)
      PROVE  ManifestProves'
  <2>1. SUFFICES ASSUME NEW l \in Key, manifest'[l] # None
                 PROVE  sidecar'[l] = manifest'[l] /\ image'[l] \in {manifest'[l], Torn, None}
    BY DEF ManifestProves
  <2>2. CASE l # k
    BY <1>1, <2>1, <2>2, RunnerFiles DEF SameFiles, ManifestProves
  <2>3. CASE l = k /\ ReplaceManifest(d, k)
    <3>1. Transaction(d, k)
      BY DEF Transactions
    <3>2. QED
      BY <2>3, <3>1 DEF ReplaceManifest, Transaction, TypeOK
  <2>4. CASE l = k /\ (ReplaceImage(d, k) \/ ReplaceSidecar(d, k))
    <3>1. Transaction(d, k)
      BY DEF Transactions
    <3>2. manifest'[k] = None
      BY <2>4, <3>1 DEF ReplaceImage, ReplaceSidecar, Transaction, Running
    <3>3. QED
      BY <2>1, <2>4, <3>2
  <2>5. CASE l = k /\ JobStarts(d, k)
    BY <2>1, <2>5 DEF JobStarts, TypeOK
  <2>6. CASE /\ l = k
             /\ \/ Submit(d, k) \/ HandOff(d, k) \/ Build(d, k) \/ JobReturns(d, k)
                \/ JobRaises(d, k) \/ JobKilled(d, k)
    <3>1. image' = image /\ sidecar' = sidecar /\ manifest' = manifest
      BY <2>6 DEF Submit, HandOff, Build, JobReturns, JobRaises, JobKilled, root
    <3>2. QED
      BY <2>1, <3>1 DEF ManifestProves
  <2>7. QED
    BY <1>1, <2>2, <2>3, <2>4, <2>5, <2>6 DEF Runner
<1>2. ASSUME NEW d \in Driver, Command(d) PROVE ManifestProves'
  <2>1. /\ image' = image /\ sidecar' = sidecar
        /\ \A k \in Key : manifest'[k] = None \/ manifest'[k] = manifest[k]
    BY <1>2, ReconcileFiles
       DEF Command, Plan, WriteSnakefile, Hold, StartDag, DagRefused, DagEnds, DriverKilled, root
  <2>2. QED
    BY <2>1 DEF ManifestProves
<1>3. CASE CleanUp
  BY <1>3 DEF CleanUp, ManifestProves, root
<1>4. ASSUME NEW k \in Key, ImageLost(k) PROVE ManifestProves'
  BY <1>4 DEF ImageLost, ManifestProves, TypeOK
<1>5. QED
  BY <1>1, <1>2, <1>3, <1>4 DEF Next

LEMMA ReleasedIs ==
  ASSUME TypeOK, NEW d \in Driver, Released(d)
  PROVE  /\ queued' = queued \ drv[d].todo
         /\ \A e \in Driver \ {d} : spoilt'[e] = spoilt[e] \cup (drv[d].todo \cap drv[e].todo)
  BY DEF Released

LEMMA RunnerSpoils ==
  ASSUME TypeOK, NEW d \in Driver, NEW k \in Key, Runner(d, k)
  PROVE  /\ \A e \in Driver : spoilt[e] \subseteq spoilt'[e]
         /\ \A e \in Driver \ {d} :
              k \in queued /\ k \notin queued' /\ k \in drv[e].todo => k \in spoilt'[e]
<1>1. CASE HandOff(d, k)
  BY <1>1, SpoiltIs DEF HandOff
<1>2. CASE ~HandOff(d, k)
  <2>1. spoilt' = spoilt /\ queued' = queued
    BY <1>2 DEF Runner, Submit, JobStarts, Build, ReplaceImage, ReplaceSidecar, ReplaceManifest,
                JobReturns, JobRaises, JobKilled
  <2>2. QED
    BY <2>1
<1>3. QED
  BY <1>1, <1>2

LEMMA AnnouncedStep ==
  ASSUME TypeOK, Owned, Announced, Next
  PROVE  Announced'
<1>1. ASSUME NEW d \in Driver, NEW k \in Key, Runner(d, k)
      PROVE  Announced'
  <2>1. SUFFICES ASSUME NEW e \in Driver, NEW l \in drv'[e].todo \ spoilt'[e],
                        job'[e][l].tries = 0,
                        \/ job'[e][l].at = "pending"
                        \/ job'[e][l].at = "none" /\ drv'[e].pc \in {"held", "dag"}
                 PROVE  l \in queued'
    BY DEF Announced
  <2>2. /\ drv' = drv /\ l \in drv[e].todo \ spoilt[e]
        /\ l \in Key
    BY <1>1, RunnerIs, RunnerSpoils DEF TypeOK, Commands
  <2>3. CASE l # k
    BY <1>1, <2>1, <2>2, <2>3, RunnerIs, RunnerFiles DEF SameFiles, Announced
  <2>4. CASE l = k /\ e # d
    BY <1>1, <2>1, <2>2, <2>4, RunnerIs, RunnerSpoils DEF Announced
  <2>5. CASE l = k /\ e = d
    <3>1. CASE Submit(d, k)
      <4>1. queued' = queued
        BY <3>1 DEF Submit
      <4>2. QED
        BY <2>1, <2>2, <2>5, <3>1, <4>1, SubmitIs DEF Announced, Submit
    <3>2. CASE ~Submit(d, k)
      <4>1. job'[d][k].at \notin {"none", "pending"}
        BY <1>1, <3>2, MovesIs, FailsIs, BuildIs, ImageIs
           DEF Runner, JobStarts, HandOff, ReplaceSidecar, ReplaceManifest, JobReturns, JobRaises,
               JobKilled, Running
      <4>2. QED
        BY <2>1, <2>5, <4>1
    <3>3. QED
      BY <3>1, <3>2
  <2>6. QED
    BY <2>3, <2>4, <2>5
<1>2. ASSUME NEW d \in Driver, NEW wanted \in Plans, NEW mode \in {"build", "force", "ingest"},
             Plan(d, wanted, mode)
      PROVE  Announced'
  <2>1. /\ job' = job /\ queued' = queued /\ drv[d].pc = "idle"
        /\ \A e \in Driver \ {d} : spoilt'[e] = spoilt[e]
    BY <1>2 DEF Plan, TypeOK
  <2>2. drv'[d].todo \subseteq Key
    BY <1>2, PlanIs, SifAssumption
  <2>3. \A k \in Key : job[d][k].at = "none"
    BY <2>1 DEF Owned
  <2>4. QED
    BY <1>2, <2>1, <2>2, <2>3, PlanIs DEF Announced
<1>3. ASSUME NEW d \in Driver, Reconcile(d) PROVE Announced'
  <2>1. /\ job' = job /\ queued' = queued
        /\ drv'[d].pc \notin {"held", "dag"} /\ drv[d].pc \notin {"dag", "dead"}
        /\ drv'[d].todo \subseteq Key /\ \A e \in Driver : e # d => drv'[e] = drv[e]
    BY <1>3, ReconcileFiles, ReconcileIs, ReconcileType DEF Reconciling, Commands
  <2>2. \A e \in Driver \ {d} : spoilt[e] \subseteq spoilt'[e]
    BY <1>3, ReconcileSpoils
  <2>3. \A k \in Key : job[d][k].at = "none"
    BY <2>1 DEF Owned
  <2>4. QED
    BY <2>1, <2>2, <2>3 DEF Announced
<1>4. ASSUME NEW d \in Driver, WriteSnakefile(d) PROVE Announced'
  <2>1. /\ job' = job /\ queued' = queued
        /\ \A e \in Driver : spoilt[e] \subseteq spoilt'[e]
    BY <1>4 DEF WriteSnakefile, TypeOK
  <2>2. QED
    BY <1>4, <2>1, WriteIs DEF Announced
<1>5. ASSUME NEW d \in Driver, Hold(d) PROVE Announced'
  <2>1. job' = job /\ queued' = queued \cup drv[d].todo /\ spoilt' = spoilt
    BY <1>5 DEF Hold
  <2>2. QED
    BY <1>5, <2>1, HoldIs DEF Announced
<1>6. ASSUME NEW d \in Driver, StartDag(d) PROVE Announced'
  <2>1. job' = job /\ queued' = queued /\ spoilt' = spoilt /\ drv[d].pc = "held"
    BY <1>6 DEF StartDag
  <2>2. QED
    BY <1>6, <2>1, StartIs DEF Announced
<1>7. ASSUME NEW d \in Driver, DagRefused(d) \/ DagEnds(d) PROVE Announced'
  <2>1. Ends(d) /\ Released(d)
    BY <1>7 DEF DagRefused, DagEnds
  <2>2. \A e \in Driver \ {d}, k \in Key : job'[e][k] = job[e][k]
    BY <1>7 DEF DagRefused, DagEnds, TypeOK
  <2>3. SUFFICES ASSUME NEW e \in Driver, NEW k \in drv'[e].todo \ spoilt'[e],
                        job'[e][k].tries = 0,
                        \/ job'[e][k].at = "pending"
                        \/ job'[e][k].at = "none" /\ drv'[e].pc \in {"held", "dag"}
                 PROVE  k \in queued'
    BY DEF Announced
  <2>4. e # d /\ drv'[e] = drv[e]
    BY <2>1, <2>3, EndsIs
  <2>5. k \in Key /\ k \in drv[e].todo \ spoilt[e] /\ k \notin drv[d].todo
    BY <2>1, <2>3, <2>4, ReleasedIs DEF TypeOK, Commands
  <2>6. k \in queued
    BY <2>2, <2>3, <2>4, <2>5 DEF Announced
  <2>7. QED
    BY <2>1, <2>5, <2>6, ReleasedIs
<1>8. ASSUME NEW d \in Driver, DriverKilled(d) PROVE Announced'
  <2>1. job' = job /\ queued' = queued /\ spoilt' = spoilt
    BY <1>8 DEF DriverKilled
  <2>2. QED
    BY <1>8, <2>1, KilledIs DEF Announced
<1>9. CASE CleanUp
  BY <1>9 DEF CleanUp, Announced, NoCommand
<1>10. ASSUME NEW k \in Key, ImageLost(k) PROVE Announced'
  <2>1. drv' = drv /\ job' = job /\ queued' = queued
    BY <1>10 DEF ImageLost
  <2>2. \A e \in Driver : spoilt[e] \subseteq spoilt'[e]
    BY <1>10, SpoiltIs DEF ImageLost
  <2>3. QED
    BY <2>1, <2>2 DEF Announced
<1>11. QED
  BY <1>1, <1>2, <1>3, <1>4, <1>5, <1>6, <1>7, <1>8, <1>9, <1>10 DEF Next, Command

(* The one place where a command's own step is more than a move.           *)
LEMMA SeenAfter ==
  ASSUME TypeOK, Owned, Transactions, NEW d \in Driver, NEW k \in Key, Runner(d, k),
         NEW e \in Driver, k \in drv[e].todo, Seen(e, k)
  PROVE  Seen(e, k)'
<1>1. Transaction(d, k) /\ Transaction(d, k)'
  BY TransactionAfter DEF Transactions
<1>2. /\ drv' = drv
      /\ job[d][k].at # "none" \/ (drv[d].pc = "dag" /\ k \in drv[d].need)
      /\ \A f \in Driver \ {d} : job[f][k].at = "none" /\ job'[f][k] = job[f][k]
  BY RunnerIs, RunnerAlone
<1>3. drv[e].pc = "dag" /\ k \in drv[e].rules => e = d
  BY <1>2 DEF Owned
<1>4. drv[d].pc = "dag" => k \in drv[d].need
  BY <1>2 DEF Owned
<1>5. ASSUME Passed(e, k)', manifest'[k] # None
      PROVE  image'[k] = manifest'[k]
  <2>0. Passed(e, k) /\ drv[e].pc # "dead"
    BY <1>2, <1>5 DEF Passed, Reconciling
  <2>1. CASE ReplaceManifest(d, k)
    BY <2>0, <2>1 DEF Seen, ReplaceManifest, TypeOK
  <2>2. CASE ReplaceImage(d, k) \/ JobStarts(d, k)
    <3>1. manifest'[k] = None
      BY <1>1, <2>2 DEF ReplaceImage, JobStarts, Transaction, Running, TypeOK
    <3>2. QED
      BY <1>5, <3>1
  <2>3. CASE ~ReplaceManifest(d, k) /\ ~ReplaceImage(d, k) /\ ~JobStarts(d, k)
    <3>1. image' = image /\ manifest' = manifest
      BY <2>3 DEF Runner, Submit, HandOff, Build, ReplaceSidecar, JobReturns, JobRaises, JobKilled, root
    <3>2. QED
      BY <2>0, <1>5, <3>1 DEF Seen
  <2>4. QED
    BY <2>1, <2>2, <2>3
<1>6. ASSUME drv'[e].pc # "dead", NEW f \in Driver, job'[f][k].at \in {"imaged", "sealed"}
      PROVE  image'[k] = staged'[k]
  <2>1. f = d
    BY <1>2, <1>6
  <2>2. CASE ReplaceImage(d, k)
    BY <1>1, <2>2 DEF ReplaceImage, Transaction, TypeOK
  <2>3. CASE ReplaceSidecar(d, k)
    BY <1>2, <1>6, <2>3 DEF ReplaceSidecar, Seen
  <2>4. CASE ~ReplaceImage(d, k) /\ ~ReplaceSidecar(d, k)
    <3>1. job'[d][k].at \notin {"imaged", "sealed"}
      BY <2>4, MovesIs, FailsIs, BuildIs, SubmitIs
         DEF Runner, JobStarts, HandOff, ReplaceManifest, JobReturns, JobRaises, JobKilled, Running
    <3>2. QED
      BY <1>6, <2>1, <3>1
  <2>5. QED
    BY <2>2, <2>3, <2>4
<1>7. ASSUME drv'[e].pc = "dag", k \in drv'[e].rules,
             k \in drv'[e].need => job'[e][k].at \in {"published", "ok"}
      PROVE  manifest'[k] # None
  <2>1. e = d /\ job'[d][k].at \in {"published", "ok"}
    BY <1>2, <1>3, <1>4, <1>7
  <2>2. CASE ReplaceManifest(d, k)
    BY <1>1, <2>2 DEF ReplaceManifest, Transaction, TypeOK
  <2>3. CASE JobReturns(d, k)
    BY <1>2, <1>7, <2>1, <2>3 DEF JobReturns, Seen, root
  <2>4. CASE ~ReplaceManifest(d, k) /\ ~JobReturns(d, k)
    <3>1. job'[d][k].at \notin {"published", "ok"}
      BY <2>4, MovesIs, FailsIs, BuildIs, SubmitIs, ImageIs
         DEF Runner, JobStarts, HandOff, ReplaceSidecar, JobRaises, JobKilled, Running
    <3>2. QED
      BY <2>1, <3>1
  <2>5. QED
    BY <2>2, <2>3, <2>4
<1>8. QED
  BY <1>5, <1>6, <1>7 DEF Seen

(* An identity a reconciliation has passed has its image, or no manifest.  *)
LEMMA ReconcilePasses ==
  ASSUME TypeOK, ManifestProves, NEW d \in Driver, Reconcile(d), NEW k \in Key,
         Passed(d, k) /\ manifest[k] # None => image[k] = manifest[k],
         drv'[d].pc # "idle"
  PROVE  Passed(d, k)' /\ manifest'[k] # None => image[k] = manifest'[k]
<1>0. drv[d] \in Commands /\ {"planned", "stat", "unlink", "doomed"} \subseteq PCs
  BY DrvType DEF PCs, Reconciling
<1>1. ASSUME NEW l \in Key, ReadManifest(d, l)
      PROVE  Passed(d, k)' /\ manifest'[k] # None => image[k] = manifest'[k]
  <2>1. manifest' = manifest /\ drv[d].pc = "planned"
    BY <1>1 DEF ReadManifest, root
  <2>2. CASE manifest[l] = None
    BY <1>1, <2>1, <2>2, TurnsIs DEF ReadManifest, Passed, Reconciling
  <2>3. CASE manifest[l] # None
    <3> DEFINE c == [drv[d] EXCEPT !.about = l, !.seen = manifest[l]]
    <3>1. c \in Commands /\ c.left = drv[d].left
      BY <1>0 DEF TypeOK, Commands
    <3>2. Goes(d, "stat", c)
      BY <1>1, <2>3 DEF ReadManifest
    <3> HIDE DEF c
    <3>3. QED
      BY <1>0, <2>1, <3>1, <3>2, GoesIs DEF Passed, Reconciling
  <2>4. QED
    BY <2>2, <2>3
<1>2. ASSUME NEW l \in Key, Condemn(d, l)
      PROVE  Passed(d, k)' /\ manifest'[k] # None => image[k] = manifest'[k]
  <2>1. manifest' = manifest /\ Passed(d, k)
    BY <1>2 DEF Condemn, Sweeps, root, Passed, Reconciling
  <2>2. QED
    BY <2>1
<1>3. CASE LookAtImage(d)
  <2>1. manifest' = manifest /\ drv[d].pc = "stat"
    BY <1>3 DEF LookAtImage, root
  <2>2. CASE Goes(d, "unlink", drv[d])
    BY <1>0, <2>1, <2>2, GoesIs DEF Passed, Reconciling
  <2>3. CASE /\ Turns(d, drv[d].about, "planned")
             /\ FALSE \in Verdicts(d, drv[d].about)
    <3>1. CASE k = drv[d].about
      <4>1. image[k] \notin {Torn, None}
        BY <2>3, <3>1 DEF Verdicts
      <4>2. QED
        BY <2>1, <4>1 DEF ManifestProves
    <3>2. CASE k # drv[d].about
      BY <2>1, <2>3, <3>2, TurnsIs DEF Passed, Reconciling
    <3>3. QED
      BY <3>1, <3>2
  <2>4. QED
    <3>1. \A q \in Verdicts(d, drv[d].about) : q \in BOOLEAN
      BY DEF Verdicts
    <3>2. QED
      BY <1>3, <2>2, <2>3, <3>1 DEF LookAtImage
<1>4. CASE Unlink(d)
  <2>1. drv[d].pc = "unlink" /\ drv'[d].left = drv[d].left \ {drv[d].about}
    BY <1>4, TurnsIs DEF Unlink
  <2>2. \A l \in Key : manifest'[l] = IF l = drv[d].about THEN None ELSE manifest[l]
    BY <1>4 DEF Unlink, TypeOK
  <2>3. CASE k = drv[d].about
    BY <2>2, <2>3
  <2>4. CASE k # drv[d].about
    BY <1>4, <2>1, <2>2, <2>4, TurnsIs DEF Unlink, Passed, Reconciling
  <2>5. QED
    BY <2>3, <2>4
<1>5. CASE ReconcileRaises(d)
  BY <1>5, EndsIs DEF ReconcileRaises
<1>6. CASE RemoveWork(d)
  BY <1>6 DEF RemoveWork, root, Passed
<1>7. QED
  BY <1>1, <1>2, <1>3, <1>4, <1>5, <1>6 DEF Reconcile

LEMMA SeenStep ==
  ASSUME TypeOK, Owned, Transactions, ManifestProves, AllSeen, Next
  PROVE  AllSeen'
<1>1. ASSUME NEW d \in Driver, NEW k \in Key, Runner(d, k)
      PROVE  AllSeen'
  <2>1. SUFFICES ASSUME NEW e \in Driver, NEW l \in drv'[e].todo \ spoilt'[e]
                 PROVE  Seen(e, l)'
    BY DEF AllSeen
  <2>2. drv' = drv /\ l \in drv[e].todo \ spoilt[e] /\ l \in Key /\ Seen(e, l)
    BY <1>1, RunnerIs, RunnerSpoils DEF TypeOK, Commands, AllSeen
  <2>3. CASE l = k
    BY <1>1, <2>2, <2>3, SeenAfter
  <2>4. CASE l # k
    <3>1. SameFiles(l) /\ \A f \in Driver : job'[f][l] = job[f][l]
      BY <1>1, <2>2, <2>4, RunnerFiles, RunnerIs
    <3>2. QED
      BY <2>2, <3>1 DEF Seen, SameFiles, Passed
  <2>5. QED
    BY <2>3, <2>4
<1>2. ASSUME NEW d \in Driver, NEW wanted \in Plans, NEW mode \in {"build", "force", "ingest"},
             Plan(d, wanted, mode)
      PROVE  AllSeen'
  <2>1. /\ job' = job /\ root' = root
        /\ \A e \in Driver \ {d} : spoilt'[e] = spoilt[e]
        /\ \A k \in wanted : k \notin submitted
    BY <1>2 DEF Plan, TypeOK, LiveSentinel
  <2>2. drv'[d].pc = "planned" /\ drv'[d].todo \subseteq wanted /\ wanted \subseteq Key
        /\ \A e \in Driver \ {d} : drv'[e] = drv[e]
    BY <1>2, PlanIs, SifAssumption
  <2>3. ASSUME NEW k \in drv'[d].todo PROVE Seen(d, k)'
    <3>1. \A e \in Driver : job[e][k].at \notin {"imaged", "sealed"}
      BY <2>1, <2>2 DEF Transactions, Transaction, Running
    <3>2. ~(Passed(d, k)') /\ drv'[d].pc # "dag"
      BY <1>2, <2>2, PlanIs DEF Passed, Reconciling
    <3>3. QED
      BY <2>1, <2>2, <3>1, <3>2 DEF Seen
  <2>4. ASSUME NEW e \in Driver \ {d}, NEW k \in drv'[e].todo \ spoilt'[e] PROVE Seen(e, k)'
    BY <2>1, <2>2 DEF AllSeen, Seen, Passed, root
  <2>5. QED
    BY <2>3, <2>4 DEF AllSeen
<1>3. ASSUME NEW d \in Driver, Reconcile(d) PROVE AllSeen'
  <2>1. /\ job' = job /\ image' = image /\ staged' = staged
        /\ drv[d].pc \in Reconciling \cup {"doomed"}
        /\ drv'[d].pc \in Reconciling \cup {"doomed", "idle"}
        /\ drv'[d].todo = drv[d].todo \/ drv'[d].todo = {}
        /\ \A e \in Driver \ {d} : drv'[e] = drv[e]
        /\ drv'[d].pc = "idle" => drv'[d].todo = {}
    BY <1>3, ReconcileFiles, ReconcileIs
  <2>2. ASSUME NEW k \in drv'[d].todo \ spoilt'[d] PROVE Seen(d, k)'
    <3>1. k \in Key /\ k \in drv[d].todo \ spoilt[d] /\ drv'[d].pc # "idle"
      BY <1>3, <2>1, ReconcileSpoils DEF TypeOK, Commands
    <3>2. Seen(d, k)
      BY <3>1 DEF AllSeen
    <3>3. Passed(d, k)' /\ manifest'[k] # None => image[k] = manifest'[k]
      BY <1>3, <3>1, <3>2, ReconcilePasses DEF Seen
    <3>4. QED
      BY <2>1, <3>1, <3>2, <3>3 DEF Seen, Reconciling
  <2>3. ASSUME NEW e \in Driver \ {d}, NEW k \in drv'[e].todo \ spoilt'[e] PROVE Seen(e, k)'
    <3>1. k \in Key /\ k \in drv[e].todo \ spoilt[e] /\ manifest'[k] = manifest[k]
      BY <1>3, <2>1, ReconcileSpoils DEF TypeOK, Commands
    <3>2. QED
      BY <2>1, <3>1 DEF AllSeen, Seen, Passed
  <2>4. QED
    BY <2>2, <2>3 DEF AllSeen
<1>4. ASSUME NEW d \in Driver, WriteSnakefile(d) PROVE AllSeen'
  <2>1. /\ job' = job /\ root' = root /\ drv[d].pc = "planned" /\ drv[d].left = {}
        /\ \A e \in Driver : spoilt[e] \subseteq spoilt'[e]
    BY <1>4 DEF WriteSnakefile, Sweeps, TypeOK
  <2>2. QED
    BY <1>4, <2>1, WriteIs DEF AllSeen, Seen, Passed, Reconciling, root
<1>5. ASSUME NEW d \in Driver, Hold(d) PROVE AllSeen'
  <2>1. job' = job /\ root' = root /\ spoilt' = spoilt /\ drv[d].pc = "written"
    BY <1>5 DEF Hold
  <2>2. QED
    BY <1>5, <2>1, HoldIs DEF AllSeen, Seen, Passed, Reconciling, root
<1>6. ASSUME NEW d \in Driver, StartDag(d) PROVE AllSeen'
  <2>1. job' = job /\ root' = root /\ spoilt' = spoilt /\ drv[d].pc = "held"
    BY <1>6 DEF StartDag
  <2>2. \A k \in Key : job[d][k].at = "none"
    BY <2>1 DEF Owned
  <2>3. SUFFICES ASSUME NEW e \in Driver, NEW k \in drv'[e].todo \ spoilt'[e]
                 PROVE  Seen(e, k)'
    BY DEF AllSeen
  <2>4. k \in Key /\ k \in drv[e].todo \ spoilt[e] /\ Seen(e, k)
    BY <1>6, <2>1, StartIs DEF TypeOK, Commands, AllSeen
  <2>5. CASE e = d
    BY <1>6, <2>1, <2>2, <2>4, <2>5, StartIs DEF Seen, Passed, Reconciling, root
  <2>6. CASE e # d
    BY <1>6, <2>1, <2>4, <2>6, StartIs DEF Seen, Passed, Reconciling, root
  <2>7. QED
    BY <2>5, <2>6
<1>7. ASSUME NEW d \in Driver, DagRefused(d) \/ DagEnds(d) PROVE AllSeen'
  <2>1. Ends(d) /\ Released(d) /\ root' = root
    BY <1>7 DEF DagRefused, DagEnds
  <2>2. /\ \A e \in Driver \ {d}, k \in Key : job'[e][k] = job[e][k]
        /\ \A k \in Key : job'[d][k] = job[d][k] \/ job'[d][k].at = "none"
    BY <1>7 DEF DagRefused, DagEnds, TypeOK, NoJob
  <2>3. SUFFICES ASSUME NEW e \in Driver, NEW k \in drv'[e].todo \ spoilt'[e]
                 PROVE  Seen(e, k)'
    BY DEF AllSeen
  <2>4. e # d /\ drv'[e] = drv[e]
    BY <2>1, <2>3, EndsIs
  <2>5. k \in Key /\ Seen(e, k)
    BY <2>1, <2>3, <2>4, ReleasedIs DEF TypeOK, Commands, AllSeen
  <2>6. QED
    BY <2>1, <2>2, <2>4, <2>5 DEF Seen, Passed, root
<1>8. ASSUME NEW d \in Driver, DriverKilled(d) PROVE AllSeen'
  <2>1. job' = job /\ root' = root /\ spoilt' = spoilt
    BY <1>8 DEF DriverKilled
  <2>2. QED
    BY <1>8, <2>1, KilledIs DEF AllSeen, Seen, Passed, Reconciling, root
<1>9. CASE CleanUp
  BY <1>9 DEF CleanUp, AllSeen, NoCommand
<1>10. ASSUME NEW k \in Key, ImageLost(k) PROVE AllSeen'
  <2>1. /\ drv' = drv /\ job' = job /\ manifest' = manifest /\ staged' = staged
        /\ \A l \in Key \ {k} : image'[l] = image[l]
    BY <1>10 DEF ImageLost, TypeOK
  <2>2. \A e \in Driver : spoilt'[e] = spoilt[e] \cup ({k} \cap drv[e].todo)
    BY <1>10, SpoiltIs, SifAssumption DEF ImageLost
  <2>3. \A e \in Driver : \A l \in drv[e].todo \ spoilt'[e] : l \in Key \ {k} /\ l \notin spoilt[e]
    BY <2>2 DEF TypeOK, Commands
  <2>4. QED
    BY <2>1, <2>3 DEF AllSeen, Seen, Passed
<1>11. QED
  BY <1>1, <1>2, <1>3, <1>4, <1>5, <1>6, <1>7, <1>8, <1>9, <1>10 DEF Next, Command

LEMMA KeptRunner ==
  ASSUME TypeOK, Owned, NEW d \in Driver, NEW k \in Key, Runner(d, k),
         NEW e \in Driver, k \in drv[e].todo \ spoilt'[e], Kept(e, k)
  PROVE  Kept(e, k)'
<1>1. /\ drv' = drv /\ \A f \in Driver \ {d} : job'[f][k] = job[f][k]
  BY RunnerIs
<1>2. Condemned(k)' <=> Condemned(k)
  BY <1>1 DEF Condemned
<1>3. ASSUME e # d PROVE job'[d][k].at \notin AtWork
  <2>1. job[d][k].at \notin AtWork
    BY <1>3 DEF Kept
  <2>2. ~HandOff(d, k)
    BY <1>3, SpoiltIs DEF HandOff
  <2>3. QED
    BY <2>1, <2>2, MovesIs, FailsIs, SubmitIs
       DEF AtWork, Running, Runner, JobStarts, Build, ReplaceImage, ReplaceSidecar,
           ReplaceManifest, JobReturns, JobRaises, JobKilled
<1>4. ASSUME Waits(e, k)' PROVE Waits(e, k)
  <2>1. CASE e # d
    BY <1>1, <1>4, <2>1 DEF Waits
  <2>2. CASE e = d /\ Submit(d, k)
    BY <1>1, <1>4, <2>2, SubmitIs DEF Waits, Submit
  <2>3. CASE e = d /\ ~Submit(d, k)
    <3>1. job'[d][k].at \notin {"none", "pending"}
      BY <2>3, MovesIs, FailsIs, BuildIs, ImageIs
         DEF Runner, JobStarts, HandOff, ReplaceSidecar, ReplaceManifest, JobReturns, JobRaises,
             JobKilled, Running
    <3>2. QED
      BY <1>1, <1>4, <2>3, <3>1 DEF Waits
  <2>4. QED
    BY <2>1, <2>2, <2>3
<1>5. ASSUME Waits(e, k)' PROVE spec' = spec
  <2>1. CASE JobReturns(d, k)
    <3>1. job[d][k].at \in AtWork
      BY <2>1 DEF JobReturns, AtWork, Running
    <3>2. e = d
      BY <3>1 DEF Kept
    <3>3. job[d][k].at = "published" /\ drv[d].pc \in {"dag", "dead"}
      BY <2>1 DEF JobReturns, Owned
    <3>4. QED
      BY <1>4, <1>5, <3>2, <3>3 DEF Waits
  <2>2. CASE ~JobReturns(d, k)
    BY <2>2 DEF Runner, Submit, JobStarts, HandOff, Build, ReplaceImage, ReplaceSidecar,
                ReplaceManifest, JobRaises, JobKilled
  <2>3. QED
    BY <2>1, <2>2
<1>6. QED
  BY <1>1, <1>2, <1>3, <1>4, <1>5 DEF Kept

(* A sweep condemns no directory that a build will need.                   *)
LEMMA CondemnsNone ==
  ASSUME TypeOK, Owned, Announced, NEW d \in Driver, NEW k \in Key, Condemn(d, k),
         NEW e \in Driver, k \in drv[e].todo \ spoilt[e]
  PROVE  ~Waits(e, k)
<1>1. k \notin queued /\ drv[e].pc # "written"
  BY DEF Condemn, LiveSentinel, Fresh
<1>2. job[e][k].at = "none" => job[e][k].tries = 0
  BY DEF Owned
<1>3. drv[e].pc = "held" => job[e][k].at = "none"
  BY DEF Owned
<1>4. QED
  BY <1>1, <1>2, <1>3 DEF Announced, Waits

LEMMA KeptStep ==
  ASSUME TypeOK, Owned, Transactions, Announced, AllKept, Next
  PROVE  AllKept'
<1>1. ASSUME NEW d \in Driver, NEW k \in Key, Runner(d, k)
      PROVE  AllKept'
  <2>1. SUFFICES ASSUME NEW e \in Driver, NEW l \in drv'[e].todo \ spoilt'[e]
                 PROVE  Kept(e, l)'
    BY DEF AllKept
  <2>2. drv' = drv /\ l \in drv[e].todo \ spoilt[e] /\ l \in Key /\ Kept(e, l)
    BY <1>1, RunnerIs, RunnerSpoils DEF TypeOK, Commands, AllKept
  <2>3. CASE l = k
    BY <1>1, <2>1, <2>2, <2>3, KeptRunner
  <2>4. CASE l # k
    <3>1. SameFiles(l) /\ \A f \in Driver : job'[f][l] = job[f][l]
      BY <1>1, <2>2, <2>4, RunnerFiles, RunnerIs
    <3>2. QED
      BY <2>2, <3>1 DEF Kept, Waits, Condemned, SameFiles
  <2>5. QED
    BY <2>3, <2>4
<1>2. ASSUME NEW d \in Driver, NEW wanted \in Plans, NEW mode \in {"build", "force", "ingest"},
             Plan(d, wanted, mode)
      PROVE  AllKept'
  <2>1. /\ job' = job /\ spec' = spec /\ drv[d].pc = "idle"
        /\ \A e \in Driver \ {d} : spoilt'[e] = spoilt[e]
        /\ \A k \in wanted : k \notin submitted
    BY <1>2 DEF Plan, TypeOK, LiveSentinel
  <2>2. /\ drv'[d].pc = "planned" /\ drv'[d].todo \subseteq wanted /\ wanted \subseteq Key
        /\ \A e \in Driver \ {d} : drv'[e] = drv[e]
    BY <1>2, PlanIs, SifAssumption
  <2>3. \A k \in Key : Condemned(k)' => Condemned(k)
    BY <2>2 DEF Condemned
  <2>4. ASSUME NEW k \in drv'[d].todo PROVE Kept(d, k)'
    <3>1. k \in Key /\ k \notin submitted /\ job[d][k].at = "none"
      BY <2>1, <2>2 DEF Owned
    <3>2. \A e \in Driver : job[e][k].at \notin AtWork
      BY <3>1 DEF Transactions, Transaction, AtWork
    <3>3. QED
      BY <2>1, <2>2, <3>1, <3>2 DEF Kept, Waits
  <2>5. ASSUME NEW e \in Driver \ {d}, NEW k \in drv'[e].todo \ spoilt'[e] PROVE Kept(e, k)'
    <3>1. k \in Key /\ Kept(e, k)
      BY <2>1, <2>2 DEF AllKept, TypeOK, Commands
    <3>2. QED
      BY <2>1, <2>2, <2>3, <3>1 DEF Kept, Waits
  <2>6. QED
    BY <2>4, <2>5 DEF AllKept
<1>3. ASSUME NEW d \in Driver, Reconcile(d) PROVE AllKept'
  <2>1. SUFFICES ASSUME NEW e \in Driver, NEW k \in drv'[e].todo \ spoilt'[e]
                 PROVE  Kept(e, k)'
    BY DEF AllKept
  <2>2. /\ job' = job
        /\ drv[d].pc \in Reconciling \cup {"doomed"}
        /\ drv'[d].pc \in Reconciling \cup {"doomed", "idle"}
        /\ drv'[d].todo = drv[d].todo \/ drv'[d].todo = {}
        /\ \A f \in Driver \ {d} : drv'[f] = drv[f]
        /\ drv'[d].pc = "idle" => drv'[d].todo = {}
    BY <1>3, ReconcileFiles, ReconcileIs
  <2>3. k \in Key /\ k \in drv[e].todo \ spoilt[e]
    BY <1>3, <2>1, <2>2, ReconcileSpoils DEF TypeOK, Commands
  <2>4. Kept(e, k)
    BY <2>3 DEF AllKept
  <2>5. Waits(e, k)' <=> Waits(e, k)
    BY <2>2 DEF Waits, Reconciling
  <2>6. ASSUME Waits(e, k) PROVE k \in spec'
    <3>1. k \in spec /\ ~Condemned(k)
      BY <2>4, <2>6 DEF Kept
    <3>2. CASE RemoveWork(d)
      BY <3>1, <3>2 DEF RemoveWork, Condemned
    <3>3. CASE ~RemoveWork(d)
      BY <1>3, <3>1, <3>3
         DEF Reconcile, ReadManifest, Condemn, LookAtImage, Unlink, ReconcileRaises
    <3>4. QED
      BY <3>2, <3>3
  <2>7. ASSUME Waits(e, k) PROVE ~(Condemned(k)')
    <3>1. SUFFICES ASSUME NEW f \in Driver, drv'[f].pc = "doomed", drv'[f].about = k
                   PROVE  FALSE
      BY DEF Condemned
    <3>2. CASE f # d
      BY <2>2, <2>4, <2>7, <3>1, <3>2 DEF Kept, Condemned
    <3>3. CASE f = d
      <4>1. Condemn(d, k)
        BY <1>3, <3>1, <3>3, ReconcileIs
      <4>2. QED
        BY <2>3, <2>7, <4>1, CondemnsNone
    <3>4. QED
      BY <3>2, <3>3
  <2>8. QED
    BY <2>2, <2>4, <2>5, <2>6, <2>7 DEF Kept
<1>4. ASSUME NEW d \in Driver, WriteSnakefile(d) PROVE AllKept'
  <2>1. SUFFICES ASSUME NEW e \in Driver, NEW k \in drv'[e].todo \ spoilt'[e]
                 PROVE  Kept(e, k)'
    BY DEF AllKept
  <2>2. /\ job' = job /\ spec' = spec \cup drv[d].todo /\ drv[d].pc = "planned"
        /\ \A f \in Driver : spoilt[f] \subseteq spoilt'[f]
        /\ \A l \in drv[d].todo : Condemned(l) => l \in spoilt'[d]
    BY <1>4 DEF WriteSnakefile, Sweeps, TypeOK
  <2>3. k \in Key /\ k \in drv[e].todo \ spoilt[e]
    BY <1>4, <2>2, WriteIs DEF TypeOK, Commands
  <2>4. Kept(e, k)
    BY <2>3 DEF AllKept
  <2>5. Condemned(k)' => Condemned(k)
    BY <1>4, WriteIs DEF Condemned
  <2>6. QED
    BY <1>4, <2>1, <2>2, <2>3, <2>4, <2>5, WriteIs DEF Kept, Waits
<1>5. ASSUME NEW d \in Driver, Hold(d) PROVE AllKept'
  <2>1. job' = job /\ spec' = spec /\ spoilt' = spoilt /\ drv[d].pc = "written"
    BY <1>5 DEF Hold
  <2>2. \A k \in Key : Condemned(k)' => Condemned(k)
    BY <1>5, HoldIs DEF Condemned
  <2>3. ASSUME NEW e \in Driver, NEW k \in drv'[e].todo \ spoilt'[e] PROVE Kept(e, k)'
    <3>1. k \in Key /\ Kept(e, k)
      BY <1>5, <2>1, <2>3, HoldIs DEF AllKept, TypeOK, Commands
    <3>2. Waits(e, k)' => Waits(e, k)
      BY <1>5, <2>1, HoldIs DEF Waits
    <3>3. QED
      BY <2>1, <2>2, <3>1, <3>2 DEF Kept
  <2>4. QED
    BY <2>3 DEF AllKept
<1>6. ASSUME NEW d \in Driver, StartDag(d) PROVE AllKept'
  <2>1. job' = job /\ spec' = spec /\ spoilt' = spoilt /\ drv[d].pc = "held"
    BY <1>6 DEF StartDag
  <2>2. \A k \in Key : Condemned(k)' => Condemned(k)
    BY <1>6, StartIs DEF Condemned
  <2>3. ASSUME NEW e \in Driver, NEW k \in drv'[e].todo \ spoilt'[e] PROVE Kept(e, k)'
    <3>1. k \in Key /\ Kept(e, k)
      BY <1>6, <2>1, <2>3, StartIs DEF AllKept, TypeOK, Commands
    <3>2. Waits(e, k)' => Waits(e, k)
      BY <1>6, <2>1, StartIs DEF Waits
    <3>3. QED
      BY <2>1, <2>2, <3>1, <3>2 DEF Kept
  <2>4. QED
    BY <2>3 DEF AllKept
<1>7. ASSUME NEW d \in Driver, DagRefused(d) \/ DagEnds(d) PROVE AllKept'
  <2>1. Ends(d) /\ Released(d) /\ spec' = spec
    BY <1>7 DEF DagRefused, DagEnds
  <2>2. /\ \A e \in Driver \ {d}, k \in Key : job'[e][k] = job[e][k]
        /\ \A k \in Key : job'[d][k] = job[d][k] \/ job'[d][k].at = "none"
    BY <1>7 DEF DagRefused, DagEnds, TypeOK, NoJob
  <2>3. SUFFICES ASSUME NEW e \in Driver, NEW k \in drv'[e].todo \ spoilt'[e]
                 PROVE  Kept(e, k)'
    BY DEF AllKept
  <2>4. e # d /\ drv'[e] = drv[e]
    BY <2>1, <2>3, EndsIs
  <2>5. k \in Key /\ Kept(e, k)
    BY <2>1, <2>3, <2>4, ReleasedIs DEF TypeOK, Commands, AllKept
  <2>6. Condemned(k)' => Condemned(k)
    BY <2>1, EndsIs DEF Condemned
  <2>7. \A f \in Driver \ {e} : job'[f][k].at \notin AtWork
    BY <2>2, <2>5 DEF Kept, AtWork, Running
  <2>8. QED
    BY <2>1, <2>2, <2>4, <2>5, <2>6, <2>7 DEF Kept, Waits
<1>8. ASSUME NEW d \in Driver, DriverKilled(d) PROVE AllKept'
  <2>1. job' = job /\ spec' = spec /\ spoilt' = spoilt
    BY <1>8 DEF DriverKilled
  <2>2. \A k \in Key : Condemned(k)' => Condemned(k)
    BY <1>8, KilledIs DEF Condemned
  <2>3. ASSUME NEW e \in Driver, NEW k \in drv'[e].todo \ spoilt'[e] PROVE Kept(e, k)'
    <3>1. k \in Key /\ Kept(e, k)
      BY <1>8, <2>1, <2>3, KilledIs DEF AllKept, TypeOK, Commands
    <3>2. Waits(e, k)' => Waits(e, k)
      BY <1>8, <2>1, KilledIs DEF Waits
    <3>3. QED
      BY <2>1, <2>2, <3>1, <3>2 DEF Kept
  <2>4. QED
    BY <2>3 DEF AllKept
<1>9. CASE CleanUp
  BY <1>9 DEF CleanUp, AllKept, NoCommand
<1>10. ASSUME NEW k \in Key, ImageLost(k) PROVE AllKept'
  <2>1. drv' = drv /\ job' = job /\ spec' = spec
    BY <1>10 DEF ImageLost
  <2>2. \A e \in Driver : spoilt[e] \subseteq spoilt'[e]
    BY <1>10, SpoiltIs DEF ImageLost
  <2>3. QED
    BY <2>1, <2>2 DEF AllKept, Kept, Waits, Condemned
<1>11. QED
  BY <1>1, <1>2, <1>3, <1>4, <1>5, <1>6, <1>7, <1>8, <1>9, <1>10 DEF Next, Command

---------------------------------------------------------------------------
IInv ==
  TypeOK /\ Owned /\ Transactions /\ ManifestProves /\ Announced /\ AllSeen /\ AllKept

LEMMA InitIInv == Init => IInv
<1> SUFFICES ASSUME Init PROVE IInv
  OBVIOUS
<1>1. TypeOK
  <2>1. NoCommand \in Commands /\ NoJob \in Jobs
    BY DEF Commands, NoCommand, PCs, Jobs, NoJob
  <2>2. QED
    BY <2>1, SifAssumption DEF Init, TypeOK
<1>2. \A d \in Driver : drv[d] = NoCommand /\ \A k \in Key : job[d][k] = NoJob
  BY DEF Init
<1>3. Owned /\ Transactions /\ Announced /\ AllSeen /\ AllKept
  BY <1>2 DEF Owned, Transactions, Transaction, Announced, AllSeen, AllKept, NoCommand, NoJob, Running
<1>4. ManifestProves
  BY DEF Init, ManifestProves
<1>5. QED
  BY <1>1, <1>3, <1>4 DEF IInv

LEMMA StepIInv == IInv /\ [Next]_vars => IInv'
<1> SUFFICES ASSUME IInv, [Next]_vars PROVE IInv'
  OBVIOUS
<1>1. CASE Next
  BY <1>1, TypeStep, OwnedStep, TransactionsStep, ManifestStep, AnnouncedStep, SeenStep, KeptStep
     DEF IInv
<1>2. CASE UNCHANGED vars
  BY <1>2 DEF IInv, vars, TypeOK, Owned, Transactions, Transaction, ManifestProves, Announced,
              AllSeen, Seen, Passed, AllKept, Kept, Waits, Condemned
<1>3. QED
  BY <1>1, <1>2

LEMMA Invariance == Spec => []IInv
  BY InitIInv, StepIInv, PTL DEF Spec

(* The variables keep their types.                                         *)
THEOREM TypeCorrect == Spec => []TypeOK
<1>1. IInv => TypeOK
  BY DEF IInv
<1>2. QED
  BY <1>1, Invariance, PTL

(* A manifest names the image and the sidecar beside it at any moment.     *)
THEOREM ManifestTruthful == Spec => []ManifestProves
<1>1. IInv => ManifestProves
  BY DEF IInv
<1>2. QED
  BY <1>1, Invariance, PTL

(* A build at work has its sentinel, one that waits has one of the two.    *)
THEOREM BuildsGuarded == Spec => []BuildIsGuarded
<1>1. IInv => BuildIsGuarded
  <2> SUFFICES ASSUME IInv, NEW d \in Driver, NEW k \in Key
               PROVE  /\ job[d][k].at \in Running => k \in submitted
                      /\ job[d][k].at = "pending" /\ Guarded(d, k) => LiveSentinel(k)
    BY DEF BuildIsGuarded
  <2>1. job[d][k].at \in Running => k \in submitted
    BY DEF IInv, Transactions, Transaction
  <2>2. job[d][k].at = "pending" /\ Guarded(d, k) => LiveSentinel(k)
    BY DEF IInv, Announced, Guarded, LiveSentinel
  <2>3. QED
    BY <2>1, <2>2
<1>2. QED
  BY <1>1, Invariance, PTL

(* A build that waits has its spec, whatever other commands sweep: they    *)
(* read the sentinels before they look at the age of the directory.        *)
THEOREM PendingSpecKept == Spec => []PendingKeepsSpec
<1>1. IInv => PendingKeepsSpec
  BY DEF IInv, AllKept, Kept, Waits, PendingKeepsSpec, Guarded
<1>2. QED
  BY <1>1, Invariance, PTL

(* A Snakemake that ends well has left every image it was started for.     *)
THEOREM SuccessTruthful == Spec => SuccessMeansBuilt
<1>1. IInv => \A d \in Driver : DagSucceeds(d) =>
                \A k \in (drv[d].todo \cap drv[d].rules) \ spoilt[d] :
                  manifest[k] # None /\ image[k] = manifest[k]
  <2> SUFFICES ASSUME IInv, NEW d \in Driver, DagSucceeds(d),
                      NEW k \in (drv[d].todo \cap drv[d].rules) \ spoilt[d]
               PROVE  manifest[k] # None /\ image[k] = manifest[k]
    OBVIOUS
  <2>1. drv[d].pc = "dag" /\ \A l \in drv[d].need : job[d][l].at = "ok"
    BY DEF DagSucceeds, DagEnds
  <2>2. Seen(d, k)
    BY DEF IInv, AllSeen
  <2>3. QED
    BY <2>1, <2>2 DEF Seen, Passed
<1>2. QED
  BY <1>1, Invariance, PTL DEF SuccessMeansBuilt
=============================================================================
