----------------------------- MODULE SimOutputs -----------------------------
(***************************************************************************)
(* The gridded output of one simulation on its way from TRITON's raw files *)
(* to the published time series and its summary (process_simulation.py,    *)
(* utils.py, process_timeseries_runner.py), and the forces that throw some *)
(* of it away (analysis.py).                                               *)
(*                                                                         *)
(* A pass of the process rule reads the raw frame, writes it in flagged    *)
(* chapters, each of which may be followed by the deletion of the raw files*)
(* it has read, publishes the chapters as one store, certifies it with a   *)
(* .done flag, drops the chapters, and only then records the series in its *)
(* log.  It may die at any step, and the next pass reads what to do from   *)
(* what it finds.                                                          *)
(***************************************************************************)
EXTENDS Naturals, FiniteSets

CONSTANTS
  Steps,      \* reporting timesteps of the simulation
  Configs,    \* [kind, clear, reclaim]: output type, clear_raw, remove_after_processing
  Stages,     \* floors of a force: "simulate", "process"
  MaxFaults,  \* bound: how often something is killed or raises
  MaxForces   \* bound: how often the operator forces

ASSUME SimOutputsAssumption ==
  /\ Steps \subseteq Nat /\ Steps # {} /\ IsFiniteSet(Steps)
  /\ Configs \subseteq [kind: {"zarr", "nc"}, clear: BOOLEAN, reclaim: BOOLEAN]
  /\ Stages \subseteq {"simulate", "process"}
  /\ MaxFaults \in Nat /\ MaxForces \in Nat

VARIABLES
  cfg,        \* the configuration
  pc,         \* where the pass of the process rule is
  gen,        \* how many simulations have been launched afresh
  raw,        \* raw[t]: the four raw files of a timestep, all of the last gen
  dirs,       \* which of the raw and the performance directory exist
  chap,       \* the chapters, see Chapters
  tmp, aside, final,  \* the stores {name}.tmp, {name}.aside and {name}
  done,       \* the .done flag of the published store
  log,        \* the entries of processing_log.outputs on disk
  summary,    \* the summary
  runFlag, procFlag,  \* the c_run and the d_process flag
  owed,       \* force_rerun_pending
  force,      \* the force at work, see Forces
  cut,        \* history: the last force died between its deletions
  forfeited,  \* history: processing was forced when raw files were gone
  faults, forces  \* how often
vars ==
  <<cfg, pc, gen, raw, dirs, chap, tmp, aside, final, done, log, summary, runFlag, procFlag,
    owed, force, cut, forfeited, faults, forces>>
stores == <<tmp, aside, final>>
flags == <<runFlag, procFlag, owed>>
history == <<cut, forfeited, faults, forces>>

(* A chapter store with its flag.  A chapter that has lost either counts   *)
(* for nothing, as one that is gone.                                       *)
Chapters ==
  [at: Nat, of: SUBSET Steps, gen: Nat, flagged: BOOLEAN, whole: BOOLEAN]
(* data: which timesteps of which simulation; torn: some files are missing *)
Stores == [is: {"absent", "torn", "whole"}, data: SUBSET (Steps \X Nat)]
NoStore == [is |-> "absent", data |-> {}]
Forces == [pc: {"none", "log", "chapters", "done"}, stage: {"simulate", "process"}]
NoForce == [pc |-> "none", stage |-> "process"]

Phases ==
  {"idle", "performance", "series", "write", "flag", "clear", "merge", "build", "building",
   "aside", "place", "sweep", "certify", "drop", "purge", "save", "summary", "summing",
   "sumsave", "reclaim", "emit"}

TypeOK ==
  /\ cfg \in Configs
  /\ pc \in Phases
  /\ gen \in Nat
  /\ raw \in [Steps -> {"whole", "ragged", "gone"}]
  /\ dirs \subseteq {"raw", "performance"}
  /\ chap \subseteq Chapters
  /\ tmp \in Stores
  /\ aside \in Stores /\ (cfg.kind = "nc" => aside.is = "absent")
  /\ final \in Stores
  /\ done \in BOOLEAN
  /\ log \subseteq {"performance", "series", "summary"}
  /\ summary \in Stores
  /\ runFlag \in BOOLEAN /\ procFlag \in BOOLEAN /\ owed \in BOOLEAN
  /\ force \in Forces
  /\ cut \in BOOLEAN /\ forfeited \in BOOLEAN
  /\ faults \in 0..MaxFaults /\ forces \in 0..MaxForces

Init ==
  /\ cfg \in Configs
  /\ pc = "idle" /\ gen = 0
  /\ raw = [t \in Steps |-> "gone"] /\ dirs = {}
  /\ chap = {}
  /\ tmp = NoStore /\ aside = NoStore /\ final = NoStore
  /\ done = FALSE /\ log = {} /\ summary = NoStore
  /\ runFlag = FALSE /\ procFlag = FALSE /\ owed = TRUE
  /\ force = NoForce
  /\ cut = FALSE /\ forfeited = FALSE /\ faults = 0 /\ forces = 0

(* completed_chapters, covered_timesteps, and the rows of a raw frame      *)
Flagged == {c \in chap : c.flagged}
Covered == UNION {c.of : c \in Flagged}
Contiguous ==
  /\ Flagged # {}
  /\ \A c \in Flagged : c.at = 0 \/ (\E d \in Flagged : d.at + 1 = c.at)
Rows == {t \in Steps : raw[t] # "gone"}
Remaining == Rows \ Covered

DataOf(chapters) == UNION {c.of \X {c.gen} : c \in {c \in chapters : c.whole}}
Torn(store) == [store EXCEPT !.is = "torn"]
IsWhole(store) == store.is = "whole"

Idle == pc = "idle" /\ force.pc = "none"
At(here, next) == pc = here /\ pc' = next

-----------------------------------------------------------------------------
(***************************************************************************)
(* The simulation (external, see RunAttempt): with the force pending it    *)
(* starts afresh and writes every file anew, without it the completed run  *)
(* is only flagged again.                                                  *)
(***************************************************************************)
Simulate ==
  /\ Idle /\ ~runFlag
  /\ runFlag' = TRUE
  /\ IF owed
     THEN /\ owed' = FALSE /\ gen' = gen + 1 /\ forfeited' = FALSE
          /\ raw' = [t \in Steps |-> "whole"] /\ dirs' = {"raw", "performance"}
     ELSE UNCHANGED <<owed, gen, forfeited, raw, dirs>>
  /\ UNCHANGED <<cfg, pc, chap, stores, done, log, summary, procFlag, force, cut, faults, forces>>

(***************************************************************************)
(* The process rule, which Snakemake starts (external) when the run is     *)
(* flagged, after it has removed the rule's output.  A pass that has been  *)
(* finished may be fired again.                                            *)
(***************************************************************************)
StartPass ==
  /\ Idle /\ runFlag
  /\ pc' = "performance"
  /\ procFlag' = FALSE
  /\ UNCHANGED <<cfg, gen, raw, dirs, chap, stores, done, log, summary, runFlag, owed, force, history>>

(* _export_performance_tseries: one store written crash-safely, one entry. *)
ExportPerformance ==
  /\ pc = "performance"
  /\ IF "performance" \in log \/ "performance" \in dirs
     THEN pc' = "series" /\ log' = log \cup {"performance"}
     ELSE pc' = "idle" /\ UNCHANGED log
  /\ UNCHANGED <<cfg, gen, raw, dirs, chap, stores, done, summary, flags, force, history>>

(* triton_raw_frame_or_raise: an empty frame is admitted for a chapter set *)
(* that only has to be published.                                          *)
FrameOK_NeedsRows ==
  /\ "raw" \in dirs /\ Rows # {}
  /\ \A t \in Steps : raw[t] # "ragged"
FrameOK ==
  /\ "raw" \in dirs
  /\ Rows # {} \/ (~done /\ Contiguous)
  /\ \A t \in Steps : raw[t] # "ragged"
Recorded == IF cfg.clear THEN "purge" ELSE "save"

(* _export_TRITON_only_outputs and its twin, up to the chapter loop: a     *)
(* recorded series is skipped, unflagged chapters are reaped, a certified  *)
(* store is not written again.                                             *)
EnterSeries_Rewrites ==
  /\ pc = "series"
  /\ \/ "series" \in log /\ pc' = (IF cfg.clear THEN "purge" ELSE "summary") /\ UNCHANGED chap
     \/ "series" \notin log /\ FrameOK /\ chap' = Flagged /\ pc' = "write"
     \/ "series" \notin log /\ ~FrameOK /\ pc' = "idle" /\ UNCHANGED chap
  /\ UNCHANGED <<cfg, gen, raw, dirs, stores, done, log, summary, flags, force, history>>
EnterSeries_StartsOver ==
  /\ pc = "series"
  /\ \/ "series" \in log /\ pc' = (IF cfg.clear THEN "purge" ELSE "summary") /\ UNCHANGED chap
     \/ /\ "series" \notin log /\ FrameOK
        /\ chap' = {}
        /\ pc' = IF done THEN Recorded ELSE "write"
     \/ "series" \notin log /\ ~FrameOK /\ pc' = "idle" /\ UNCHANGED chap
  /\ UNCHANGED <<cfg, gen, raw, dirs, stores, done, log, summary, flags, force, history>>
EnterSeries ==
  /\ pc = "series"
  /\ \/ "series" \in log /\ pc' = (IF cfg.clear THEN "purge" ELSE "summary") /\ UNCHANGED chap
     \/ /\ "series" \notin log /\ FrameOK
        /\ chap' = Flagged
        /\ pc' = IF done THEN Recorded ELSE "write"
     \/ "series" \notin log /\ ~FrameOK /\ pc' = "idle" /\ UNCHANGED chap
  /\ UNCHANGED <<cfg, gen, raw, dirs, stores, done, log, summary, flags, force, history>>

(* _streaming_chunked_zarr_write: the next batch, of any size, in a chapter*)
(* of its own, then its flag, then the raw files it was made of.           *)
NextChapter(k) ==
  /\ \A c \in Flagged : c.at < k
  /\ k = 0 \/ (\E c \in Flagged : c.at + 1 = k)
WriteChapter ==
  /\ At("write", "flag")
  /\ \E last \in Remaining, k \in {0} \cup {c.at + 1 : c \in Flagged} :
       /\ NextChapter(k)
       /\ chap' = chap \cup
            {[at |-> k, of |-> {t \in Remaining : t <= last}, gen |-> gen,
              flagged |-> FALSE, whole |-> TRUE]}
  /\ UNCHANGED <<cfg, gen, raw, dirs, stores, done, log, summary, flags, force, history>>

(* verify_and_flag_chapter                                                 *)
FlagChapter ==
  /\ At("flag", IF cfg.clear THEN "clear" ELSE "write")
  /\ chap' = {[c EXCEPT !.flagged = TRUE] : c \in chap}
  /\ UNCHANGED <<cfg, gen, raw, dirs, stores, done, log, summary, flags, force, history>>

(* clear_raw_for_timesteps deletes the four files of a timestep one by one,*)
(* timestep after timestep, of the batch that was flagged last.  What an   *)
(* earlier pass has left of its own batches stays.                         *)
Batch == UNION {c.of : c \in {c \in Flagged : \A d \in Flagged : d.at <= c.at}}
Decayed(t) ==
  raw' = [raw EXCEPT ![t] = IF @ = "whole" THEN "ragged" ELSE "gone"]
ClearRaw ==
  /\ pc = "clear"
  /\ LET left == Rows \cap Batch IN
       \/ /\ left = {} /\ pc' = "write" /\ UNCHANGED raw
       \/ \E t \in left : (\A u \in left : t <= u) /\ Decayed(t) /\ UNCHANGED pc
  /\ UNCHANGED <<cfg, gen, dirs, chap, stores, done, log, summary, flags, force, history>>

(* merge_chapters_to_unified and publish_chapters_to_netcdf                *)
StartMerge ==
  /\ pc = "write" /\ Remaining = {}
  /\ pc' = IF Contiguous THEN "merge" ELSE "idle"
  /\ UNCHANGED <<cfg, gen, raw, dirs, chap, stores, done, log, summary, flags, force, history>>

(* _recover_and_clear_publish_temps.  The nc branch has no aside.          *)
Recover_Promotes ==
  /\ At("merge", "build")
  /\ IF final.is = "absent" /\ tmp.is # "absent" THEN final' = tmp
     ELSE IF final.is = "absent" /\ aside.is # "absent" THEN final' = aside
     ELSE UNCHANGED final
  /\ tmp' = NoStore /\ aside' = NoStore
  /\ UNCHANGED <<cfg, gen, raw, dirs, chap, done, log, summary, flags, force, history>>
Recover ==
  /\ At("merge", "build")
  /\ IF aside.is # "absent" /\ final.is = "absent" THEN final' = (IF tmp.is # "absent" THEN tmp ELSE aside)
     ELSE UNCHANGED final
  /\ tmp' = NoStore /\ aside' = NoStore
  /\ UNCHANGED <<cfg, gen, raw, dirs, chap, done, log, summary, flags, force, history>>

Merged == [is |-> "whole", data |-> DataOf(Flagged)]
Build ==
  /\ At("build", "building")
  /\ tmp' = Torn(Merged)
  /\ UNCHANGED <<cfg, gen, raw, dirs, chap, aside, final, done, log, summary, flags, force, history>>
Built ==
  /\ At("building", IF cfg.kind = "nc" \/ final.is = "absent" THEN "place" ELSE "aside")
  /\ tmp' = Merged
  /\ UNCHANGED <<cfg, gen, raw, dirs, chap, aside, final, done, log, summary, flags, force, history>>
(* _publish_store_crash_safe, steps 3 to 5                                 *)
SetAside ==
  /\ At("aside", "place")
  /\ aside' = final /\ final' = NoStore
  /\ UNCHANGED <<cfg, gen, raw, dirs, chap, tmp, done, log, summary, flags, force, history>>
Place ==
  /\ At("place", "sweep")
  /\ final' = tmp /\ tmp' = NoStore
  /\ UNCHANGED <<cfg, gen, raw, dirs, chap, aside, done, log, summary, flags, force, history>>
Sweep ==
  /\ At("sweep", "certify")
  /\ aside' = NoStore
  /\ UNCHANGED <<cfg, gen, raw, dirs, chap, tmp, final, done, log, summary, flags, force, history>>

(* _publish_flag_crash_safe, and the chapters, which die only after it     *)
Certify ==
  /\ At("certify", "drop")
  /\ done' = TRUE
  /\ UNCHANGED <<cfg, gen, raw, dirs, chap, stores, log, summary, flags, force, history>>
OneChapterLess ==
  \E c \in chap : \/ chap' = chap \ {c}
                  \/ c.whole /\ chap' = (chap \ {c}) \cup {[c EXCEPT !.whole = FALSE]}
Drop ==
  /\ pc = "drop"
  /\ \/ OneChapterLess /\ UNCHANGED pc
     \/ chap = {} /\ pc' = Recorded /\ UNCHANGED chap
  /\ UNCHANGED <<cfg, gen, raw, dirs, stores, done, log, summary, flags, force, history>>

(* _clear_raw_outputs: rm -rf of the raw and performance directories       *)
Purge ==
  /\ pc = "purge"
  /\ \/ \E t \in Rows : Decayed(t) /\ UNCHANGED <<pc, dirs>>
     \/ \E d \in dirs : (d = "raw" => Rows = {}) /\ dirs' = dirs \ {d} /\ UNCHANGED <<pc, raw>>
     \/ dirs = {} /\ pc' = "save" /\ UNCHANGED <<raw, dirs>>
  /\ UNCHANGED <<cfg, gen, chap, stores, done, log, summary, flags, force, history>>

(* _deferred_log_writes: the one write, at the method's end.               *)
Save ==
  /\ At("save", "summary")
  /\ log' = log \cup {"series"}
  /\ UNCHANGED <<cfg, gen, raw, dirs, chap, stores, done, summary, flags, force, history>>

(* _export_TRITON_summary: a recorded summary that opens is skipped.  An nc*)
(* summary is written at its own path.  Missing files read as fill values. *)
SummaryOf(store) == [is |-> "whole", data |-> IF IsWhole(store) THEN store.data ELSE {}]
After == IF cfg.reclaim THEN "reclaim" ELSE "emit"
Summarise ==
  /\ pc = "summary"
  /\ \/ "summary" \in log /\ IsWhole(summary) /\ pc' = After /\ UNCHANGED summary
     \/ /\ ~("summary" \in log /\ IsWhole(summary)) /\ final.is # "absent"
        /\ pc' = "summing"
        /\ summary' = IF cfg.kind = "nc" THEN Torn(SummaryOf(final)) ELSE summary
     \/ /\ ~("summary" \in log /\ IsWhole(summary)) /\ final.is = "absent"
        /\ pc' = "idle" /\ UNCHANGED summary
  /\ UNCHANGED <<cfg, gen, raw, dirs, chap, stores, done, log, flags, force, history>>
Summed ==
  /\ At("summing", "sumsave")
  /\ summary' = SummaryOf(final)
  /\ UNCHANGED <<cfg, gen, raw, dirs, chap, stores, done, log, flags, force, history>>
SaveSummary ==
  /\ At("sumsave", After)
  /\ log' = log \cup {"summary"}
  /\ UNCHANGED <<cfg, gen, raw, dirs, chap, stores, done, summary, flags, force, history>>

(* remove_after_processing, once the summary has been opened               *)
Reclaim ==
  /\ pc = "reclaim"
  /\ \/ IsWhole(final) /\ cfg.kind = "zarr" /\ final' = Torn(final) /\ UNCHANGED pc
     \/ final' = NoStore /\ pc' = "emit"
  /\ UNCHANGED <<cfg, gen, raw, dirs, chap, tmp, aside, done, log, summary, flags, force, history>>
EmitFlag ==
  /\ At("emit", "idle")
  /\ procFlag' = TRUE
  /\ UNCHANGED <<cfg, gen, raw, dirs, chap, stores, done, log, summary, runFlag, owed, force, history>>

(* The pass is killed (walltime, node), or something raises: then the log  *)
(* entries of the method are written all the same.                         *)
Fault == faults < MaxFaults /\ faults' = faults + 1
Unsaved ==
  CASE pc \in {"purge", "save"} -> {"series"}
    [] pc = "sumsave" -> {"summary"}
    [] OTHER -> {}
PassFails ==
  /\ Fault
  /\ pc # "idle" /\ pc' = "idle"
  /\ \/ UNCHANGED log
     \/ log' = log \cup Unsaved
  /\ UNCHANGED <<cfg, gen, raw, dirs, chap, stores, done, summary, flags, force, cut, forfeited, forces>>

-----------------------------------------------------------------------------
(***************************************************************************)
(* A force (_apply_force_rerun), between the workflows: the flags, the log *)
(* and the marker, the chapters, the .done flag, in this order.            *)
(***************************************************************************)
ForceFlags(stage) ==
  /\ Idle /\ forces < MaxForces /\ forces' = forces + 1
  /\ procFlag' = FALSE
  /\ runFlag' = (runFlag /\ stage # "simulate")
  /\ force' = [pc |-> "log", stage |-> stage]
  /\ UNCHANGED <<cfg, pc, gen, raw, dirs, chap, stores, done, log, summary, owed, cut, forfeited, faults>>

(* _invalidate_processing_log_for_force_rerun                              *)
Untouched == dirs = {"raw", "performance"} /\ \A t \in Steps : raw[t] = "whole"
ForceLog_TwoLayers ==
  /\ force.pc = "log" /\ force' = [force EXCEPT !.pc = "done"]
  /\ log' = {}
  /\ owed' = (owed \/ force.stage = "simulate")
  /\ forfeited' = (forfeited \/ ~Untouched)
  /\ UNCHANGED <<cfg, pc, gen, raw, dirs, chap, stores, done, summary, runFlag, procFlag, cut, faults, forces>>
ForceLog ==
  /\ force.pc = "log" /\ force' = [force EXCEPT !.pc = "chapters"]
  /\ log' = {}
  /\ owed' = (owed \/ force.stage = "simulate")
  /\ forfeited' = (forfeited \/ ~Untouched)
  /\ UNCHANGED <<cfg, pc, gen, raw, dirs, chap, stores, done, summary, runFlag, procFlag, cut, faults, forces>>

(* _delete_chapter_sets_for_force_rerun                                    *)
ForceChapters ==
  /\ force.pc = "chapters"
  /\ \/ OneChapterLess /\ UNCHANGED force
     \/ chap = {} /\ force' = [force EXCEPT !.pc = "done"] /\ UNCHANGED chap
  /\ UNCHANGED <<cfg, pc, gen, raw, dirs, stores, done, log, summary, flags, history>>
ForceDone ==
  /\ force.pc = "done" /\ force' = NoForce
  /\ done' = FALSE /\ cut' = FALSE
  /\ UNCHANGED <<cfg, pc, gen, raw, dirs, chap, stores, log, summary, flags, forfeited, faults, forces>>

DriverDies ==
  /\ Fault
  /\ force.pc # "none" /\ force' = NoForce
  /\ cut' = (cut \/ (force.pc # "log" /\ (chap # {} \/ done)))
  /\ UNCHANGED <<cfg, pc, gen, raw, dirs, chap, stores, done, log, summary, flags, forfeited, forces>>

Pass ==
  \/ ExportPerformance \/ EnterSeries \/ WriteChapter \/ FlagChapter \/ ClearRaw
  \/ StartMerge \/ Recover \/ Build \/ Built \/ SetAside \/ Place \/ Sweep \/ Certify \/ Drop
  \/ Purge \/ Save \/ Summarise \/ Summed \/ SaveSummary \/ Reclaim \/ EmitFlag
Driver == ForceLog \/ ForceChapters \/ ForceDone

Next ==
  \/ Simulate \/ StartPass \/ Pass \/ PassFails
  \/ (\E stage \in Stages : ForceFlags(stage)) \/ Driver \/ DriverDies

Spec == Init /\ [][Next]_vars
(* Snakemake starts what is due, a pass and a force go on until they end.  *)
FairSpec == Spec /\ WF_vars(Simulate) /\ WF_vars(StartPass /\ ~procFlag) /\ WF_vars(Pass) /\ WF_vars(Driver)

-----------------------------------------------------------------------------
(***************************************************************************)
(* Every timestep of the last simulation can be had from somewhere: its raw*)
(* files, a flagged chapter, the published store or, where the policy is to*)
(* reclaim that, the summary made of it.  "After a raw clear a flagged     *)
(* chapter is the SOLE copy of its timesteps" (utils.py:853).              *)
(***************************************************************************)
Sound == ~owed /\ ~cut /\ ~forfeited
All == Steps \X {gen}
NothingLost ==
  Sound => \A t \in Steps :
    \/ raw[t] = "whole"
    \/ <<t, gen>> \in DataOf(Flagged)
    \/ IsWhole(final) /\ <<t, gen>> \in final.data
    \/ cfg.reclaim /\ IsWhole(summary) /\ <<t, gen>> \in summary.data

(***************************************************************************)
(* The .done flag certifies a whole series of the last simulation, however *)
(* many passes have died on the way to it, or its summary is there.        *)
(***************************************************************************)
DoneIsWhole ==
  (done /\ ~cut /\ ~forfeited) =>
    \/ IsWhole(final) /\ final.data = All
    \/ cfg.reclaim /\ IsWhole(summary) /\ summary.data = All

(***************************************************************************)
(* "ABSENT or a COMPLETE store, never an INCOMPLETE one" (utils.py:684): a *)
(* series is never found in parts at its path, wherever passes have died,  *)
(* but for one that is being reclaimed, whose summary is whole.            *)
(***************************************************************************)
PublishedIsWhole ==
  final.is = "torn" => cfg.reclaim /\ cfg.kind = "zarr" /\ IsWhole(summary)

(***************************************************************************)
(* A flagged scenario has a summary of the whole of the last simulation:   *)
(* no force leaves an entry, a chapter or a flag behind that would let the *)
(* next pass flag what was there before.                                   *)
(***************************************************************************)
ResultsAreFresh ==
  (procFlag /\ ~cut /\ ~forfeited) =>
    IsWhole(summary) /\ summary.data = All

(***************************************************************************)
(* A simulation that has been run is processed in the end, however many    *)
(* passes have died, unless a death has left what every later pass refuses *)
(* (Stranded), which only clear_raw can do.                                *)
(***************************************************************************)
Stranded ==
  /\ cfg.clear /\ "series" \notin log
  /\ \/ \E t \in Steps : raw[t] = "ragged"
     \/ done /\ (\A t \in Steps : raw[t] = "gone")
GetsProcessed == runFlag ~> (procFlag \/ Stranded \/ cut \/ forfeited)
=============================================================================
