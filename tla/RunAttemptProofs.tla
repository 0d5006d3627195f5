-------------------------- MODULE RunAttemptProofs --------------------------
(***************************************************************************)
(* Theorems about RunAttempt, for any configurations, numbers of steps,    *)
(* budgets and schedules.                                                  *)
(***************************************************************************)
EXTENDS RunAttempt, TLAPS

Live == sol \in {"starting", "running"}
NoOverlap == "overlap" \notin hist.spoils

(* A solver runs only under its runner, and was launched after the last    *)
(* forced rerun.                                                           *)
SolverOK == Live => pc \in {"launched", "waiting"} /\ (NoOverlap => hist.mine)

(* An attempt finds no flag; a forced rerun leaves none, and no attempt    *)
(* runs meanwhile.                                                         *)
ForceOK ==
  /\ pc # "idle" => ~flag
  /\ op # "none" => (NoOverlap => pc = "idle" /\ ~flag)

(* What completion is read from.  From its launch on an attempt has written*)
(* it itself, unless its solver has not opened the report.                 *)
Evidence == IF cfg.model = "triton" THEN marker ELSE art = "final"
OwnEvidence == {"launched", "waiting", "recorded", "judging"}
Excused == cfg.model # "triton" /\ (hist.unopened \/ sol = "starting")
FreshOK ==
  NoOverlap =>
    /\ flag \/ pc = "flagging" => hist.fresh \/ OldReport
    /\ Evidence /\ (~log.force \/ pc \in OwnEvidence) => hist.fresh \/ Excused

(* The failures of an era's launches are in the counter, but for those that*)
(* it has missed, and nothing has been launched while the force is pending.*)
BudgetOK ==
  hist.spoils \subseteq {"slow_consume"} =>
    /\ ~verdict
    /\ pc \in {"waiting", "recorded", "judging", "flagging"} => ~log.force
    /\ cfg.budget > 0 =>
         /\ hist.launches <= log.fails + hist.missed
         /\ log.force => hist.launches = 0
         /\ pc \notin {"idle", "check", "flagging"} => log.fails < cfg.budget

(* No checkpoint precedes the end of the force, and what has been written  *)
(* since is still there.                                                   *)
Kept == \A c \in 1..hist.best : c <= pos \/ c \in bare
ProgressOK ==
  hist.spoils \subseteq {"gpu_refusal", "lost_consume"} =>
    /\ pc = "waiting" => ~log.force
    /\ log.force \/ Swmm => hist.best = 0
    /\ cfg.schedule = <<>> => hist.best <= ckpt
    /\ cfg.schedule = <<>> /\ cfg.pickup /\ pc \in {"ready", "launched"} => Kept

---------------------------------------------------------------------------
(* Type correctness, whatever faults the environment shows.                *)

LEMMA CfgType ==
  ASSUME TypeOK
  PROVE  /\ cfg.model \in Models /\ cfg.budget \in Nat /\ cfg.pickup \in BOOLEAN
         /\ cfg.schedule \in Seq(Nat \ {0}) /\ Len(cfg.schedule) \in Nat
         /\ Steps \in Nat \ {0} /\ MaxMissed \in Nat
<1>1. cfg \in Config
  BY RunAttemptAssumption DEF TypeOK
<1> QED BY <1>1, RunAttemptAssumption DEF Config

LEMMA HistFields ==
  ASSUME TypeOK
  PROVE  /\ hist.launches \in Nat /\ hist.missed \in Nat
         /\ hist.mine \in BOOLEAN /\ hist.fresh \in BOOLEAN
         /\ hist.best \in 0..Steps /\ hist.steady \in BOOLEAN /\ hist.unopened \in BOOLEAN
         /\ hist.spoils \subseteq FaultKinds
         /\ log.done \in BOOLEAN /\ log.force \in BOOLEAN
         /\ log.fails \in Nat /\ log.resumes \in Nat
BY DEF TypeOK, Histories, Logs

LEMMA BumpedFields ==
  ASSUME TypeOK
  PROVE  /\ Bumped \in Logs
         /\ Bumped.done = log.done /\ Bumped.force = log.force /\ Bumped.resumes = log.resumes
         /\ Bumped.fails = UpTo(log.fails, cfg.budget)
BY CfgType DEF TypeOK, Bumped, UpTo, Logs

LEMMA DisturbedType == ASSUME TypeOK PROVE Disturbed \in Histories
BY DEF TypeOK, Disturbed, Histories

(* Two histories that differ in what they count at most.                   *)
SameButCounts(h, g) ==
  /\ g.mine = h.mine /\ g.fresh = h.fresh /\ g.best = h.best
  /\ g.steady = h.steady /\ g.unopened = h.unopened /\ g.spoils = h.spoils

LEMMA ChargedFields ==
  ASSUME TypeOK, NEW h \in Histories
  PROVE  /\ Charged(h) \in Histories /\ SameButCounts(h, Charged(h))
         /\ Missed(h) \in Histories /\ SameButCounts(h, Missed(h))
         /\ Charged(h).launches = UpTo(h.launches, cfg.budget + MaxMissed)
         /\ Charged(h).missed = h.missed
         /\ Missed(h).launches = h.launches /\ Missed(h).missed = h.missed + 1
<1>1. h.launches \in Nat /\ h.missed \in Nat BY DEF Histories
<1>2. UpTo(h.launches, cfg.budget + MaxMissed) \in Nat /\ h.missed + 1 \in Nat
  BY <1>1 DEF UpTo
<1> QED BY <1>2 DEF Charged, Missed, Histories, SameButCounts

(* An attempt that fails leaves the log as it was but for the count, which *)
(* has the failure or, after a launch, the history has it as missed.       *)
LEMMA FailureFields ==
  ASSUME TypeOK, NEW h \in Histories, FailsBeforeLaunch(h) \/ FailsAfterLaunch(h)
  PROVE  /\ pc' = "idle" /\ sol' = "none" /\ verdict' = FALSE
         /\ hist' \in Histories /\ SameButCounts(h, hist')
         /\ log' \in Logs
         /\ log'.done = log.done /\ log'.force = log.force /\ log'.resumes = log.resumes
<1>1. log' = Bumped \/ log' = log
  BY DEF FailsBeforeLaunch, FailsAfterLaunch, EndsUncounted
<1>2. hist' \in {h, Charged(h), Missed(Charged(h))}
  BY DEF FailsBeforeLaunch, FailsAfterLaunch, EndsUncounted, Ends
<1>3. hist' \in Histories /\ SameButCounts(h, hist')
  <2>1. Charged(h) \in Histories /\ SameButCounts(h, Charged(h)) BY ChargedFields
  <2>2. /\ Missed(Charged(h)) \in Histories
        /\ SameButCounts(Charged(h), Missed(Charged(h)))
    BY <2>1, ChargedFields
  <2> QED BY <1>2, <2>1, <2>2 DEF SameButCounts
<1> QED
  BY <1>1, <1>3, BumpedFields
  DEF FailsBeforeLaunch, FailsAfterLaunch, EndsUncounted, Ends, TypeOK

LEMMA FailureCounts ==
  ASSUME TypeOK, NEW h \in Histories
  PROVE  /\ FailsBeforeLaunch(h) =>
              /\ hist'.launches = h.launches /\ hist'.missed = h.missed
              /\ log'.fails >= log.fails
         /\ FailsAfterLaunch(h) =>
              /\ hist'.launches <= h.launches + 1
              /\ log.fails < cfg.budget
                   => log'.fails + hist'.missed = log.fails + h.missed + 1
<1>1. /\ log.fails \in Nat /\ cfg.budget \in Nat /\ MaxMissed \in Nat
      /\ h.launches \in Nat /\ h.missed \in Nat
  BY CfgType, HistFields DEF Histories
<1>2. Bumped.fails = UpTo(log.fails, cfg.budget) BY BumpedFields
<1>3. /\ Charged(h).launches <= h.launches + 1 /\ Charged(h).missed = h.missed
      /\ Charged(h) \in Histories
  BY <1>1, ChargedFields DEF UpTo
<1>4. /\ Missed(Charged(h)).launches = Charged(h).launches
      /\ Missed(Charged(h)).missed = h.missed + 1
  BY <1>3, ChargedFields
<1>5. ASSUME FailsBeforeLaunch(h)
      PROVE  /\ hist'.launches = h.launches /\ hist'.missed = h.missed
             /\ log'.fails >= log.fails
  BY <1>1, <1>2, <1>5 DEF FailsBeforeLaunch, EndsUncounted, Ends, UpTo
<1>6. ASSUME FailsAfterLaunch(h)
      PROVE  /\ hist'.launches <= h.launches + 1
             /\ log.fails < cfg.budget
                  => log'.fails + hist'.missed = log.fails + h.missed + 1
  <2>1. CASE log' = Bumped /\ Ends(Charged(h))
    BY <1>1, <1>2, <1>3, <2>1 DEF Ends, UpTo
  <2>2. CASE EndsUncounted(Missed(Charged(h)))
    BY <1>1, <1>3, <1>4, <2>2 DEF EndsUncounted, Ends
  <2> QED BY <1>6, <2>1, <2>2 DEF FailsAfterLaunch
<1> QED BY <1>5, <1>6

LEMMA SpoiltType ==
  ASSUME NEW f \in FaultKinds, NEW h \in Histories PROVE Spoilt(f, h) \in Histories
BY DEF Spoilt, Histories

LEMMA PruneType ==
  ASSUME TypeOK, NEW step \in Nat, PruneAbove(step)
  PROVE  ckpt' \in 0..Steps /\ torn' \in {"no", "short", "empty"}
BY CfgType DEF TypeOK, PruneAbove

LEMMA BoundaryType == ASSUME TypeOK, Armed PROVE Boundary \in Nat \ {0}
BY CfgType, HistFields DEF Armed, Boundary

LEMMA StoppedType == ASSUME TypeOK, Stopped PROVE torn' \in {"no", "short", "empty"}
BY DEF TypeOK, Stopped

LEMMA TypeInit == Init => TypeOK
<1> SUFFICES ASSUME Init PROVE TypeOK
  OBVIOUS
<1>1. hist \in Histories
  BY RunAttemptAssumption DEF Init, Histories
<1>2. log \in Logs
  BY DEF Init, Logs
<1>3. 0 \in 0..Steps
  BY RunAttemptAssumption
<1>4. bare \subseteq 1..Steps
  BY DEF Init
<1> QED BY <1>1, <1>2, <1>3, <1>4 DEF Init, TypeOK, Pc

LEMMA TypeStep == TypeOK /\ [Next]_vars => TypeOK'
<1> SUFFICES ASSUME TypeOK, [Next]_vars PROVE TypeOK'
  OBVIOUS
<1> USE CfgType DEF files
<1>1. CASE Dispatch
  BY <1>1 DEF Dispatch, TypeOK, Pc
<1>2. CASE PreconditionFails
  BY <1>2, FailureFields, DisturbedType DEF PreconditionFails, TypeOK, Pc
<1>3. CASE GateResets
  <2>1. log' \in Logs
    BY <1>3 DEF GateResets, TypeOK, Logs
  <2> QED BY <1>3, <2>1 DEF GateResets, TypeOK, Pc
<1>4. CASE GateRefuses \/ GatePasses
  BY <1>4 DEF GateRefuses, GatePasses, Ends, TypeOK, Pc
<1>5. CASE PruneOvershoot
  <2>1. ckpt' \in 0..Steps /\ torn' \in {"no", "short", "empty"}
    BY <1>5, PruneType, BoundaryType DEF PruneOvershoot, TypeOK
  <2> QED BY <1>5, <2>1 DEF PruneOvershoot, TypeOK, Pc
<1>6. CASE PrepareForced
  <2>1. ckpt' \in 0..Steps /\ torn' \in {"no", "short", "empty"}
    BY <1>6, PruneType DEF PrepareForced, TypeOK
  <2> QED BY <1>6, <2>1 DEF PrepareForced, TypeOK, Pc
<1>7. CASE PrepareSkips
  BY <1>7 DEF PrepareSkips, TypeOK, Pc
<1>8. CASE PrepareResumes
  <2>0. UpTo(log.resumes, Len(cfg.schedule)) \in Nat
    BY HistFields DEF UpTo
  <2>1. log' \in Logs
    BY <1>8, <2>0 DEF PrepareResumes, TypeOK, Logs
  <2>2. pos' \in 0..Steps /\ pc' = "ready"
    BY <1>8 DEF PrepareResumes
  <2> QED BY <1>8, <2>1, <2>2 DEF PrepareResumes, TypeOK, Pc
<1>9. CASE PrepareFresh
  BY <1>9 DEF PrepareFresh, TypeOK, Pc
<1>10. CASE Launch
  <2>1. hist' \in Histories
    BY <1>10 DEF Launch, TypeOK, Histories
  <2> QED BY <1>10, <2>1 DEF Launch, TypeOK, Pc
<1>11. CASE Consume
  <2>1. log' \in Logs
    BY <1>11 DEF Consume, TypeOK, Logs
  <2> QED BY <1>11, <2>1 DEF Consume, TypeOK, Pc
<1>12. CASE Record
  <2>1. Completed \in BOOLEAN
    BY DEF Completed, TypeOK, Logs
  <2>2. log' \in Logs
    BY <1>12, <2>1 DEF Record, TypeOK, Logs
  <2> QED BY <1>12, <2>2 DEF Record, TypeOK, Pc
<1>13. CASE TakeVerdict
  <2>1. log' \in Logs
    BY <1>13 DEF TakeVerdict, TypeOK, Logs
  <2>2. hist' \in Histories
    <3>1. 0 \in 0..Steps
      BY DEF TypeOK
    <3> QED BY <1>13, <3>1 DEF TakeVerdict, TypeOK, Histories
  <2> QED BY <1>13, <2>1, <2>2 DEF TakeVerdict, TypeOK, Pc
<1>14. CASE AttemptFails
  BY <1>14, FailureFields DEF AttemptFails, TypeOK, Pc
<1>15. CASE AttemptSucceeds
  <2>1. log' \in Logs
    BY <1>15 DEF AttemptSucceeds, TypeOK, Logs
  <2>2. hist' \in Histories
    BY <1>15 DEF AttemptSucceeds, TypeOK, Histories
  <2> QED BY <1>15, <2>1, <2>2 DEF AttemptSucceeds, TypeOK, Pc
<1>16. CASE EmitFlag
  BY <1>16 DEF EmitFlag, Ends, TypeOK, Pc
<1>17. CASE AttemptRaises
  <2>1. FailsBeforeLaunch(Disturbed) \/ FailsAfterLaunch(Disturbed)
    BY <1>17 DEF AttemptRaises
  <2> QED BY <1>17, <2>1, DisturbedType, FailureFields DEF AttemptRaises, TypeOK, Pc
<1>18. CASE ConsumeRaises
  <2>1. Spoilt("lost_consume", Disturbed) \in Histories
    BY DisturbedType, SpoiltType DEF FaultKinds
  <2> QED BY <1>18, <2>1, FailureFields, StoppedType DEF ConsumeRaises, TypeOK, Pc
<1>19. CASE SolverStarts
  <2>1. hist' \in Histories
    BY <1>19 DEF SolverStarts, TypeOK, Histories
  <2> QED BY <1>19, <2>1 DEF SolverStarts, TypeOK
<1>20. CASE SolverCheckpoints
  <2>1. pos' \in 0..Steps /\ pos' \in 1..Steps
    BY <1>20 DEF SolverCheckpoints, TypeOK
  <2>2. hist' \in Histories
    BY <1>20, <2>1, HistFields DEF SolverCheckpoints, TypeOK, Histories, FaultKinds
  <2> QED BY <1>20, <2>1, <2>2 DEF SolverCheckpoints, TypeOK
<1>21. CASE SolverPublishes
  BY <1>21 DEF SolverPublishes, TypeOK
<1>22. CASE SolverEnds
  <2>1. hist' \in Histories
    BY <1>22 DEF SolverEnds, TypeOK, Histories
  <2> QED BY <1>22, <2>1 DEF SolverEnds, TypeOK
<1>23. CASE SolverCrashes
  BY <1>23, DisturbedType, StoppedType DEF SolverCrashes, TypeOK
<1>24. CASE WatcherKills
  BY <1>24, StoppedType DEF WatcherKills, TypeOK
<1>25. CASE GuardStops
  <2>1. hist' \in Histories
    BY <1>25, DisturbedType, SpoiltType DEF GuardStops, FaultKinds
  <2> QED BY <1>25, <2>1, StoppedType DEF GuardStops, TypeOK
<1>26. CASE Killed
  BY <1>26, DisturbedType, StoppedType DEF Killed, Ends, TypeOK, Pc
<1>27. CASE ForceDeletesFlags
  <2>1. hist' \in Histories
    BY <1>27, SpoiltType DEF ForceDeletesFlags, TypeOK, FaultKinds
  <2> QED BY <1>27, <2>1 DEF ForceDeletesFlags, TypeOK
<1>28. CASE ForceArms
  <2>1. log' \in Logs
    BY <1>28 DEF ForceArms, TypeOK, Logs
  <2>2. hist' \in Histories
    <3>1. 0 \in 0..Steps
      BY DEF TypeOK
    <3> QED BY <1>28, <3>1 DEF ForceArms, TypeOK, Histories
  <2> QED BY <1>28, <2>1, <2>2 DEF ForceArms, TypeOK
<1>29. CASE DriverDies \/ UNCHANGED vars
  BY <1>29 DEF DriverDies, vars, TypeOK
<1> QED
  BY <1>1, <1>2, <1>3, <1>4, <1>5, <1>6, <1>7, <1>8, <1>9, <1>10, <1>11, <1>12, <1>13, <1>14,
     <1>15, <1>16, <1>17, <1>18, <1>19, <1>20, <1>21, <1>22, <1>23, <1>24, <1>25, <1>26, <1>27,
     <1>28, <1>29
  DEF Next, Attempt, Gate, Prepare, Solver, Forced

(***************************************************************************)
(* Every state of the attempt is type correct, whatever faults the         *)
(* environment shows.                                                      *)
(***************************************************************************)
THEOREM TypeCorrect == Spec => []TypeOK
BY TypeInit, TypeStep, PTL DEF Spec

---------------------------------------------------------------------------
(* What the steps make of the history.                                     *)

LEMMA DisturbedFields ==
  ASSUME TypeOK
  PROVE  /\ Disturbed.launches = hist.launches /\ Disturbed.mine = hist.mine
         /\ Disturbed.missed = hist.missed
         /\ Disturbed.fresh = hist.fresh /\ Disturbed.best = hist.best
         /\ Disturbed.unopened = (hist.unopened \/ sol = "starting")
         /\ Disturbed.spoils = hist.spoils
BY DEF TypeOK, Histories, Disturbed

LEMMA SpoiltFields ==
  ASSUME NEW f \in FaultKinds, NEW h \in Histories
  PROVE  /\ Spoilt(f, h).launches = h.launches /\ Spoilt(f, h).missed = h.missed
         /\ Spoilt(f, h).mine = h.mine
         /\ Spoilt(f, h).fresh = h.fresh /\ Spoilt(f, h).best = h.best
         /\ Spoilt(f, h).unopened = h.unopened /\ Spoilt(f, h).spoils = h.spoils \cup {f}
BY DEF Histories, Spoilt

(* The four ways in which an attempt fails.                                *)
LEMMA FailingStep ==
  ASSUME TypeOK, PreconditionFails \/ AttemptFails \/ AttemptRaises \/ ConsumeRaises
  PROVE  /\ pc' = "idle" /\ sol' = "none" /\ verdict' = FALSE
         /\ UNCHANGED <<cfg, pos, ckpt, bare, marker, art, flag, op>>
         /\ hist' \in Histories /\ log' \in Logs
         /\ log'.done = log.done /\ log'.force = log.force /\ log'.resumes = log.resumes
         /\ hist'.mine = hist.mine /\ hist'.fresh = hist.fresh /\ hist'.best = hist.best
         /\ \/ /\ ~hist'.steady
               /\ hist'.unopened = (hist.unopened \/ sol = "starting")
            \/ /\ pc = "judging" /\ ~Completed
               /\ hist'.steady = hist.steady /\ hist'.unopened = hist.unopened
         /\ ~ConsumeRaises => torn' = torn /\ hist'.spoils = hist.spoils
         /\ ConsumeRaises => hist'.spoils = hist.spoils \cup {"lost_consume"}
<1> DEFINE lost == Spoilt("lost_consume", Disturbed)
<1>1. /\ hist \in Histories /\ Disturbed \in Histories /\ lost \in Histories
      /\ ~Disturbed.steady /\ ~lost.steady
      /\ lost.spoils = hist.spoils \cup {"lost_consume"}
      /\ lost.unopened = (hist.unopened \/ sol = "starting")
      /\ lost.mine = hist.mine /\ lost.fresh = hist.fresh /\ lost.best = hist.best
  <2>1. "lost_consume" \in FaultKinds /\ hist \in Histories BY DEF FaultKinds, TypeOK
  <2>2. Disturbed \in Histories /\ ~Disturbed.steady
    BY <2>1, DisturbedType DEF Disturbed, Histories
  <2>3. lost \in Histories /\ lost.steady = Disturbed.steady
    BY <2>1, <2>2, SpoiltType DEF Spoilt, Histories
  <2> HIDE DEF lost
  <2>4. /\ lost.spoils = Disturbed.spoils \cup {"lost_consume"}
        /\ lost.unopened = Disturbed.unopened /\ lost.mine = Disturbed.mine
        /\ lost.fresh = Disturbed.fresh /\ lost.best = Disturbed.best
    BY <2>1, <2>2, SpoiltFields DEF lost
  <2> QED BY <2>1, <2>2, <2>3, <2>4, DisturbedFields
<1>2. CASE PreconditionFails
  <2>1. pc = "check" /\ FailsBeforeLaunch(Disturbed) BY <1>2 DEF PreconditionFails
  <2>2. ~ConsumeRaises BY <2>1 DEF ConsumeRaises
  <2> QED BY <1>1, <1>2, <2>1, <2>2, DisturbedFields, FailureFields
          DEF PreconditionFails, SameButCounts, files
<1>3. CASE AttemptFails
  <2>1. pc = "judging" /\ FailsAfterLaunch(hist) BY <1>3 DEF AttemptFails
  <2>2. ~ConsumeRaises BY <2>1 DEF ConsumeRaises
  <2> QED BY <1>1, <1>3, <2>1, <2>2, FailureFields DEF AttemptFails, SameButCounts, files
<1>4. CASE AttemptRaises
  <2>1. FailsBeforeLaunch(Disturbed) \/ FailsAfterLaunch(Disturbed) BY <1>4 DEF AttemptRaises
  <2>2. ~ConsumeRaises BY <1>4 DEF AttemptRaises, ConsumeRaises, Raising
  <2> QED BY <1>1, <1>4, <2>1, <2>2, DisturbedFields, FailureFields
          DEF AttemptRaises, SameButCounts
<1>5. CASE ConsumeRaises
  <2>1. FailsAfterLaunch(lost) BY <1>5 DEF ConsumeRaises
  <2> HIDE DEF lost
  <2> QED BY <1>1, <1>5, <2>1, FailureFields DEF ConsumeRaises, SameButCounts
<1> QED BY <1>2, <1>3, <1>4, <1>5

---------------------------------------------------------------------------
(* The solver belongs to its attempt, and a forced rerun to none.          *)

LEMMA ForceStep == TypeOK /\ SolverOK /\ ForceOK /\ [Next]_vars => SolverOK' /\ ForceOK'
<1> SUFFICES ASSUME TypeOK, SolverOK, ForceOK, [Next]_vars PROVE SolverOK' /\ ForceOK'
  OBVIOUS
<1> USE DisturbedType, DisturbedFields DEF SolverOK, ForceOK, Live, NoOverlap
<1>1. CASE Dispatch
  BY <1>1 DEF Dispatch
<1>2. CASE PreconditionFails
  BY <1>2, FailingStep DEF PreconditionFails
<1>3. CASE GateResets
  BY <1>3 DEF GateResets
<1>4. CASE GateRefuses
  BY <1>4 DEF GateRefuses, Ends
<1>5. CASE GatePasses
  BY <1>5 DEF GatePasses
<1>6. CASE PruneOvershoot
  BY <1>6 DEF PruneOvershoot
<1>7. CASE PrepareForced
  BY <1>7 DEF PrepareForced
<1>8. CASE PrepareSkips
  BY <1>8 DEF PrepareSkips
<1>9. CASE PrepareResumes
  BY <1>9 DEF PrepareResumes
<1>10. CASE PrepareFresh
  BY <1>10 DEF PrepareFresh
<1>11. CASE Launch
  BY <1>11 DEF Launch, TypeOK, Histories
<1>12. CASE Consume
  BY <1>12 DEF Consume
<1>13. CASE Record
  BY <1>13 DEF Record
<1>14. CASE TakeVerdict
  BY <1>14 DEF TakeVerdict, TypeOK, Histories
<1>15. CASE AttemptFails
  BY <1>15, FailingStep DEF AttemptFails
<1>16. CASE AttemptSucceeds
  BY <1>16 DEF AttemptSucceeds, TypeOK, Histories
<1>17. CASE EmitFlag
  BY <1>17 DEF EmitFlag, Ends
<1>18. CASE AttemptRaises
  BY <1>18, FailingStep DEF AttemptRaises
<1>19. CASE ConsumeRaises
  BY <1>19, FailingStep DEF ConsumeRaises
<1>20. CASE SolverStarts
  BY <1>20 DEF SolverStarts, TypeOK, Histories
<1>21. CASE SolverCheckpoints
  BY <1>21 DEF SolverCheckpoints, TypeOK, Histories
<1>22. CASE SolverPublishes
  BY <1>22 DEF SolverPublishes
<1>23. CASE SolverEnds
  BY <1>23 DEF SolverEnds, TypeOK, Histories
<1>24. CASE SolverCrashes
  BY <1>24 DEF SolverCrashes, TypeOK
<1>25. CASE WatcherKills
  BY <1>25 DEF WatcherKills
<1>26. CASE GuardStops
  BY <1>26, SpoiltFields DEF GuardStops, FaultKinds, TypeOK
<1>27. CASE Killed
  BY <1>27 DEF Killed, Ends, TypeOK
<1>28. CASE ForceDeletesFlags
  BY <1>28, SpoiltFields DEF ForceDeletesFlags, FaultKinds, TypeOK
<1>29. CASE ForceArms
  BY <1>29 DEF ForceArms, TypeOK, Histories
<1>30. CASE DriverDies
  BY <1>30 DEF DriverDies
<1>31. CASE UNCHANGED vars
  BY <1>31 DEF vars
<1> QED
  BY <1>1, <1>2, <1>3, <1>4, <1>5, <1>6, <1>7, <1>8, <1>9, <1>10, <1>11, <1>12, <1>13, <1>14,
     <1>15, <1>16, <1>17, <1>18, <1>19, <1>20, <1>21, <1>22, <1>23, <1>24, <1>25, <1>26, <1>27,
     <1>28, <1>29, <1>30, <1>31
  DEF Next, Attempt, Gate, Prepare, Solver, Forced

---------------------------------------------------------------------------
(* What completion is read from is the work of a solver of this era.       *)

LEMMA FreshStep ==
  TypeOK /\ SolverOK /\ ForceOK /\ FreshOK /\ [Next]_vars => FreshOK'
<1> SUFFICES ASSUME TypeOK, SolverOK, ForceOK, FreshOK, [Next]_vars PROVE FreshOK'
  OBVIOUS
<1> USE DisturbedType, DisturbedFields
    DEF SolverOK, ForceOK, FreshOK, Live, NoOverlap, Evidence, OwnEvidence, Excused, OldReport,
        files
<1>1. CASE Dispatch
  BY <1>1 DEF Dispatch
<1>2. CASE PreconditionFails
  BY <1>2, FailingStep DEF PreconditionFails
<1>3. CASE GateResets
  BY <1>3 DEF GateResets, TypeOK, Logs
<1>4. CASE GateRefuses
  BY <1>4 DEF GateRefuses, Ends
<1>5. CASE GatePasses
  BY <1>5 DEF GatePasses
<1>6. CASE PruneOvershoot
  BY <1>6 DEF PruneOvershoot
<1>7. CASE PrepareForced
  BY <1>7 DEF PrepareForced
<1>8. CASE PrepareSkips
  BY <1>8 DEF PrepareSkips, Completed
<1>9. CASE PrepareResumes
  BY <1>9 DEF PrepareResumes, TypeOK, Logs
<1>10. CASE PrepareFresh
  BY <1>10 DEF PrepareFresh
<1>11. CASE Launch
  BY <1>11 DEF Launch, TypeOK, Histories
<1>12. CASE Consume
  BY <1>12 DEF Consume, TypeOK, Logs
<1>13. CASE Record
  BY <1>13 DEF Record, TypeOK, Logs
<1>14. CASE TakeVerdict
  BY <1>14 DEF TakeVerdict, TypeOK, Histories, Logs
<1>15. CASE AttemptFails
  BY <1>15, FailingStep DEF AttemptFails
<1>16. CASE AttemptSucceeds
  BY <1>16 DEF AttemptSucceeds, TypeOK, Histories, Logs, Completed
<1>17. CASE EmitFlag
  BY <1>17 DEF EmitFlag, Ends
<1>18. CASE AttemptRaises
  BY <1>18, FailingStep DEF AttemptRaises
<1>19. CASE ConsumeRaises
  BY <1>19, FailingStep DEF ConsumeRaises
<1>20. CASE SolverStarts
  BY <1>20 DEF SolverStarts, TypeOK, Histories
<1>21. CASE SolverCheckpoints
  BY <1>21 DEF SolverCheckpoints, TypeOK, Histories
<1>22. CASE SolverPublishes
  BY <1>22 DEF SolverPublishes
<1>23. CASE SolverEnds
  BY <1>23 DEF SolverEnds, TypeOK, Histories, Underway
<1>24. CASE SolverCrashes
  BY <1>24 DEF SolverCrashes, TypeOK
<1>25. CASE WatcherKills
  BY <1>25 DEF WatcherKills
<1>26. CASE GuardStops
  <2>1. /\ hist'.fresh = hist.fresh /\ hist'.spoils = hist.spoils \cup {"gpu_refusal"}
        /\ hist'.unopened = (hist.unopened \/ sol = "starting")
    BY <1>26, SpoiltFields DEF GuardStops, FaultKinds
  <2> QED BY <1>26, <2>1 DEF GuardStops
<1>27. CASE Killed
  BY <1>27 DEF Killed, Ends, TypeOK
<1>28. CASE ForceDeletesFlags
  BY <1>28, SpoiltFields DEF ForceDeletesFlags, FaultKinds, TypeOK
<1>29. CASE ForceArms
  BY <1>29 DEF ForceArms, TypeOK, Histories, Logs
<1>30. CASE DriverDies
  BY <1>30 DEF DriverDies
<1>31. CASE UNCHANGED vars
  BY <1>31 DEF vars
<1> QED
  BY <1>1, <1>2, <1>3, <1>4, <1>5, <1>6, <1>7, <1>8, <1>9, <1>10, <1>11, <1>12, <1>13, <1>14,
     <1>15, <1>16, <1>17, <1>18, <1>19, <1>20, <1>21, <1>22, <1>23, <1>24, <1>25, <1>26, <1>27,
     <1>28, <1>29, <1>30, <1>31
  DEF Next, Attempt, Gate, Prepare, Solver, Forced

---------------------------------------------------------------------------
(* The failures of an era are in the counter.                              *)

LEMMA CountsType ==
  ASSUME TypeOK, PreconditionFails \/ AttemptFails \/ AttemptRaises \/ ConsumeRaises
  PROVE  log'.fails \in Nat /\ hist'.launches \in Nat /\ hist'.missed \in Nat
BY FailingStep DEF Logs, Histories

LEMMA BudgetStep ==
  TypeOK /\ SolverOK /\ ForceOK /\ BudgetOK /\ [Next]_vars => BudgetOK'
<1> SUFFICES ASSUME TypeOK, SolverOK, ForceOK, BudgetOK, [Next]_vars PROVE BudgetOK'
  OBVIOUS
<1> USE CfgType, HistFields, DisturbedType, DisturbedFields
    DEF SolverOK, ForceOK, BudgetOK, Live, NoOverlap, files
<1>1. CASE Dispatch
  BY <1>1 DEF Dispatch
<1>2. CASE PreconditionFails
  <2>1. FailsBeforeLaunch(Disturbed) BY <1>2 DEF PreconditionFails
  <2>2. /\ hist'.launches = hist.launches /\ hist'.missed = hist.missed
        /\ log'.fails >= log.fails
    BY <2>1, FailureCounts
  <2>3. ~ConsumeRaises BY <1>2 DEF PreconditionFails, ConsumeRaises
  <2> QED BY <1>2, <2>2, <2>3, CountsType, FailingStep
<1>3. CASE GateResets
  BY <1>3 DEF GateResets, TypeOK, Logs
<1>4. CASE GateRefuses
  BY <1>4 DEF GateRefuses, Ends
<1>5. CASE GatePasses
  BY <1>5 DEF GatePasses
<1>6. CASE PruneOvershoot
  BY <1>6 DEF PruneOvershoot
<1>7. CASE PrepareForced
  BY <1>7 DEF PrepareForced
<1>8. CASE PrepareSkips
  BY <1>8 DEF PrepareSkips
<1>9. CASE PrepareResumes
  BY <1>9 DEF PrepareResumes, TypeOK, Logs
<1>10. CASE PrepareFresh
  BY <1>10 DEF PrepareFresh
<1>11. CASE Launch
  BY <1>11 DEF Launch, TypeOK, Histories
<1>12. CASE Consume
  BY <1>12 DEF Consume, TypeOK, Logs
<1>13. CASE Record
  BY <1>13 DEF Record, TypeOK, Logs
<1>14. CASE TakeVerdict
  BY <1>14 DEF TakeVerdict, TypeOK, Histories, Logs
<1>15. CASE AttemptFails
  <2>1. FailsAfterLaunch(hist) /\ pc = "judging" BY <1>15 DEF AttemptFails
  <2>2. hist \in Histories BY DEF TypeOK
  <2>3. ~ConsumeRaises BY <2>1 DEF ConsumeRaises
  <2>4. hist'.launches <= hist.launches + 1
        /\ (log.fails < cfg.budget => log'.fails + hist'.missed = log.fails + hist.missed + 1)
    BY <2>1, <2>2, FailureCounts
  <2>5. /\ pc' = "idle" /\ ~verdict' /\ cfg' = cfg /\ log'.force = log.force
        /\ hist'.spoils = hist.spoils
        /\ log'.fails \in Nat /\ hist'.launches \in Nat /\ hist'.missed \in Nat
    BY <1>15, <2>3, CountsType, FailingStep
  <2>6. ASSUME hist.spoils \subseteq {"slow_consume"}
        PROVE  /\ ~log.force
               /\ cfg.budget > 0 => log.fails < cfg.budget
               /\ cfg.budget > 0 => hist.launches <= log.fails + hist.missed
    BY <2>6, <2>1
  <2>7. ASSUME hist.spoils \subseteq {"slow_consume"}, cfg.budget > 0
        PROVE  hist'.launches <= log'.fails + hist'.missed
    <3>1. log'.fails + hist'.missed = log.fails + hist.missed + 1 BY <2>6, <2>7, <2>4
    <3>2. hist.launches <= log.fails + hist.missed BY <2>6, <2>7
    <3>3. log.fails \in Nat /\ hist.missed \in Nat /\ hist.launches \in Nat BY HistFields
    <3>4. hist'.launches <= hist.launches + 1 BY <2>4
    <3>5. log'.fails \in Nat /\ hist'.launches \in Nat /\ hist'.missed \in Nat BY <2>5
    <3> QED BY ONLY <3>1, <3>2, <3>3, <3>4, <3>5
  <2> QED BY <2>6, <2>7, <2>5
<1>16. CASE AttemptSucceeds
  <2>1. /\ hist'.launches = 0 /\ hist'.missed = 0 /\ hist'.spoils = hist.spoils
        /\ pc = "judging" /\ pc' = "flagging" /\ verdict' = verdict
    BY <1>16 DEF AttemptSucceeds, TypeOK, Histories
  <2>2. log'.force = log.force /\ log'.fails \in Nat
    BY <1>16 DEF AttemptSucceeds, TypeOK, Logs
  <2> QED BY <2>1, <2>2
<1>17. CASE EmitFlag
  BY <1>17 DEF EmitFlag, Ends
<1>18. CASE AttemptRaises
  <2>1. ~ConsumeRaises BY <1>18 DEF AttemptRaises, ConsumeRaises, Raising
  <2>2. CASE pc \in {"waiting", "recorded", "judging"}
    <3>1. FailsAfterLaunch(Disturbed) BY <1>18, <2>2 DEF AttemptRaises
    <3>2. hist'.launches <= hist.launches + 1
          /\ (log.fails < cfg.budget => log'.fails + hist'.missed = log.fails + hist.missed + 1)
      BY <3>1, FailureCounts
    <3>3. /\ pc' = "idle" /\ ~verdict' /\ cfg' = cfg /\ log'.force = log.force
          /\ hist'.spoils = hist.spoils
          /\ log'.fails \in Nat /\ hist'.launches \in Nat /\ hist'.missed \in Nat
      BY <1>18, <2>1, CountsType, FailingStep
    <3>6. ASSUME hist.spoils \subseteq {"slow_consume"}
          PROVE  /\ ~log.force
                 /\ cfg.budget > 0 => log.fails < cfg.budget
                 /\ cfg.budget > 0 => hist.launches <= log.fails + hist.missed
      BY <3>6, <2>2
    <3>7. ASSUME hist.spoils \subseteq {"slow_consume"}, cfg.budget > 0
          PROVE  hist'.launches <= log'.fails + hist'.missed
      <4>1. log'.fails + hist'.missed = log.fails + hist.missed + 1 BY <3>6, <3>7, <3>2
      <4>2. hist.launches <= log.fails + hist.missed BY <3>6, <3>7
      <4>3. log.fails \in Nat /\ hist.missed \in Nat /\ hist.launches \in Nat BY HistFields
      <4>4. hist'.launches <= hist.launches + 1 BY <3>2
      <4>5. log'.fails \in Nat /\ hist'.launches \in Nat /\ hist'.missed \in Nat BY <3>3
      <4> QED BY ONLY <4>1, <4>2, <4>3, <4>4, <4>5
    <3> QED BY <3>6, <3>7, <3>3
  <2>3. CASE pc \notin {"waiting", "recorded", "judging"}
    <3>1. FailsBeforeLaunch(Disturbed) BY <1>18, <2>3 DEF AttemptRaises
    <3>2. /\ hist'.launches = hist.launches /\ hist'.missed = hist.missed
          /\ log'.fails >= log.fails
      BY <3>1, FailureCounts
    <3> QED BY <1>18, <2>1, <3>2, CountsType, FailingStep
  <2> QED BY <2>2, <2>3
<1>19. CASE ConsumeRaises
  <2>1. "lost_consume" \in hist'.spoils BY <1>19, FailingStep
  <2> QED BY <2>1 DEF BudgetOK
<1>20. CASE SolverStarts
  BY <1>20 DEF SolverStarts, TypeOK, Histories
<1>21. CASE SolverCheckpoints
  BY <1>21 DEF SolverCheckpoints, TypeOK, Histories
<1>22. CASE SolverPublishes
  BY <1>22 DEF SolverPublishes
<1>23. CASE SolverEnds
  BY <1>23 DEF SolverEnds, TypeOK, Histories
<1>24. CASE SolverCrashes
  BY <1>24 DEF SolverCrashes, TypeOK
<1>25. CASE WatcherKills
  BY <1>25 DEF WatcherKills
<1>26. CASE GuardStops
  <2>1. hist'.spoils = hist.spoils \cup {"gpu_refusal"}
    BY <1>26, SpoiltFields DEF GuardStops, FaultKinds
  <2>2. "gpu_refusal" \in hist'.spoils
    BY <2>1
  <2> QED BY <2>2 DEF BudgetOK
<1>27. CASE Killed
  BY <1>27 DEF Killed, Ends, TypeOK
<1>28. CASE ForceDeletesFlags
  BY <1>28, SpoiltFields DEF ForceDeletesFlags, FaultKinds, TypeOK
<1>29. CASE ForceArms
  BY <1>29 DEF ForceArms, TypeOK, Histories, Logs
<1>30. CASE DriverDies
  BY <1>30 DEF DriverDies
<1>31. CASE UNCHANGED vars
  BY <1>31 DEF vars
<1> QED
  BY <1>1, <1>2, <1>3, <1>4, <1>5, <1>6, <1>7, <1>8, <1>9, <1>10, <1>11, <1>12, <1>13, <1>14,
     <1>15, <1>16, <1>17, <1>18, <1>19, <1>20, <1>21, <1>22, <1>23, <1>24, <1>25, <1>26, <1>27,
     <1>28, <1>29, <1>30, <1>31
  DEF Next, Attempt, Gate, Prepare, Solver, Forced

---------------------------------------------------------------------------
(* What has been written since the last forced rerun is there.             *)

LEMMA ProgressStep ==
  TypeOK /\ SolverOK /\ ForceOK /\ ProgressOK /\ [Next]_vars => ProgressOK'
<1> SUFFICES ASSUME TypeOK, SolverOK, ForceOK, ProgressOK, [Next]_vars PROVE ProgressOK'
  OBVIOUS
<1> USE CfgType, HistFields, DisturbedType, DisturbedFields
    DEF SolverOK, ForceOK, ProgressOK, Kept, Live, NoOverlap, Swmm, files
<1>1. CASE Dispatch
  BY <1>1 DEF Dispatch
<1>2. CASE PreconditionFails
  BY <1>2, FailingStep DEF PreconditionFails
<1>3. CASE GateResets
  BY <1>3 DEF GateResets, TypeOK, Logs
<1>4. CASE GateRefuses
  BY <1>4 DEF GateRefuses, Ends
<1>5. CASE GatePasses
  BY <1>5 DEF GatePasses
<1>6. CASE PruneOvershoot
  BY <1>6 DEF PruneOvershoot, Armed
<1>7. CASE PrepareForced
  BY <1>7 DEF PrepareForced, PruneAbove
<1>8. CASE PrepareSkips
  BY <1>8 DEF PrepareSkips
<1>9. CASE PrepareResumes
  BY <1>9 DEF PrepareResumes, TypeOK, Logs, Newest, Usable, Picked, TypeOK
<1>10. CASE PrepareFresh
  <2>1. cfg.schedule = <<>> /\ cfg.pickup /\ hist.spoils \subseteq {"gpu_refusal", "lost_consume"}
          => hist.best = 0
    BY <1>10 DEF PrepareFresh, Resumable, Newest, TypeOK
  <2> QED BY <1>10, <2>1 DEF PrepareFresh
<1>11. CASE Launch
  BY <1>11 DEF Launch, TypeOK, Histories
<1>12. CASE Consume
  BY <1>12 DEF Consume, TypeOK, Logs
<1>13. CASE Record
  BY <1>13 DEF Record, TypeOK, Logs
<1>14. CASE TakeVerdict
  BY <1>14 DEF TakeVerdict, TypeOK, Histories, Logs
<1>15. CASE AttemptFails
  BY <1>15, FailingStep DEF AttemptFails
<1>16. CASE AttemptSucceeds
  BY <1>16 DEF AttemptSucceeds, TypeOK, Histories, Logs
<1>17. CASE EmitFlag
  BY <1>17 DEF EmitFlag, Ends
<1>18. CASE AttemptRaises
  BY <1>18, FailingStep DEF AttemptRaises
<1>19. CASE ConsumeRaises
  BY <1>19, FailingStep DEF ConsumeRaises
<1>20. CASE SolverStarts
  BY <1>20 DEF SolverStarts, TypeOK, Histories
<1>21. CASE SolverCheckpoints
  <2>1. CASE pc = "waiting"
    <3>1. /\ hist'.spoils = hist.spoils
          /\ hist'.best = IF hist.mine /\ pos' > hist.best THEN pos' ELSE hist.best
      BY <1>21, <2>1 DEF SolverCheckpoints, TypeOK, Histories
    <3>2. pos' \in Nat /\ ckpt \in Nat /\ ckpt' = IF pos' > ckpt THEN pos' ELSE ckpt
      BY <1>21 DEF SolverCheckpoints, TypeOK
    <3> QED BY <1>21, <2>1, <3>1, <3>2 DEF SolverCheckpoints
  <2>2. CASE pc # "waiting"
    <3>1. hist'.spoils = hist.spoils \cup {"slow_consume"}
      BY <1>21, <2>2 DEF SolverCheckpoints, TypeOK, Histories
    <3>2. "slow_consume" \in hist'.spoils
      BY <3>1
    <3> QED BY <3>2 DEF ProgressOK
  <2> QED BY <2>1, <2>2
<1>22. CASE SolverPublishes
  BY <1>22 DEF SolverPublishes
<1>23. CASE SolverEnds
  BY <1>23 DEF SolverEnds, TypeOK, Histories
<1>24. CASE SolverCrashes
  BY <1>24 DEF SolverCrashes, TypeOK
<1>25. CASE WatcherKills
  BY <1>25 DEF WatcherKills
<1>26. CASE GuardStops
  BY <1>26, SpoiltFields DEF GuardStops, FaultKinds, TypeOK
<1>27. CASE Killed
  BY <1>27 DEF Killed, Ends, TypeOK
<1>28. CASE ForceDeletesFlags
  BY <1>28, SpoiltFields DEF ForceDeletesFlags, FaultKinds, TypeOK
<1>29. CASE ForceArms
  <2>1. /\ hist'.best = 0 /\ hist'.spoils = hist.spoils
        /\ UNCHANGED <<cfg, pc, sol, pos, ckpt, bare>>
    BY <1>29 DEF ForceArms, TypeOK, Histories
  <2>2. pc = "waiting" => "overlap" \in hist.spoils
    BY <1>29 DEF ForceArms
  <2>3. 1..0 = {} /\ ckpt >= 0 BY DEF TypeOK
  <2> QED BY <2>1, <2>2, <2>3
<1>30. CASE DriverDies
  BY <1>30 DEF DriverDies
<1>31. CASE UNCHANGED vars
  BY <1>31 DEF vars
<1> QED
  BY <1>1, <1>2, <1>3, <1>4, <1>5, <1>6, <1>7, <1>8, <1>9, <1>10, <1>11, <1>12, <1>13, <1>14,
     <1>15, <1>16, <1>17, <1>18, <1>19, <1>20, <1>21, <1>22, <1>23, <1>24, <1>25, <1>26, <1>27,
     <1>28, <1>29, <1>30, <1>31
  DEF Next, Attempt, Gate, Prepare, Solver, Forced

---------------------------------------------------------------------------
(* What attempts leave that end only by the schedule or by completing: no  *)
(* checkpoint yet, a completed run, or one stopped above its next boundary,*)
(* whose checkpoints up to the boundary all have their snapshots.          *)
Published(n) == bare \cap 1..n = {}
Untouched    == ckpt = 0 /\ torn = "no"
Interrupted  == /\ Armed /\ Published(Boundary)
                /\ ckpt + (IF torn = "no" THEN 0 ELSE 1) > Boundary
AtBoundary   == Armed /\ Published(Boundary) /\ ckpt = Boundary /\ torn = "no"
Left         == Untouched \/ Completed \/ Interrupted

Between ==
  \/ pc \in {"idle", "check", "admitted", "recorded", "judging", "flagging"}
  \/ pc \in {"launched", "waiting"} /\ sol = "exited"

(* An attempt is prepared for the last checkpoint below the boundary, and  *)
(* its solver writes no other than the next.                               *)
SteadyOK ==
  hist.steady =>
    /\ ~log.force /\ ~verdict
    /\ cfg.pickup /\ ~Swmm =>
         /\ Between => Left
         /\ pc = "pruned" => Untouched \/ Completed \/ AtBoundary
         /\ pc = "ready" => ckpt = pos /\ torn = "no" /\ Published(pos)
         /\ Live => ckpt = pos /\ torn = "no" /\ Published(pos - 1)

LEMMA SteadyFields ==
  ASSUME TypeOK
  PROVE  /\ ~Disturbed.steady
         /\ \A h \in Histories, f \in FaultKinds : Spoilt(f, h).steady = h.steady
BY DEF TypeOK, Histories, Disturbed, Spoilt

LEMMA BoundaryStep ==
  TypeOK /\ SolverOK /\ ForceOK /\ SteadyOK /\ [Next]_vars => SteadyOK'
<1> SUFFICES ASSUME TypeOK, SolverOK, ForceOK, SteadyOK, [Next]_vars PROVE SteadyOK'
  OBVIOUS
<1> USE CfgType, HistFields, DisturbedType
    DEF SolverOK, ForceOK, SteadyOK, Live, NoOverlap, files, Swmm, Armed, Boundary, Published,
        Untouched, Interrupted, AtBoundary, Left, Between, Completed
<1>1. CASE Dispatch
  BY <1>1 DEF Dispatch
<1>2. CASE PreconditionFails
  BY <1>2, FailingStep DEF PreconditionFails
<1>3. CASE GateResets
  BY <1>3 DEF GateResets
<1>4. CASE GateRefuses
  BY <1>4 DEF GateRefuses, Ends
<1>5. CASE GatePasses
  BY <1>5 DEF GatePasses
<1>6. CASE PruneOvershoot
  <2>1. ckpt \in Nat /\ (Armed => Boundary \in Nat \ {0})
    BY BoundaryType DEF TypeOK
  <2>2. CASE Armed
    <3>1. /\ ckpt' = IF ckpt > Boundary THEN Boundary ELSE ckpt
          /\ torn' = IF ckpt + 1 > Boundary THEN "no" ELSE torn
          /\ UNCHANGED <<cfg, sol, log, bare, marker, art, verdict, hist>>
          /\ pc = "admitted" /\ pc' = "pruned"
      BY <1>6, <2>2 DEF PruneOvershoot, PruneAbove
    <3>2. Untouched => Untouched' BY <2>1, <2>2, <3>1
    <3>3. Interrupted => AtBoundary'
      BY <2>1, <2>2, <3>1, SMTT(30)
    <3>4. Completed => Completed' BY <3>1
    <3>5. ~Live' BY <3>1
    <3>6. Swmm' = Swmm BY <3>1
    <3> HIDE DEF Untouched, Interrupted, Completed, AtBoundary, Swmm, Live
    <3> QED BY <3>1, <3>2, <3>3, <3>4, <3>5, <3>6
  <2>3. CASE ~Armed
    BY <1>6, <2>3 DEF PruneOvershoot
  <2> QED BY <2>2, <2>3
<1>7. CASE PrepareForced
  BY <1>7 DEF PrepareForced
<1>8. CASE PrepareSkips
  BY <1>8 DEF PrepareSkips
<1>9. CASE PrepareResumes
  BY <1>9 DEF PrepareResumes, TypeOK, Logs, Newest, Picked, UpTo, Resumable
<1>10. CASE PrepareFresh
  BY <1>10 DEF PrepareFresh, Newest, Resumable
<1>11. CASE Launch
  <2>1. hist'.steady = hist.steady
    BY <1>11 DEF Launch, TypeOK, Histories
  <2>2. pos - 1 \in Int /\ 1..(pos - 1) \subseteq 1..pos
    BY DEF TypeOK
  <2> QED BY <1>11, <2>1, <2>2 DEF Launch
<1>12. CASE Consume
  BY <1>12 DEF Consume, TypeOK, Logs
<1>13. CASE Record
  BY <1>13 DEF Record, TypeOK, Logs
<1>14. CASE TakeVerdict
  BY <1>14 DEF TakeVerdict, TypeOK, Histories, Logs
<1>15. CASE AttemptFails
  BY <1>15, FailingStep DEF AttemptFails
<1>16. CASE AttemptSucceeds
  BY <1>16 DEF AttemptSucceeds, TypeOK, Histories, Logs
<1>17. CASE EmitFlag
  BY <1>17 DEF EmitFlag, Ends
<1>18. CASE AttemptRaises
  BY <1>18, FailingStep DEF AttemptRaises
<1>19. CASE ConsumeRaises
  BY <1>19, FailingStep DEF ConsumeRaises
<1>20. CASE SolverStarts
  BY <1>20 DEF SolverStarts, TypeOK, Histories
<1>21. CASE SolverCheckpoints
  <2>1. hist'.steady = hist.steady
    BY <1>21 DEF SolverCheckpoints, TypeOK, Histories
  <2>2. pos \in Nat /\ ckpt \in Nat /\ pos' - 1 = pos /\ (1..pos) \ {pos} = 1..(pos - 1)
    <3>1. pos \in Nat /\ ckpt \in Nat /\ pos' = pos + 1 BY <1>21 DEF SolverCheckpoints, TypeOK
    <3>2. \A n \in Nat : (n + 1) - 1 = n /\ (1..n) \ {n} = 1..(n - 1) OBVIOUS
    <3> QED BY <3>1, <3>2
  <2>3. bare \cap 1..(pos - 1) = {} => bare' \cap 1..pos = {}
    BY <1>21, <2>2 DEF SolverCheckpoints
  <2>4. /\ Live /\ sol' = sol /\ pc' = pc /\ log' = log /\ verdict' = verdict /\ cfg' = cfg
        /\ ckpt' = IF pos' > ckpt THEN pos' ELSE ckpt
        /\ torn' = IF pos' > ckpt THEN "no" ELSE torn
    BY <1>21 DEF SolverCheckpoints, Underway
  <2>5. pc \in {"launched", "waiting"} /\ sol' # "exited" /\ Swmm' = Swmm
    BY <2>4
  <2>6. ckpt = pos /\ torn = "no" /\ Published(pos - 1)
          => ckpt' = pos' /\ torn' = "no" /\ Published(pos - 1)'
    <3> SUFFICES ASSUME ckpt = pos, torn = "no", Published(pos - 1)
                 PROVE  ckpt' = pos' /\ torn' = "no" /\ Published(pos - 1)'
      OBVIOUS
    <3>1. pos' > ckpt BY <1>21, <2>2 DEF SolverCheckpoints
    <3>2. bare' \cap 1..pos = {} BY <2>3
    <3>3. (1..(pos - 1))' = 1..pos BY <2>2
    <3> QED BY <2>4, <3>1, <3>2, <3>3
  <2> HIDE DEF Left, Published, Swmm
  <2> QED BY <2>1, <2>4, <2>5, <2>6
<1>22. CASE SolverPublishes
  BY <1>22 DEF SolverPublishes
<1>23. CASE SolverEnds
  BY <1>23 DEF SolverEnds, TypeOK, Histories
<1>24. CASE SolverCrashes
  BY <1>24, SteadyFields DEF SolverCrashes, TypeOK
<1>25. CASE WatcherKills
  <2>1. pos \in Nat /\ ckpt \in Nat /\ Boundary \in Nat
    BY <1>25, BoundaryType DEF TypeOK, WatcherKills
  <2>2. ASSUME hist.steady, cfg.pickup PROVE Published(Boundary)
    <3>1. ckpt = pos /\ torn = "no" /\ Published(pos - 1)
      BY <1>25, <2>2 DEF WatcherKills
    <3>2. ckpt + (IF torn' = "no" THEN 0 ELSE 1) > Boundary
      BY <1>25 DEF WatcherKills
    <3>3. torn' # "no" => pos \notin bare
      BY <1>25, <3>1 DEF WatcherKills, Stopped
    <3>4. Boundary <= pos - 1 \/ (Boundary <= pos /\ pos \notin bare)
      <4> HIDE DEF Boundary
      <4> QED BY <2>1, <3>1, <3>2, <3>3
    <3> QED BY <2>1, <3>1, <3>4
  <2> QED BY <1>25, <2>2 DEF WatcherKills
<1>26. CASE GuardStops
  BY <1>26, SteadyFields DEF GuardStops, FaultKinds, TypeOK
<1>27. CASE Killed
  BY <1>27, SteadyFields DEF Killed, Ends, TypeOK
<1>28. CASE ForceDeletesFlags
  BY <1>28, SteadyFields DEF ForceDeletesFlags, FaultKinds, TypeOK
<1>29. CASE ForceArms
  BY <1>29 DEF ForceArms, TypeOK, Histories, Logs
<1>30. CASE DriverDies
  BY <1>30 DEF DriverDies
<1>31. CASE UNCHANGED vars
  BY <1>31 DEF vars
<1> QED
  BY <1>1, <1>2, <1>3, <1>4, <1>5, <1>6, <1>7, <1>8, <1>9, <1>10, <1>11, <1>12, <1>13, <1>14,
     <1>15, <1>16, <1>17, <1>18, <1>19, <1>20, <1>21, <1>22, <1>23, <1>24, <1>25, <1>26, <1>27,
     <1>28, <1>29, <1>30, <1>31
  DEF Next, Attempt, Gate, Prepare, Solver, Forced

---------------------------------------------------------------------------
LEMMA InitAll == Init => SolverOK /\ ForceOK /\ FreshOK /\ BudgetOK /\ ProgressOK
<1> SUFFICES ASSUME Init PROVE SolverOK /\ ForceOK /\ FreshOK /\ BudgetOK /\ ProgressOK
  OBVIOUS
<1>1. SolverOK /\ ForceOK /\ FreshOK
  BY DEF Init, SolverOK, ForceOK, FreshOK, Live, Evidence, OwnEvidence
<1>2. BudgetOK /\ ProgressOK
  BY DEF Init, BudgetOK, ProgressOK, Kept
<1> QED BY <1>1, <1>2

(* The solver and the forced rerun keep out of each other's way.           *)
LEMMA OwnedInvariant == Spec => [](TypeOK /\ SolverOK /\ ForceOK)
BY TypeInit, TypeStep, InitAll, ForceStep, PTL DEF Spec

(***************************************************************************)
(* A flag is raised by the end of a solver of the era it stands for, but   *)
(* for the report of an earlier one, as long as no forced rerun meets a    *)
(* running attempt.                                                        *)
(***************************************************************************)
THEOREM FlagTruthful == Spec => []FlagIsFresh
<1>1. FreshOK => FlagIsFresh
  BY DEF FreshOK, FlagIsFresh, NoOverlap
<1> QED BY <1>1, OwnedInvariant, InitAll, FreshStep, PTL DEF Spec

(***************************************************************************)
(* Whatever the budget and however attempts end, the solver is not launched*)
(* once the budget of the era is spent, unless a GPU was refused, the force*)
(* could not be cleared or a forced rerun met a running attempt.           *)
(***************************************************************************)
THEOREM BudgetKeeps == Spec => []BudgetHolds
<1>1. TypeOK /\ BudgetOK => BudgetHolds
  BY HistFields, CfgType DEF BudgetOK, BudgetHolds, BudgetKept
<1> QED BY <1>1, OwnedInvariant, InitAll, BudgetStep, PTL DEF Spec

(***************************************************************************)
(* For any number of steps, kills and failures a launch resumes above every*)
(* checkpoint of the era that has its snapshot.                            *)
(***************************************************************************)
THEOREM ProgressKeeps == Spec => []ProgressKept
<1>1. ProgressOK => ProgressKept
  BY DEF ProgressOK, ProgressKept, NothingLost, Kept
<1> QED BY <1>1, OwnedInvariant, InitAll, ProgressStep, PTL DEF Spec

(***************************************************************************)
(* For any schedule, whatever its order and length, and any number of      *)
(* steps: attempts that end only by the schedule or by completing resume   *)
(* from exactly the boundaries of the schedule, one after the other.       *)
(***************************************************************************)
THEOREM BoundariesKept == Spec => BoundariesHeld
<1> DEFINE Held == PrepareResumes /\ hist.steady
                     => log.resumes < Len(cfg.schedule) /\ pos' = Boundary
<1>1. Init => SteadyOK
  BY DEF Init, SteadyOK, Live, Left, Untouched, Between
<1>2. TypeOK /\ SteadyOK /\ [Next]_vars => [Held]_vars
  <2> SUFFICES ASSUME TypeOK, SteadyOK, PrepareResumes, hist.steady
               PROVE  log.resumes < Len(cfg.schedule) /\ pos' = Boundary
    OBVIOUS
  <2>1. AtBoundary
    BY DEF SteadyOK, PrepareResumes, Resumable, Untouched, Newest
  <2>2. Boundary \in Nat \ {0} /\ Newest = Boundary /\ Boundary \notin bare
    BY <2>1, BoundaryType DEF AtBoundary, Newest, Published
  <2>3. \A p \in 1..Steps : Picked(p) => p = Boundary
    BY <2>1, <2>2 DEF AtBoundary, Picked
  <2> QED BY <2>1, <2>3 DEF AtBoundary, Armed, PrepareResumes
<1> QED BY <1>1, <1>2, OwnedInvariant, BoundaryStep, PTL DEF Spec, BoundariesHeld
=============================================================================
