-------------------------- MODULE SimOutputsProofs --------------------------
(***************************************************************************)
(* Theorems about SimOutputs, for any number of timesteps, batch sizes,    *)
(* faults and forces.                                                      *)
(***************************************************************************)
EXTENDS SimOutputs, TLAPS

Writing ==
  {"write", "flag", "clear", "merge", "build", "building", "aside", "place", "sweep", "certify"}
Publishing == {"merge", "build", "building", "aside", "place"}
Recorders == {"drop", "purge", "save"}
Summarising == {"summary", "summing", "sumsave", "reclaim", "emit"}

(* A pass has the scenario to itself, and what it has behind it is on disk.*)
PassInv ==
  /\ pc # "idle" => runFlag /\ ~procFlag /\ force.pc = "none"
  /\ owed => ~runFlag
  /\ force.pc = "log" /\ force.stage = "simulate" => ~runFlag
  /\ procFlag => "summary" \in log /\ force.pc = "none"
  /\ "series" \in log => done
  /\ pc \in Writing => ~done
  /\ pc \in Recorders => done
  /\ pc \in Summarising => "series" \in log
  /\ pc \in {"reclaim", "emit"} => "summary" \in log
  /\ pc = "reclaim" => cfg.reclaim
  /\ pc \in {"sumsave", "reclaim"} => IsWhole(summary)

(* What a force has behind it is gone, and a simulation that is owed starts*)
(* from nothing.                                                           *)
ForceInv ==
  /\ force.pc \in {"chapters", "done"} => log = {} /\ (~forfeited => Untouched)
  /\ force.pc = "done" => chap = {}
  /\ owed /\ ~cut =>
       /\ force.pc \in {"none", "log"} => chap = {} /\ ~done /\ log = {}

(* A store is set aside only for one that is whole.                        *)
PublishInv ==
  /\ aside.is # "absent" => ~done /\ cfg.kind = "zarr"
  /\ pc \in {"build", "building", "aside", "certify"} => aside.is = "absent"
  /\ aside.is # "absent" /\ final.is = "absent" => IsWhole(tmp)
  /\ pc = "aside" => cfg.kind = "zarr"
  /\ pc \in {"aside", "place"} => IsWhole(tmp)
  /\ PublishedIsWhole

(* Where the data of the last simulation is, on the way from the raw files *)
(* to the summary.                                                         *)
FinalAll == IsWhole(final) /\ final.data = All
SummaryAll == IsWhole(summary) /\ summary.data = All
DataInv ==
  ~cut /\ ~forfeited =>
    /\ ~owed /\ ~done /\ force.pc \in {"none", "log"} =>
         /\ \A c \in chap : c.whole /\ c.gen = gen
         /\ \A t \in Steps : raw[t] = "whole" \/ t \in Covered
    /\ pc \in Publishing => Covered = Steps
    /\ pc \in {"aside", "place"} => tmp.data = All
    /\ pc \in {"sweep", "certify", "summing", "sumsave"} => FinalAll
    /\ done =>
         \/ FinalAll
         \/ /\ cfg.reclaim /\ SummaryAll
            /\ "summary" \in log \/ force.pc \in {"chapters", "done"}
    /\ "summary" \in log \/ pc = "sumsave" => SummaryAll

---------------------------------------------------------------------------
LEMMA NothingType == NoStore \in Stores /\ NoForce \in Forces
  BY DEF Stores, NoStore, Forces, NoForce

LEMMA TypeInit == Init => TypeOK
<1> SUFFICES ASSUME Init PROVE TypeOK
  OBVIOUS
<1>1. MaxFaults \in Nat /\ MaxForces \in Nat
  BY SimOutputsAssumption
<1>2. aside.is = "absent"
  BY DEF Init, NoStore
<1>3. /\ raw \in [Steps -> {"whole", "ragged", "gone"}] /\ pc \in Phases
      /\ faults \in 0..MaxFaults /\ forces \in 0..MaxForces
  BY <1>1 DEF Init, Phases
<1>4. /\ chap \subseteq Chapters /\ dirs \subseteq {"raw", "performance"}
      /\ log \subseteq {"performance", "series", "summary"}
  BY DEF Init
<1>5. QED
  BY NothingType, <1>2, <1>3, <1>4 DEF Init, TypeOK

LEMMA OneChapterLessType ==
  ASSUME TypeOK, OneChapterLess
  PROVE  chap' \subseteq Chapters
<1>1. \A c \in chap : [c EXCEPT !.whole = FALSE] \in Chapters
  BY DEF TypeOK, Chapters
<1>2. QED
  BY <1>1 DEF TypeOK, OneChapterLess

LEMMA NewChapterType ==
  ASSUME TypeOK, NEW k \in {0} \cup {c.at + 1 : c \in Flagged}, NEW last \in Steps
  PROVE  [at |-> k, of |-> {t \in Remaining : t <= last}, gen |-> gen,
          flagged |-> FALSE, whole |-> TRUE] \in Chapters
<1>1. \A c \in Flagged : c.at \in Nat
  BY DEF TypeOK, Flagged, Chapters
<1>2. k \in Nat
  BY <1>1
<1>3. {t \in Remaining : t <= last} \in SUBSET Steps
  BY DEF Remaining, Rows
<1>4. gen \in Nat
  BY DEF TypeOK
<1>5. QED
  BY <1>2, <1>3, <1>4 DEF Chapters

LEMMA MergedType ==
  ASSUME TypeOK
  PROVE  Merged \in Stores /\ Torn(Merged) \in Stores
<1>1. \A c \in chap : c.of \subseteq Steps /\ c.gen \in Nat
  BY DEF TypeOK, Chapters
<1>2. DataOf(Flagged) \in SUBSET (Steps \X Nat)
  BY <1>1 DEF DataOf, Flagged
<1>3. QED
  BY <1>2 DEF Merged, Torn, Stores

(* Only a zarr store is set aside.                                         *)
Aside == pc = "aside" => cfg.kind = "zarr"

LEMMA TypeStep ==
  ASSUME TypeOK, Aside, [Next]_vars
  PROVE  TypeOK' /\ Aside'
<1> USE SimOutputsAssumption DEF TypeOK, Aside, Phases, At, stores, flags, history
<1>1. CASE Simulate
<2>1. raw' \in [Steps -> {"whole", "ragged", "gone"}] /\ gen' \in Nat
  BY <1>1 DEF Simulate
<2>2. QED
  BY <1>1, <2>1 DEF Simulate, Idle
<1>2. CASE StartPass
  BY <1>2 DEF StartPass, Idle
<1>3. CASE ExportPerformance
  BY <1>3 DEF ExportPerformance
<1>4. CASE EnterSeries
  BY <1>4 DEF EnterSeries, Recorded, Flagged
<1>5. CASE WriteChapter
<2>1. PICK last \in Remaining, k \in {0} \cup {c.at + 1 : c \in Flagged} :
        chap' = chap \cup
            {[at |-> k, of |-> {t \in Remaining : t <= last}, gen |-> gen,
              flagged |-> FALSE, whole |-> TRUE]}
  BY <1>5 DEF WriteChapter
<2>2. last \in Steps
  BY DEF Remaining, Rows
<2>3. chap' \subseteq Chapters
  BY NewChapterType, <2>1, <2>2
<2>4. QED
  BY <1>5, <2>3 DEF WriteChapter
<1>6. CASE FlagChapter
<2>1. \A c \in chap : [c EXCEPT !.flagged = TRUE] \in Chapters
  BY DEF Chapters
<2>2. chap' \subseteq Chapters
  BY <1>6, <2>1 DEF FlagChapter
<2>3. QED
  BY <1>6, <2>2 DEF FlagChapter
<1>7. CASE ClearRaw
  BY <1>7 DEF ClearRaw, Rows, Covered, Decayed
<1>8. CASE StartMerge
  BY <1>8 DEF StartMerge
<1>9. CASE Recover
  BY <1>9 DEF Recover, Stores, NoStore
<1>10. CASE Build
  BY MergedType, <1>10 DEF Build
<1>11. CASE Built
  BY MergedType, <1>11 DEF Built
<1>12. CASE SetAside
  BY <1>12 DEF SetAside, NoStore, Stores
<1>13. CASE Place
  BY <1>13 DEF Place, NoStore, Stores
<1>14. CASE Sweep
  BY <1>14 DEF Sweep, NoStore, Stores
<1>15. CASE Certify
  BY <1>15 DEF Certify
<1>16. CASE Drop
  BY OneChapterLessType, <1>16 DEF Drop, Recorded
<1>17. CASE Purge
  BY <1>17 DEF Purge, Rows, Decayed
<1>18. CASE Save
  BY <1>18 DEF Save
<1>19. CASE Summarise
  BY <1>19 DEF Summarise, After, Stores, Torn, SummaryOf, IsWhole
<1>20. CASE Summed
  BY <1>20 DEF Summed, Stores, SummaryOf, IsWhole
<1>21. CASE SaveSummary
  BY <1>21 DEF SaveSummary, After
<1>22. CASE Reclaim
  BY <1>22 DEF Reclaim, Stores, NoStore, Torn, IsWhole
<1>23. CASE EmitFlag
  BY <1>23 DEF EmitFlag
<1>24. CASE PassFails
  BY <1>24 DEF PassFails, Fault, Unsaved
<1>25. ASSUME NEW stage \in Stages, ForceFlags(stage) PROVE TypeOK' /\ Aside'
<2>1. force' \in Forces
  BY <1>25, SimOutputsAssumption DEF ForceFlags, Forces
<2>2. runFlag' \in BOOLEAN /\ procFlag' \in BOOLEAN
  BY <1>25 DEF ForceFlags
<2>3. forces' \in 0..MaxForces
  BY <1>25 DEF ForceFlags
<2>4. QED
  BY <1>25, <2>1, <2>2, <2>3 DEF ForceFlags, Idle
<1>26. CASE ForceLog
  BY <1>26 DEF ForceLog, Forces
<1>27. CASE ForceChapters
  BY OneChapterLessType, <1>27 DEF ForceChapters, Forces
<1>28. CASE ForceDone
  BY <1>28 DEF ForceDone, Forces, NoForce
<1>29. CASE DriverDies
  BY <1>29 DEF DriverDies, Fault, NoForce, Forces
<1>30. CASE UNCHANGED vars
  BY <1>30 DEF vars
<1>31. QED
  BY <1>1, <1>2, <1>3, <1>4, <1>5, <1>6, <1>7, <1>8, <1>9, <1>10, <1>11, <1>12, <1>13,
     <1>14, <1>15, <1>16, <1>17, <1>18, <1>19, <1>20, <1>21, <1>22, <1>23, <1>24, <1>25,
     <1>26, <1>27, <1>28, <1>29, <1>30 DEF Next, Pass, Driver

---------------------------------------------------------------------------
LEMMA PassStep ==
  ASSUME TypeOK, PassInv, ForceInv, [Next]_vars
  PROVE  PassInv'
<1> USE DEF PassInv, At, stores, flags, history, Writing, Recorders, Summarising
<1>1. CASE Simulate
  BY <1>1 DEF Simulate, Idle
<1>2. CASE StartPass
  BY <1>2 DEF StartPass, Idle
<1>3. CASE ExportPerformance
  BY <1>3 DEF ExportPerformance
<1>4. CASE EnterSeries
  BY <1>4 DEF EnterSeries, Recorded, FrameOK
<1>5. CASE WriteChapter
  BY <1>5 DEF WriteChapter
<1>6. CASE FlagChapter
  BY <1>6 DEF FlagChapter
<1>7. CASE ClearRaw
  BY <1>7 DEF ClearRaw
<1>8. CASE StartMerge
  BY <1>8 DEF StartMerge
<1>9. CASE Recover
  BY <1>9 DEF Recover
<1>10. CASE Build
  BY <1>10 DEF Build
<1>11. CASE Built
  BY <1>11 DEF Built
<1>12. CASE SetAside
  BY <1>12 DEF SetAside
<1>13. CASE Place
  BY <1>13 DEF Place
<1>14. CASE Sweep
  BY <1>14 DEF Sweep
<1>15. CASE Certify
  BY <1>15 DEF Certify
<1>16. CASE Drop
  BY <1>16 DEF Drop, Recorded
<1>17. CASE Purge
  BY <1>17 DEF Purge
<1>18. CASE Save
  BY <1>18 DEF Save
<1>19. CASE Summarise
  BY <1>19 DEF Summarise, After
<1>20. CASE Summed
  BY <1>20 DEF Summed, IsWhole, SummaryOf
<1>21. CASE SaveSummary
  BY <1>21 DEF SaveSummary, After, IsWhole
<1>22. CASE Reclaim
  BY <1>22 DEF Reclaim, IsWhole
<1>23. CASE EmitFlag
  BY <1>23 DEF EmitFlag
<1>24. CASE PassFails
  BY <1>24 DEF PassFails, Unsaved
<1>25. ASSUME NEW stage \in Stages, ForceFlags(stage) PROVE PassInv'
  BY <1>25 DEF ForceFlags, Idle
<1>26. CASE ForceLog
  BY <1>26 DEF ForceLog, TypeOK, Forces
<1>27. CASE ForceChapters
  BY <1>27 DEF ForceChapters, TypeOK, Forces
<1>28. CASE ForceDone
  BY <1>28 DEF ForceDone, NoForce, ForceInv
<1>29. CASE DriverDies
  BY <1>29 DEF DriverDies, NoForce
<1>30. CASE UNCHANGED vars
  BY <1>30 DEF vars
<1>31. QED
  BY <1>1, <1>2, <1>3, <1>4, <1>5, <1>6, <1>7, <1>8, <1>9, <1>10, <1>11,
     <1>12, <1>13, <1>14, <1>15, <1>16, <1>17, <1>18, <1>19, <1>20, <1>21,
     <1>22, <1>23, <1>24, <1>25, <1>26, <1>27, <1>28, <1>29, <1>30 DEF Next,
     Pass, Driver

LEMMA ForceStep ==
  ASSUME TypeOK, PassInv, ForceInv, [Next]_vars
  PROVE  ForceInv'
<1> USE DEF At, stores, flags, history, ForceInv, Untouched
<1>1. CASE Simulate
  BY <1>1 DEF Simulate, Idle
<1>2. CASE StartPass
  BY <1>2 DEF StartPass, Idle
<1>3. CASE ExportPerformance
  BY <1>3 DEF ExportPerformance, PassInv, Writing, Recorders, Summarising
<1>4. CASE EnterSeries
  BY <1>4 DEF EnterSeries, PassInv, Writing, Flagged
<1>5. CASE WriteChapter
  BY <1>5 DEF WriteChapter, PassInv, Writing
<1>6. CASE FlagChapter
  BY <1>6 DEF FlagChapter, PassInv, Writing
<1>7. CASE ClearRaw
  BY <1>7 DEF ClearRaw, PassInv, Decayed
<1>8. CASE StartMerge
  BY <1>8 DEF StartMerge, PassInv, Writing, Recorders, Summarising
<1>9. CASE Recover
  BY <1>9 DEF Recover, PassInv, Writing, Recorders, Summarising
<1>10. CASE Build
  BY <1>10 DEF Build, PassInv, Writing, Recorders, Summarising
<1>11. CASE Built
  BY <1>11 DEF Built, PassInv, Writing, Recorders, Summarising
<1>12. CASE SetAside
  BY <1>12 DEF SetAside, PassInv, Writing, Recorders, Summarising
<1>13. CASE Place
  BY <1>13 DEF Place, PassInv, Writing, Recorders, Summarising
<1>14. CASE Sweep
  BY <1>14 DEF Sweep, PassInv, Writing, Recorders, Summarising
<1>15. CASE Certify
  BY <1>15 DEF Certify, PassInv, Writing, Recorders, Summarising
<1>16. CASE Drop
  BY <1>16 DEF Drop, PassInv, Writing, Recorders, Summarising, OneChapterLess
<1>17. CASE Purge
  BY <1>17 DEF Purge, PassInv, Decayed
<1>18. CASE Save
  BY <1>18 DEF Save, PassInv, Writing, Recorders, Summarising
<1>19. CASE Summarise
  BY <1>19 DEF Summarise, PassInv, Writing, Recorders, Summarising
<1>20. CASE Summed
  BY <1>20 DEF Summed, PassInv, Writing, Recorders, Summarising
<1>21. CASE SaveSummary
  BY <1>21 DEF SaveSummary, PassInv, Writing, Recorders, Summarising
<1>22. CASE Reclaim
  BY <1>22 DEF Reclaim, PassInv, Writing, Recorders, Summarising
<1>23. CASE EmitFlag
  BY <1>23 DEF EmitFlag, PassInv, Writing, Recorders, Summarising
<1>24. CASE PassFails
  BY <1>24 DEF PassFails, Unsaved, PassInv, Recorders, Summarising
<1>25. ASSUME NEW stage \in Stages, ForceFlags(stage) PROVE ForceInv'
  BY <1>25 DEF ForceFlags, Idle
<1>26. CASE ForceLog
  BY <1>26 DEF ForceLog, TypeOK, Forces
<1>27. CASE ForceChapters
  BY <1>27 DEF ForceChapters, OneChapterLess, PassInv, TypeOK, Forces
<1>28. CASE ForceDone
  BY <1>28 DEF ForceDone, NoForce
<1>29. CASE DriverDies
  BY <1>29 DEF DriverDies, NoForce, TypeOK, Forces
<1>30. CASE UNCHANGED vars
  BY <1>30 DEF vars
<1>31. QED
  BY <1>1, <1>2, <1>3, <1>4, <1>5, <1>6, <1>7, <1>8, <1>9, <1>10, <1>11,
     <1>12, <1>13, <1>14, <1>15, <1>16, <1>17, <1>18, <1>19, <1>20, <1>21,
     <1>22, <1>23, <1>24, <1>25, <1>26, <1>27, <1>28, <1>29, <1>30 DEF Next,
     Pass, Driver

LEMMA PublishStep ==
  ASSUME TypeOK, PassInv, PublishInv, [Next]_vars
  PROVE  PublishInv'
<1> USE DEF At, stores, flags, history, PublishInv, PublishedIsWhole
<1>1. CASE Simulate
  BY <1>1 DEF Simulate, Idle
<1>2. CASE StartPass
  BY <1>2 DEF StartPass, Idle
<1>3. CASE ExportPerformance
  BY <1>3 DEF ExportPerformance
<1>4. CASE EnterSeries
  BY <1>4 DEF EnterSeries, Recorded, FrameOK
<1>5. CASE WriteChapter
  BY <1>5 DEF WriteChapter
<1>6. CASE FlagChapter
  BY <1>6 DEF FlagChapter
<1>7. CASE ClearRaw
  BY <1>7 DEF ClearRaw
<1>8. CASE StartMerge
  BY <1>8 DEF StartMerge
<1>9. CASE Recover
  BY <1>9 DEF Recover, NoStore, IsWhole
<1>10. CASE Build
  BY <1>10 DEF Build, NoStore
<1>11. CASE Built
  BY SimOutputsAssumption, <1>11 DEF Built, Merged, IsWhole, TypeOK
<1>12. CASE SetAside
  BY <1>12 DEF SetAside, NoStore, PassInv, Writing, IsWhole
<1>13. CASE Place
  BY <1>13 DEF Place, NoStore, IsWhole
<1>14. CASE Sweep
  BY <1>14 DEF Sweep, NoStore
<1>15. CASE Certify
  BY <1>15 DEF Certify, IsWhole
<1>16. CASE Drop
  BY <1>16 DEF Drop, Recorded
<1>17. CASE Purge
  BY <1>17 DEF Purge
<1>18. CASE Save
  BY <1>18 DEF Save
<1>19. CASE Summarise
<2>1. final.is = "torn" => UNCHANGED summary
  BY <1>19 DEF Summarise
<2>2. UNCHANGED <<tmp, aside, final, done, cfg>> /\ pc' \in {"summing", After, "idle"}
  BY <1>19 DEF Summarise
<2>3. After \in {"reclaim", "emit"}
  BY DEF After
<2>4. QED
  BY <2>1, <2>2, <2>3 DEF IsWhole
<1>20. CASE Summed
  BY <1>20 DEF Summed, SummaryOf, IsWhole
<1>21. CASE SaveSummary
  BY <1>21 DEF SaveSummary, After, IsWhole
<1>22. CASE Reclaim
  BY <1>22 DEF Reclaim, NoStore, Torn, IsWhole, PassInv, Summarising
<1>23. CASE EmitFlag
  BY <1>23 DEF EmitFlag
<1>24. CASE PassFails
  BY <1>24 DEF PassFails
<1>25. ASSUME NEW stage \in Stages, ForceFlags(stage) PROVE PublishInv'
  BY <1>25 DEF ForceFlags, Idle
<1>26. CASE ForceLog
  BY <1>26 DEF ForceLog
<1>27. CASE ForceChapters
  BY <1>27 DEF ForceChapters
<1>28. CASE ForceDone
  BY <1>28 DEF ForceDone
<1>29. CASE DriverDies
  BY <1>29 DEF DriverDies
<1>30. CASE UNCHANGED vars
  BY <1>30 DEF vars
<1>31. QED
  BY <1>1, <1>2, <1>3, <1>4, <1>5, <1>6, <1>7, <1>8, <1>9, <1>10, <1>11,
     <1>12, <1>13, <1>14, <1>15, <1>16, <1>17, <1>18, <1>19, <1>20, <1>21,
     <1>22, <1>23, <1>24, <1>25, <1>26, <1>27, <1>28, <1>29, <1>30 DEF Next,
     Pass, Driver
LEMMA CoveredSame == ASSUME UNCHANGED chap PROVE Covered' = Covered
  BY DEF Covered, Flagged

LEMMA CoveredReaped == ASSUME chap' = Flagged PROVE Covered' = Covered /\ chap' \subseteq chap
<1>1. Flagged' = Flagged
  BY DEF Flagged
<1>2. QED
  BY <1>1 DEF Covered, Flagged

LEMMA CoveredSteps == ASSUME TypeOK PROVE Covered \subseteq Steps
<1>1. \A c \in Flagged : c.of \subseteq Steps
  BY DEF TypeOK, Flagged, Chapters
<1>2. QED
  BY <1>1 DEF Covered

LEMMA FlaggedMore == ASSUME TypeOK, FlagChapter PROVE Covered \subseteq Covered'
<1>1. \A c \in Flagged : \E d \in Flagged' : d.of = c.of
  <2>1. TAKE c \in Flagged
  <2>2. c \in chap /\ c \in Chapters
    BY DEF Flagged, TypeOK
  <2>3. [c EXCEPT !.flagged = TRUE] \in chap'
    BY <2>2 DEF FlagChapter
  <2>4. [c EXCEPT !.flagged = TRUE].flagged /\ [c EXCEPT !.flagged = TRUE].of = c.of
    BY <2>2 DEF Chapters
  <2>5. QED
    BY <2>3, <2>4 DEF Flagged
<1>2. QED
  BY <1>1 DEF Covered

(* A chapter on its way is of the last simulation, and not flagged.        *)
LEMMA NewType ==
  ASSUME TypeOK, WriteChapter
  PROVE  \E c \in Chapters : c.gen = gen /\ c.whole /\ ~c.flagged /\ chap' = chap \cup {c}
<1>1. PICK last \in Remaining, k \in {0} \cup {c.at + 1 : c \in Flagged} :
        chap' = chap \cup
            {[at |-> k, of |-> {t \in Remaining : t <= last}, gen |-> gen,
              flagged |-> FALSE, whole |-> TRUE]}
  BY DEF WriteChapter
<1>2. last \in Steps
  BY DEF Remaining, Rows
<1>3. QED
  BY NewChapterType, <1>1, <1>2

(* Whole chapters of the last simulation that cover it merge to all of it. *)
LEMMA MergedAll ==
  ASSUME TypeOK, Covered = Steps, \A c \in chap : c.whole /\ c.gen = gen
  PROVE  Merged.data = All
<1>1. {c \in Flagged : c.whole} = Flagged /\ \A c \in Flagged : c.gen = gen
  BY DEF Flagged
<1>2. DataOf(Flagged) = UNION {c.of \X {gen} : c \in Flagged}
  BY <1>1 DEF DataOf
<1>3. UNION {c.of \X {gen} : c \in Flagged} = Steps \X {gen}
  BY DEF Covered
<1>4. QED
  BY <1>2, <1>3 DEF Merged, All

LEMMA DataStep ==
  ASSUME TypeOK, PassInv, ForceInv, PublishInv, DataInv, [Next]_vars
  PROVE  DataInv'
<1> USE DEF DataInv, All, FinalAll, SummaryAll, At, stores, flags, history, Publishing
<1>1. CASE Simulate
  BY CoveredSame, <1>1 DEF Simulate, Idle, ForceInv, PassInv
<1>2. CASE StartPass
  BY CoveredSame, <1>2 DEF StartPass, Idle, PassInv
<1>3. CASE ExportPerformance
  BY CoveredSame, <1>3 DEF ExportPerformance, PassInv, Writing, Recorders, Summarising
<1>4. CASE EnterSeries
<2>1. Covered' = Covered /\ chap' \subseteq chap
  BY <1>4, CoveredSame, CoveredReaped DEF EnterSeries
<2>2. UNCHANGED <<raw, gen, done, owed, tmp, final, log, summary, force, cut, forfeited, cfg>>
  BY <1>4 DEF EnterSeries
<2>3. pc' \in {"purge", "summary", "save", "write", "idle"}
  BY <1>4 DEF EnterSeries, Recorded
<2>4. QED
  BY <2>1, <2>2, <2>3 DEF IsWhole
<1>5. CASE WriteChapter
<2>1. PICK c \in Chapters : c.gen = gen /\ c.whole /\ ~c.flagged /\ chap' = chap \cup {c}
  BY <1>5, NewType
<2>2. Flagged' = Flagged
  BY <2>1 DEF Flagged
<2>3. Covered' = Covered
  BY <2>2 DEF Covered
<2>4. QED
  BY <1>5, <2>1, <2>3 DEF WriteChapter, PassInv, Writing
<1>6. CASE FlagChapter
<2>1. \A c \in chap' : \E d \in chap : c.gen = d.gen /\ c.whole = d.whole
  BY <1>6 DEF FlagChapter, TypeOK, Chapters
<2>2. Covered \subseteq Covered'
  BY <1>6, FlaggedMore
<2>3. QED
  BY <1>6, <2>1, <2>2 DEF FlagChapter, PassInv, Writing
<1>7. CASE ClearRaw
<2>1. Covered' = Covered
  BY <1>7, CoveredSame DEF ClearRaw
<2>2. \A t \in Steps : raw[t] = "whole" => raw'[t] = "whole" \/ t \in Covered
  <3>1. Batch \subseteq Covered
    BY DEF Batch, Covered
  <3>2. QED
    BY <1>7, <3>1 DEF ClearRaw, Decayed, TypeOK
<2>3. QED
  BY <1>7, <2>1, <2>2 DEF ClearRaw, PassInv, Writing
<1>8. CASE StartMerge
<2>1. Covered' = Covered
  BY <1>8, CoveredSame DEF StartMerge
<2>2. Covered \subseteq Steps
  BY CoveredSteps
<2>3. Remaining = {} => \A t \in Steps : ~(raw[t] = "gone") => t \in Covered
  BY DEF Remaining, Rows
<2>4. QED
  BY <1>8, <2>1, <2>2, <2>3 DEF StartMerge, PassInv, Writing
<1>9. CASE Recover
  BY CoveredSame, <1>9 DEF Recover, PassInv, Writing, Recorders, Summarising
<1>10. CASE Build
  BY CoveredSame, <1>10 DEF Build, PassInv, Writing, Recorders, Summarising, ForceInv
<1>11. CASE Built
  BY CoveredSame, MergedAll, <1>11 DEF Built, PassInv, Writing, Recorders, Summarising, Merged
<1>12. CASE SetAside
  BY CoveredSame, <1>12 DEF SetAside, PassInv, Writing, Recorders, Summarising, PublishInv
<1>13. CASE Place
  BY CoveredSame, <1>13 DEF Place, PassInv, Writing, Recorders, Summarising, PublishInv, IsWhole
<1>14. CASE Sweep
  BY CoveredSame, <1>14 DEF Sweep, PassInv, Writing, Recorders, Summarising
<1>15. CASE Certify
  BY CoveredSame, <1>15 DEF Certify, PassInv, Writing, Recorders, Summarising
<1>16. CASE Drop
  BY <1>16 DEF Drop, PassInv, Writing, Recorders, Summarising, Recorded, IsWhole
<1>17. CASE Purge
  BY CoveredSame, <1>17 DEF Purge, PassInv, Writing, Recorders, Summarising
<1>18. CASE Save
  BY CoveredSame, <1>18 DEF Save, PassInv, Writing, Recorders, Summarising
<1>19. CASE Summarise
  BY CoveredSame, <1>19 DEF Summarise, PassInv, Writing, Recorders, Summarising, After, IsWhole
<1>20. CASE Summed
  BY CoveredSame, <1>20 DEF Summed, PassInv, Writing, Recorders, Summarising, SummaryOf, IsWhole
<1>21. CASE SaveSummary
  BY CoveredSame, <1>21 DEF SaveSummary, PassInv, Writing, Recorders, Summarising, After
<1>22. CASE Reclaim
  BY CoveredSame, <1>22 DEF Reclaim, PassInv, Writing, Recorders, Summarising, IsWhole
<1>23. CASE EmitFlag
  BY CoveredSame, <1>23 DEF EmitFlag, PassInv, Writing, Recorders, Summarising
<1>24. CASE PassFails
  BY CoveredSame, <1>24 DEF PassFails, PassInv, Writing, Recorders, Summarising, Unsaved
<1>25. ASSUME NEW stage \in Stages, ForceFlags(stage) PROVE DataInv'
  BY CoveredSame, <1>25 DEF ForceFlags, Idle, PassInv
<1>26. CASE ForceLog
  BY CoveredSame, <1>26 DEF ForceLog, PassInv, TypeOK, Forces, Untouched
<1>27. CASE ForceChapters
  BY <1>27 DEF ForceChapters, PassInv, TypeOK, Forces, ForceInv, Untouched
<1>28. CASE ForceDone
  BY CoveredSame, <1>28 DEF ForceDone, NoForce, PassInv, ForceInv, Untouched
<1>29. CASE DriverDies
  BY CoveredSame, <1>29 DEF DriverDies, NoForce, PassInv, ForceInv, Untouched, TypeOK, Forces
<1>30. CASE UNCHANGED vars
  BY CoveredSame, <1>30 DEF vars
<1>31. QED
  BY <1>1, <1>2, <1>3, <1>4, <1>5, <1>6, <1>7, <1>8, <1>9, <1>10, <1>11,
     <1>12, <1>13, <1>14, <1>15, <1>16, <1>17, <1>18, <1>19, <1>20, <1>21,
     <1>22, <1>23, <1>24, <1>25, <1>26, <1>27, <1>28, <1>29, <1>30 DEF Next,
     Pass, Driver

---------------------------------------------------------------------------
(* The conjunction that is inductive.                                      *)
Inv == TypeOK /\ Aside /\ PassInv /\ ForceInv /\ PublishInv /\ DataInv

LEMMA InvInit == Init => Inv
<1> SUFFICES ASSUME Init PROVE Inv
  OBVIOUS
<1>1. TypeOK
  BY TypeInit
<1>2. Aside /\ PassInv /\ ForceInv /\ PublishInv
  BY DEF Init, Aside, PassInv, ForceInv, PublishInv, PublishedIsWhole, NoStore, NoForce,
         Writing, Recorders, Summarising
<1>3. DataInv
  BY DEF Init, DataInv, NoStore, NoForce, Publishing
<1>4. QED
  BY <1>1, <1>2, <1>3 DEF Inv

LEMMA InvStep == Inv /\ [Next]_vars => Inv'
  BY TypeStep, PassStep, ForceStep, PublishStep, DataStep DEF Inv

LEMMA Invariance == Spec => []Inv
  BY InvInit, InvStep, PTL DEF Spec

(* Every variable has its type, and an nc publication has no aside.        *)
THEOREM TypeCorrect == Spec => []TypeOK
<1>1. Inv => TypeOK
  BY DEF Inv
<1>2. QED
  BY Invariance, <1>1, PTL

(* No step of a pass or of a force takes a timestep away before the next   *)
(* place has it: raw files after the chapter, chapters after the store,    *)
(* the store after the summary.                                            *)
THEOREM NothingIsLost == Spec => []NothingLost
<1>1. ASSUME Inv, Sound, NEW t \in Steps
      PROVE  \/ raw[t] = "whole"
             \/ <<t, gen>> \in DataOf(Flagged)
             \/ IsWhole(final) /\ <<t, gen>> \in final.data
             \/ cfg.reclaim /\ IsWhole(summary) /\ <<t, gen>> \in summary.data
  <2>1. CASE done
    BY <1>1, <2>1 DEF Inv, DataInv, Sound, FinalAll, SummaryAll, All
  <2>2. CASE ~done /\ force.pc \in {"chapters", "done"}
    BY <1>1, <2>2 DEF Inv, ForceInv, Sound, Untouched
  <2>3. CASE ~done /\ force.pc \in {"none", "log"}
    <3>1. \A c \in Flagged : c.whole /\ c.gen = gen
      BY <1>1, <2>3 DEF Inv, DataInv, Sound, Flagged
    <3>2. t \in Covered => <<t, gen>> \in DataOf(Flagged)
      <4>1. SUFFICES ASSUME NEW c \in Flagged, t \in c.of
                     PROVE  <<t, gen>> \in DataOf(Flagged)
        BY DEF Covered
      <4>2. c \in {d \in Flagged : d.whole} /\ <<t, gen>> \in c.of \X {c.gen}
        BY <3>1, <4>1
      <4>3. QED
        BY <4>2 DEF DataOf
    <3>3. QED
      BY <1>1, <2>3, <3>2 DEF Inv, DataInv, Sound
  <2>4. QED
    BY <1>1, <2>1, <2>2, <2>3 DEF Inv, TypeOK, Forces
<1>2. Inv => NothingLost
  BY <1>1 DEF NothingLost
<1>3. QED
  BY Invariance, <1>2, PTL

(* The .done flag stands for the whole series of the last simulation.      *)
THEOREM DoneCertifies == Spec => []DoneIsWhole
<1>1. Inv => DoneIsWhole
  BY DEF Inv, DataInv, DoneIsWhole, FinalAll, SummaryAll
<1>2. QED
  BY Invariance, <1>1, PTL

(* A part of a series is never at its path, save one being reclaimed.      *)
THEOREM PublishedWhole == Spec => []PublishedIsWhole
<1>1. Inv => PublishedIsWhole
  BY DEF Inv, PublishInv
<1>2. QED
  BY Invariance, <1>1, PTL

(* What is flagged as processed is of the last simulation.                 *)
THEOREM FreshResults == Spec => []ResultsAreFresh
<1>1. Inv => ResultsAreFresh
  BY DEF Inv, PassInv, DataInv, ResultsAreFresh, SummaryAll
<1>2. QED
  BY Invariance, <1>1, PTL
=============================================================================
