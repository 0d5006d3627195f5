-------------------------- MODULE MigrationProofs --------------------------
(***************************************************************************)
(* Proofs about Migration, for any processes, versions and faults.  The    *)
(* invariant says of the records that commands carry what HistoryIsChain   *)
(* says of the one on disk.                                                *)
(***************************************************************************)
EXTENDS Migration, SequenceTheorems, TLAPS

Local(l, j) ==
  /\ Chain(j.new)
  /\ l \in {"check", "plan", "exec", "record", "recording"} => j.act \in {"apply", "dry"}
  /\ l \notin {"idle", "produce"} /\ j.act \in {"apply", "dry"} => j.at < j.goal
Locals == \A p \in Process : Local(pc[p], job[p])
Inv == TypeOK /\ HistoryIsChain /\ Locals

(* What a record is.                                                       *)
LEMMA WrittenFacts ==
  \A v \in Versions, h \in Seq(1..Last) :
    /\ Ok(v, h) \in Written /\ Ok(v, h).version = v
    /\ Ok(v, h).history = h /\ Ok(v, h).state = "ok"
BY DEF Written, Ok

LEMMA RecordFacts ==
  /\ Absent \in Records /\ Torn \in Records /\ Written \subseteq Records
  /\ \A r \in Records : r.history \in Seq(1..Last) /\ r.version \in Versions
  /\ \A r \in Records : r.state = "ok" => r \in Written
  /\ Absent.state = "absent" /\ Torn.state = "torn"
<1>1. Absent.state = "absent" /\ Torn.state = "torn"
      /\ Absent.version = 0 /\ Torn.version = 0 /\ Absent.history = <<>> /\ Torn.history = <<>>
  BY DEF Absent, Torn
<1>2. <<>> \in Seq(1..Last) /\ 0 \in Versions  BY DEF Versions, Last
<1>3. \A r \in Written : r.history \in Seq(1..Last) /\ r.version \in Versions  BY DEF Written
<1> QED BY <1>1, <1>2, <1>3 DEF Records

LEMMA EmptyChains ==
  /\ Chain(Absent) /\ Chain(Torn)
  /\ \A v : Chain(Ok(v, <<>>))
BY DEF Chain, Absent, Torn, Ok

LEMMA NoJobType == NoJob \in Jobs /\ Chain(NoJob.new)
<1>1. <<>> \in Seq(Ops) /\ <<>> \in Seq(1..Last)  OBVIOUS
<1>2. Ok(0, <<>>) \in Written
  <2>1. 0 \in Versions  BY DEF Versions, Last
  <2> QED BY <1>1, <2>1, WrittenFacts
<1> QED BY <1>1, <1>2, RecordFacts, EmptyChains DEF NoJob, Jobs, Acts, Versions, Last

(* Appending a later version keeps the chain.                              *)
LEMMA ChainGrows ==
  ASSUME NEW r \in Records, r.state = "ok", Chain(r), r.version + 1 \in Versions
  PROVE  LET s == Ok(r.version + 1, Append(r.history, r.version + 1))
         IN  s \in Written /\ Chain(s)
<1> DEFINE h == r.history  v == r.version  k == Append(h, v + 1)  s == Ok(v + 1, k)
<1>1. h \in Seq(1..Last) /\ v \in Versions /\ v + 1 \in 1..Last
  BY RecordFacts DEF Versions, Last
<1>2. k \in Seq(1..Last) /\ Len(k) = Len(h) + 1 /\ k[Len(h) + 1] = v + 1
      /\ \A i \in 1..Len(h) : k[i] = h[i]
  BY <1>1
<1>3. s \in Written /\ s.version = v + 1 /\ s.history = k
  BY <1>1, <1>2, WrittenFacts
<1>4. \A i \in 1..Len(k) : k[i] <= v + 1
  <2>1. TAKE i \in 1..Len(k)
  <2>2. CASE i = Len(h) + 1  BY <1>1, <1>2, <2>2 DEF Versions, Last
  <2>3. CASE i \in 1..Len(h)
    <3>1. h[i] <= v /\ h[i] \in 1..Last  BY <1>1, <2>3, ElementOfSeq DEF Chain
    <3> QED BY <1>1, <1>2, <2>3, <3>1 DEF Versions, Last
  <2> QED BY <1>1, <1>2, <2>2, <2>3, LenProperties
<1>5. \A i, j \in 1..Len(k) : i < j => k[i] < k[j]
  <2> SUFFICES ASSUME NEW i \in 1..Len(k), NEW j \in 1..Len(k), i < j PROVE k[i] < k[j]
    OBVIOUS
  <2>0. Len(h) \in Nat /\ i \in 1..Len(h)  BY <1>1, <1>2, LenProperties
  <2>1. h[i] <= v /\ h[i] \in 1..Last  BY <1>1, <2>0, ElementOfSeq DEF Chain
  <2>2. CASE j = Len(h) + 1  BY <1>1, <1>2, <2>0, <2>1, <2>2 DEF Versions, Last
  <2>3. CASE j \in 1..Len(h)  BY <1>2, <2>0, <2>3 DEF Chain
  <2> QED BY <1>2, <2>0, <2>2, <2>3
<1> HIDE DEF h, v, k, s
<1>6. Chain(s)  BY <1>3, <1>4, <1>5 DEF Chain
<1> QED BY <1>3, <1>6 DEF s, k, h, v

---------------------------------------------------------------------------
(* One process moves on.                                                   *)

LEMMA TakesStep ==
  ASSUME Inv, NEW p \in Process, NEW l \in Pc, NEW j \in Jobs, Local(l, j), Takes(p, l, j)
  PROVE  pc' \in [Process -> Pc] /\ job' \in [Process -> Jobs] /\ Locals'
<1>1. pc' = [pc EXCEPT ![p] = l] /\ job' = [job EXCEPT ![p] = j]  BY DEF Takes
<1>2. pc \in [Process -> Pc] /\ job \in [Process -> Jobs]  BY DEF Inv, TypeOK
<1>3. \A q \in Process : Local(pc[q], job[q])  BY DEF Inv, Locals
<1>4. ASSUME NEW q \in Process PROVE Local(pc'[q], job'[q])
  <2>1. CASE q = p  BY <1>1, <1>2, <2>1
  <2>2. CASE q # p  BY <1>1, <1>2, <1>3, <2>2
  <2> QED BY <2>1, <2>2
<1>5. Locals'  BY <1>4 DEF Locals, Local, Chain
<1> QED BY <1>1, <1>2, <1>5

LEMMA GoesStep ==
  ASSUME Inv, NEW p \in Process, NEW l \in Pc, Local(l, job[p]), Goes(p, l)
  PROVE  pc' \in [Process -> Pc] /\ job' \in [Process -> Jobs] /\ Locals'
<1>1. job \in [Process -> Jobs]  BY DEF Inv, TypeOK
<1>2. job[p] \in Jobs /\ job' = [job EXCEPT ![p] = job[p]]  BY <1>1 DEF Goes
<1>3. Takes(p, l, job[p])  BY <1>2 DEF Goes, Takes
<1> QED BY <1>2, <1>3, TakesStep

LEMMA EndsStep ==
  ASSUME Inv, NEW p \in Process, Ends(p)
  PROVE  pc' \in [Process -> Pc] /\ job' \in [Process -> Jobs] /\ Locals'
<1>1. "idle" \in Pc /\ Local("idle", NoJob)  BY NoJobType DEF Pc, Local
<1> QED BY <1>1, NoJobType, TakesStep DEF Ends

(* What the invariant says of p.                                           *)
LEMMA Of ==
  ASSUME Inv, NEW p \in Process
  PROVE  /\ job[p] \in Jobs /\ pc[p] \in Pc /\ Local(pc[p], job[p])
         /\ job[p].new \in Written /\ job[p].at \in Versions
         /\ job[p].goal \in Versions /\ job[p].act \in Acts
<1>1. job[p] \in Jobs /\ pc[p] \in Pc /\ Local(pc[p], job[p])  BY DEF Inv, TypeOK, Locals
<1> QED BY <1>1 DEF Jobs

LEMMA CurrentType == ASSUME Inv, Current # Unknown PROVE Current \in Versions
<1>1. record \in Records  BY DEF Inv, TypeOK
<1>2. Infer(tree) \in Versions \cup {Unknown}  BY DEF Infer, Versions, Last, Unknown
<1> QED BY <1>1, <1>2, RecordFacts DEF Current

LEMMA InitInv == Init => Inv
<1> SUFFICES ASSUME Init PROVE Inv  OBVIOUS
<1>1. PICK v \in Starts, skips \in SUBSET Sims, flat \in Flats \ {"spent"}, raw \in BOOLEAN, run \in BOOLEAN :
        tree = TreeAt(v, skips, flat, raw, run) /\ record \in {Absent, Ok(v, <<>>)}
  BY DEF Init
<1>2. v \in Versions /\ <<>> \in Seq(1..Last)  BY MigrationAssumption
<1>3. record \in Records /\ HistoryIsChain
  <2>1. Ok(v, <<>>) \in Written  BY <1>2, WrittenFacts
  <2>2. Ok(v, <<>>) \in Records /\ Absent \in Records  BY <2>1, RecordFacts
  <2>3. Chain(record)  BY <1>1, EmptyChains
  <2> QED BY <1>1, <2>2, <2>3 DEF HistoryIsChain
<1>4. tree \in Trees
  <2>1. /\ TreeAt(v, skips, flat, raw, run).ana \in SUBSET Parts
        /\ TreeAt(v, skips, flat, raw, run).exp \in SUBSET Parts
    BY DEF TreeAt, Parts, Demoted, Produced
  <2> QED BY <1>1, <2>1 DEF TreeAt, Trees
<1>5. \A p \in Process : pc[p] = "idle" /\ job[p] = NoJob /\ Local(pc[p], job[p])
  BY NoJobType DEF Init, Local
<1>6. TypeOK  BY <1>3, <1>4, NoJobType DEF Init, TypeOK, Pc
<1> QED BY <1>3, <1>5, <1>6 DEF Inv, Locals
---------------------------------------------------------------------------
(* The steps: type correctness, the chain and the carried records.         *)

LEMMA MigrateInv ==
  ASSUME Inv, NEW p \in Process, NEW act \in {"apply", "dry"}, NEW goal \in Goals, Migrate(p, act, goal)
  PROVE  Inv'
<1> DEFINE j == [NoJob EXCEPT !.act = act, !.at = Current, !.goal = goal]
           l == IF act = "apply" THEN "check" ELSE "plan"
<1>1. Current \in Versions /\ goal \in Versions /\ goal > Current
  BY CurrentType, MigrationAssumption DEF Migrate
<1>2. j \in Jobs /\ j.new = NoJob.new /\ j.act = act /\ j.at = Current /\ j.goal = goal
  BY <1>1, NoJobType DEF Jobs, NoJob, Acts
<1>3. l \in Pc  BY DEF Pc
<1>4. Local(l, j)  BY <1>1, <1>2, NoJobType DEF Local, Versions
<1> HIDE DEF j, l
<1>5. Takes(p, l, j)  BY DEF Migrate, l, j
<1>6. pc' \in [Process -> Pc] /\ job' \in [Process -> Jobs] /\ Locals'  BY <1>2, <1>3, <1>4, <1>5, TakesStep
<1>7. spoilt' \subseteq Spoils /\ UNCHANGED <<record, lock, tree>>
  BY DEF Migrate, Spoil, Inv, TypeOK, Spoils
<1>8. record \in Records /\ lock \in Process \cup {NoProcess} /\ tree \in Trees /\ Chain(record)
  BY DEF Inv, TypeOK, HistoryIsChain
<1> QED BY <1>6, <1>7, <1>8 DEF Inv, TypeOK, HistoryIsChain, Chain

(* A step that moves one process and leaves the files alone.               *)
LEMMA QuietInv ==
  ASSUME Inv, UNCHANGED record, lock' \in Process \cup {NoProcess}, tree' \in Trees,
         spoilt' \subseteq Spoils, pc' \in [Process -> Pc], job' \in [Process -> Jobs], Locals'
  PROVE  Inv'
<1>1. record \in Records /\ Chain(record)  BY DEF Inv, TypeOK, HistoryIsChain
<1> QED BY <1>1 DEF Inv, TypeOK, HistoryIsChain, Chain

LEMMA FilesType ==
  ASSUME Inv
  PROVE  record \in Records /\ lock \in Process \cup {NoProcess} /\ tree \in Trees /\ spoilt \subseteq Spoils
         /\ Chain(record)
BY DEF Inv, TypeOK, HistoryIsChain

LEMMA CheckInv == ASSUME Inv, NEW p \in Process, Check(p) PROVE Inv'
<1>1. Local("plan", job[p]) /\ Local("stamp", job[p]) /\ "plan" \in Pc /\ "stamp" \in Pc
  BY Of DEF Check, Local, Pc
<1>2. Ends(p) \/ Goes(p, "plan") \/ Goes(p, "stamp")  BY DEF Check
<1>3. pc' \in [Process -> Pc] /\ job' \in [Process -> Jobs] /\ Locals'
  BY <1>1, <1>2, EndsStep, GoesStep
<1> QED BY <1>3, FilesType, QuietInv DEF Check

LEMMA FacadeInv ==
  ASSUME Inv, NEW p \in Process, NEW act \in {"fresh", "construction"}, Facade(p, act) PROVE Inv'
<1> DEFINE j == [NoJob EXCEPT !.act = act, !.at = Last]
<1>0. Last \in Versions  BY DEF Versions, Last
<1>1. j \in Jobs /\ j.new = NoJob.new /\ j.act = act
  BY <1>0, NoJobType DEF Jobs, NoJob, Acts
<1>2. Local("stamp", j) /\ "stamp" \in Pc  BY <1>1, NoJobType DEF Local, Pc
<1> HIDE DEF j
<1>3. Takes(p, "stamp", j)  BY DEF Facade, j
<1>4. pc' \in [Process -> Pc] /\ job' \in [Process -> Jobs] /\ Locals'  BY <1>1, <1>2, <1>3, TakesStep
<1> QED BY <1>4, FilesType, QuietInv DEF Facade

(* What a command does once the record is as it wants it.                  *)
LEMMA StampedStep ==
  ASSUME Inv, NEW p \in Process, pc[p] \in {"stamp", "writing"}, Stamped(p)
  PROVE  pc' \in [Process -> Pc] /\ job' \in [Process -> Jobs] /\ Locals'
<1> DEFINE j == [job[p] EXCEPT !.new = NoJob.new]
<1>1. job[p] \in Jobs /\ Local(pc[p], job[p])  BY Of
<1>2. NoJob.new \in Written  BY NoJobType DEF Jobs
<1>3. j \in Jobs /\ j.new = NoJob.new /\ j.act = job[p].act /\ j.at = job[p].at /\ j.goal = job[p].goal
  BY <1>1, <1>2 DEF Jobs
<1> HIDE DEF j
<1>4. Applying(p) => Local("plan", j)  BY <1>1, <1>3, NoJobType DEF Local, Applying
<1>5. Local("produce", NoJob)  BY NoJobType DEF Local
<1>6. "plan" \in Pc /\ "produce" \in Pc  BY DEF Pc
<1>7. \/ Applying(p) /\ Takes(p, "plan", j)
      \/ Takes(p, "produce", NoJob)
      \/ Ends(p)
  BY DEF Stamped, j
<1> QED BY <1>3, <1>4, <1>5, <1>6, <1>7, NoJobType, TakesStep, EndsStep

LEMMA StampInv == ASSUME Inv, NEW p \in Process, Stamp(p) PROVE Inv'
<1> DEFINE j == [job[p] EXCEPT !.new = Ok(job[p].at, <<>>)]
<1>1. job[p] \in Jobs /\ job[p].at \in Versions /\ Local("stamp", job[p])  BY Of DEF Stamp
<1>2. Ok(job[p].at, <<>>) \in Written /\ Absent \in Records
  <2>1. <<>> \in Seq(1..Last)  OBVIOUS
  <2> QED BY <1>1, <2>1, WrittenFacts, RecordFacts
<1>3. j \in Jobs /\ j.new = Ok(job[p].at, <<>>) /\ j.act = job[p].act
      /\ j.at = job[p].at /\ j.goal = job[p].goal
  BY <1>1, <1>2 DEF Jobs
<1>4. Local("write", j) /\ "write" \in Pc  BY <1>1, <1>3, EmptyChains DEF Local, Pc
<1> HIDE DEF j
<1>6. pc[p] = "stamp" /\ (Takes(p, "write", j) \/ Stamped(p) \/ Ends(p))  BY DEF Stamp, j
<1>7. pc' \in [Process -> Pc] /\ job' \in [Process -> Jobs] /\ Locals'
  BY <1>3, <1>4, <1>6, TakesStep, StampedStep, EndsStep
<1>8. spoilt' \subseteq Spoils  BY FilesType DEF Stamp, Spoil, Spoils
<1> QED BY <1>7, <1>8, FilesType, QuietInv DEF Stamp

LEMMA BaselineInv ==
  ASSUME Inv, NEW p \in Process, NEW v \in Restated, NEW force \in BOOLEAN, Baseline(p, v, force)
  PROVE  Inv'
<1> DEFINE h == IF v < record.version THEN <<>> ELSE record.history
           j == [NoJob EXCEPT !.act = "baseline", !.at = v]
           k == [j EXCEPT !.new = Ok(v, h)]
<1>1. v \in Versions /\ record \in Records /\ Chain(record) /\ record.version \in Versions
      /\ record.history \in Seq(1..Last)
  BY MigrationAssumption, FilesType, RecordFacts
<1>2. h \in Seq(1..Last) /\ Ok(v, h) \in Written
  <2>1. <<>> \in Seq(1..Last)  OBVIOUS
  <2>2. h \in Seq(1..Last)  BY <1>1, <2>1
  <2> HIDE DEF h
  <2> QED BY <1>1, <2>2, WrittenFacts
<1>3. Chain(Ok(v, h))
  <2>1. CASE v < record.version  BY <2>1, EmptyChains
  <2>2. CASE ~(v < record.version)
    <3>1. Ok(v, h).history = record.history /\ Ok(v, h).version = v /\ v >= record.version
      BY <1>1, <1>2, <2>2, WrittenFacts DEF Versions, Last
    <3>2. \A i \in 1..Len(record.history) : record.history[i] \in 1..Last
      BY <1>1, ElementOfSeq
    <3>3. \A i \in 1..Len(record.history) : record.history[i] <= v
      BY <1>1, <3>1, <3>2 DEF Chain, Versions, Last
    <3> QED BY <1>1, <3>1, <3>3 DEF Chain
  <2> QED BY <2>1, <2>2
<1>4. j \in Jobs /\ j.new = NoJob.new /\ j.act = "baseline"
  BY <1>1, NoJobType DEF Jobs, NoJob, Acts
<1> HIDE DEF h, j
<1>5. k \in Jobs /\ k.new = Ok(v, h) /\ k.act = "baseline"
  BY <1>1, <1>2, <1>4 DEF Jobs
<1> HIDE DEF k
<1>6. Local("stamp", j) /\ Local("write", k) /\ "stamp" \in Pc /\ "write" \in Pc
  BY <1>1, <1>3, <1>4, <1>5, NoJobType DEF Local, Pc
<1>7. Takes(p, "stamp", j) \/ Takes(p, "write", k)  BY DEF Baseline, j, k, h
<1>8. pc' \in [Process -> Pc] /\ job' \in [Process -> Jobs] /\ Locals'
  BY <1>4, <1>5, <1>6, <1>7, TakesStep
<1> QED BY <1>8, FilesType, QuietInv DEF Baseline

LEMMA AcquireInv == ASSUME Inv, NEW p \in Process, Acquire(p) PROVE Inv'
<1>1. pc[p] = "write" => Local("writing", job[p]) /\ Goes(p, "writing") /\ "writing" \in Pc
  BY Of DEF Acquire, Local, Pc
<1>2. pc[p] # "write" => Local("recording", job[p]) /\ Goes(p, "recording") /\ "recording" \in Pc
  BY Of DEF Acquire, Local, Pc
<1>3. pc' \in [Process -> Pc] /\ job' \in [Process -> Jobs] /\ Locals'  BY <1>1, <1>2, GoesStep
<1> QED BY <1>3, FilesType, QuietInv DEF Acquire

LEMMA TimesOutInv == ASSUME Inv, NEW p \in Process, TimesOut(p) PROVE Inv'
BY EndsStep, FilesType, QuietInv DEF TimesOut

LEMMA WriteInv == ASSUME Inv, NEW p \in Process, Write(p) PROVE Inv'
<1>1. job[p].new \in Written /\ Chain(job[p].new)  BY Of DEF Local
<1>2. record' \in Records /\ HistoryIsChain'
  <2>1. record' = job[p].new  BY DEF Write
  <2> QED BY <1>1, <2>1, RecordFacts DEF HistoryIsChain, Chain
<1>3. pc' \in [Process -> Pc] /\ job' \in [Process -> Jobs] /\ Locals'
  BY StampedStep DEF Write
<1>4. lock' = NoProcess /\ tree' = tree /\ spoilt' \subseteq Spoils
  BY FilesType DEF Write, Spoils
<1> QED BY <1>2, <1>3, <1>4, FilesType DEF Inv, TypeOK

LEMMA AdvancesStep ==
  ASSUME Inv, NEW p \in Process, pc[p] \in {"plan", "recording"}, Advances(p)
  PROVE  pc' \in [Process -> Pc] /\ job' \in [Process -> Jobs] /\ Locals'
<1> DEFINE j == [job[p] EXCEPT !.at = @ + 1]
<1>1. job[p] \in Jobs /\ Local(pc[p], job[p])  BY Of
<1>2. job[p].at < job[p].goal /\ job[p].at \in Versions /\ job[p].goal \in Versions
  BY <1>1, Of DEF Local
<1>3. job[p].at + 1 # job[p].goal => job[p].at + 1 < job[p].goal /\ job[p].at + 1 \in Versions
  BY <1>2 DEF Versions, Last
<1>4. job[p].at + 1 # job[p].goal => j \in Jobs /\ Local("plan", j)
  BY <1>1, <1>3 DEF Jobs, Local
<1> HIDE DEF j
<1>5. job[p].at + 1 # job[p].goal => Takes(p, "plan", j)  BY DEF Advances, j
<1>6. job[p].at + 1 = job[p].goal => Ends(p)  BY DEF Advances
<1> QED BY <1>4, <1>5, <1>6, TakesStep, EndsStep DEF Pc

LEMMA RecordInv == ASSUME Inv, NEW p \in Process, Record(p) PROVE Inv'
<1>1. CASE Has /\ record.version = job[p].at
  <2>1. job[p].at < job[p].goal /\ job[p].at \in Versions /\ job[p].goal \in Versions
    BY Of DEF Record, Local
  <2>2. record.version + 1 \in Versions  BY <1>1, <2>1 DEF Versions, Last
  <2>3. record' = Ok(record.version + 1, Append(record.history, record.version + 1)) /\ Advances(p)
    BY <1>1 DEF Record
  <2>4. record' \in Written /\ Chain(record')
    BY <1>1, <2>2, <2>3, FilesType, ChainGrows DEF Has
  <2>5. record' \in Records /\ HistoryIsChain'  BY <2>4, RecordFacts DEF HistoryIsChain, Chain
  <2>6. pc' \in [Process -> Pc] /\ job' \in [Process -> Jobs] /\ Locals'
    BY <2>3, AdvancesStep DEF Record
  <2> QED BY <2>5, <2>6, FilesType DEF Inv, TypeOK, Record
<1>2. CASE ~(Has /\ record.version = job[p].at)
  <2>1. Ends(p) /\ UNCHANGED record  BY <1>2 DEF Record
  <2> QED BY <2>1, EndsStep, FilesType, QuietInv DEF Record
<1> QED BY <1>1, <1>2

LEMMA PlanType == \A v \in 1..Last : \A t : PlanOf(v, t) \in Seq(Ops)
<1>1. "rename" \in Ops /\ "datatree" \in Ops /\ "convention" \in Ops /\ "unify" \in Ops
      /\ "move_dir" \in Ops /\ "replace" \in Ops
  BY DEF Ops
<1>2. <<>> \in Seq(Ops) /\ <<"rename">> \in Seq(Ops) /\ <<"datatree">> \in Seq(Ops)
      /\ <<"convention">> \in Seq(Ops) /\ <<"unify", "move_dir">> \in Seq(Ops) /\ <<"replace">> \in Seq(Ops)
  BY <1>1
<1> QED BY <1>2 DEF PlanOf, Last

LEMMA PlanInv == ASSUME Inv, NEW p \in Process, Plan(p) PROVE Inv'
<1> DEFINE v == job[p].at + 1
           j == [job[p] EXCEPT !.ops = PlanOf(v, tree)]
<1>1. job[p] \in Jobs /\ Local("plan", job[p]) /\ job[p].at \in Versions /\ job[p].goal \in Versions
  BY Of DEF Plan
<1>2. v \in 1..Last  BY <1>1 DEF Local, Versions, Last
<1>3. PlanOf(v, tree) \in Seq(Ops)  BY <1>2, PlanType
<1>4. j \in Jobs /\ Local("exec", j)  BY <1>1, <1>3 DEF Jobs, Local
<1>5. tree' \in Trees
  <2>1. tree \in Trees /\ tree' = Backfilled(v, tree)  BY FilesType DEF Plan
  <2>2. [tree EXCEPT !.ana = @ \cup {"attrs"}] \in Trees  BY <2>1 DEF Trees, Parts
  <2> QED BY <2>1, <2>2 DEF Backfilled
<1> HIDE DEF j
<1>6. Applying(p) => Takes(p, "exec", j)  BY DEF Plan, j
<1>7. ~Applying(p) => Advances(p)  BY DEF Plan
<1>8. pc' \in [Process -> Pc] /\ job' \in [Process -> Jobs] /\ Locals'
  <2>1. CASE Applying(p)  BY <1>4, <1>6, <2>1, TakesStep DEF Pc
  <2>2. CASE ~Applying(p)  BY <1>7, <2>2, AdvancesStep DEF Plan
  <2> QED BY <2>1, <2>2
<1> QED BY <1>5, <1>8, FilesType, QuietInv DEF Plan

LEMMA PlanFailsInv == ASSUME Inv, NEW p \in Process, PlanFails(p) PROVE Inv'
BY EndsStep, FilesType, QuietInv DEF PlanFails

(* Executing: the operations left are operations, the tree a tree.         *)
LEMMA DoesInv ==
  ASSUME Inv, NEW p \in Process, pc[p] = "exec", NEW t \in Trees, NEW ops \in Seq(Ops), Does(p, t, ops)
  PROVE  Inv'
<1> DEFINE j == [job[p] EXCEPT !.ops = ops]
<1>1. job[p] \in Jobs /\ Local("exec", job[p])  BY Of
<1>2. j \in Jobs /\ Local("exec", j) /\ "exec" \in Pc  BY <1>1 DEF Jobs, Local, Pc
<1> HIDE DEF j
<1>3. Takes(p, "exec", j)  BY DEF Does, j
<1>4. pc' \in [Process -> Pc] /\ job' \in [Process -> Jobs] /\ Locals'  BY <1>2, <1>3, TakesStep
<1> QED BY <1>4, FilesType, QuietInv DEF Does

LEMMA RaisesInv == ASSUME Inv, NEW p \in Process, Raises(p) PROVE Inv'
BY EndsStep, FilesType, QuietInv DEF Raises

LEMMA RestType ==
  ASSUME Inv, NEW p \in Process, job[p].ops # <<>>
  PROVE  job[p].ops \in Seq(Ops) /\ Rest(p) \in Seq(Ops)
         /\ <<"mint", "move", "params">> \o Rest(p) \in Seq(Ops)
         /\ <<"rmroot", "swap">> \o Rest(p) \in Seq(Ops)
<1>1. job[p].ops \in Seq(Ops)  BY Of DEF Jobs
<1>2. Rest(p) \in Seq(Ops)  BY <1>1, HeadTailProperties DEF Rest
<1>3. <<"mint", "move", "params">> \in Seq(Ops) /\ <<"rmroot", "swap">> \in Seq(Ops)
  BY DEF Ops
<1> QED BY <1>1, <1>2, <1>3, ConcatProperties

LEMMA ExecuteInv == ASSUME Inv, NEW p \in Process, Execute(p) PROVE Inv'
<1>0. tree \in Trees  BY FilesType
<1>1. CASE RenameDir(p)
  <2>1. pc[p] = "exec" /\ job[p].ops # <<>>  BY <1>1 DEF RenameDir, Doing
  <2>2. CASE tree.legacy \subseteq tree.skips
    BY <1>0, <1>1, <2>1, <2>2, RestType, DoesInv DEF RenameDir
  <2>3. CASE ~(tree.legacy \subseteq tree.skips)
    <3>1. PICK s \in tree.legacy \ tree.skips : Does(p, [tree EXCEPT !.legacy = @ \ {s}], job[p].ops)
      BY <1>1, <2>3 DEF RenameDir
    <3>2. [tree EXCEPT !.legacy = @ \ {s}] \in Trees  BY <1>0 DEF Trees
    <3> QED BY <2>1, <3>1, <3>2, RestType, DoesInv
  <2> QED BY <2>2, <2>3
<1>2. CASE FlatToDatatree(p)
  <2>1. [tree EXCEPT !.ana = {"root", "kids"}] \in Trees  BY <1>0 DEF Trees, Parts
  <2> QED BY <1>0, <1>2, <2>1, RestType, DoesInv DEF FlatToDatatree, Doing
<1>3. CASE SetConvention(p)
  <2>1. [tree EXCEPT !.ana = @ \cup {"root", "conventions"}] \in Trees  BY <1>0 DEF Trees, Parts
  <2> QED BY <1>3, <2>1, RestType, DoesInv DEF SetConvention, Doing
<1>4. CASE Unify(p)
  <2>1. pc[p] = "exec" /\ job[p].ops # <<>>  BY <1>4 DEF Unify, Doing
  <2> QED BY <1>0, <1>4, <2>1, RestType, DoesInv DEF Unify
<1>5. CASE Mint(p)
  <2>1. [tree EXCEPT !.ana = (@ \ {"moved", "current"}) \cup {"member"}] \in Trees
    BY <1>0 DEF Trees, Parts
  <2> QED BY <1>5, <2>1, RestType, DoesInv DEF Mint, Doing
<1>6. CASE MoveGroups(p)
  <2>1. [tree EXCEPT !.ana = (@ \ {"kids"}) \cup {"member", "moved"}] \in Trees
    BY <1>0 DEF Trees, Parts
  <2>2. CASE "kids" \in tree.ana  BY <1>6, <2>1, <2>2, RestType, DoesInv DEF MoveGroups, Doing
  <2>3. CASE "kids" \notin tree.ana  BY <1>6, <2>3, RaisesInv DEF MoveGroups
  <2> QED BY <2>2, <2>3
<1>7. CASE AppendParameters(p)
  <2>1. [tree EXCEPT !.ana = @ \cup {"root", "params"}] \in Trees  BY <1>0 DEF Trees, Parts
  <2> QED BY <1>7, <2>1, RestType, DoesInv DEF AppendParameters, Doing
<1>8. CASE MoveDir(p)
  <2>1. [tree EXCEPT !.exp = tree.ana, !.ana = {}] \in Trees  BY <1>0 DEF Trees, Parts
  <2>2. CASE tree.ana # {} /\ tree.exp # {}  BY <1>8, <2>2, RaisesInv DEF MoveDir
  <2>3. CASE ~(tree.ana # {} /\ tree.exp # {})
    BY <1>0, <1>8, <2>1, <2>3, RestType, DoesInv DEF MoveDir, Doing
  <2> QED BY <2>2, <2>3
<1>9. CASE ReplaceValues(p)
  <2>1. [tree EXCEPT !.tmp = TRUE] \in Trees  BY <1>0 DEF Trees
  <2>2. pc[p] = "exec" /\ job[p].ops # <<>>  BY <1>9 DEF ReplaceValues, Doing
  <2>3. \/ Does(p, [tree EXCEPT !.tmp = TRUE], <<"rmroot", "swap">> \o Rest(p))
        \/ Does(p, tree, Rest(p))
        \/ Raises(p)
    BY <1>9 DEF ReplaceValues
  <2> QED BY <1>0, <2>1, <2>2, <2>3, RestType, DoesInv, RaisesInv
<1>10. CASE RemoveStore(p)
  <2>1. [tree EXCEPT !.raw = "lost"] \in Trees  BY <1>0 DEF Trees
  <2>2. \/ Does(p, [tree EXCEPT !.raw = "lost"], Rest(p))
        \/ Raises(p)
    BY <1>10 DEF RemoveStore
  <2> QED BY <1>10, <2>1, <2>2, RestType, DoesInv, RaisesInv DEF RemoveStore, Doing
<1>11. CASE SwapStore(p)
  <2>1. [tree EXCEPT !.raw = "new", !.tmp = FALSE] \in Trees  BY <1>0 DEF Trees
  <2>2. \/ Does(p, [tree EXCEPT !.raw = "new", !.tmp = FALSE], Rest(p))
        \/ Raises(p)
    BY <1>11 DEF SwapStore
  <2> QED BY <1>11, <2>1, <2>2, RestType, DoesInv, RaisesInv DEF SwapStore, Doing
<1>12. CASE Executed(p)
  <2>1. Local("record", job[p]) /\ Goes(p, "record") /\ "record" \in Pc
    BY <1>12, Of DEF Executed, Local, Pc
  <2> QED BY <1>12, <2>1, GoesStep, FilesType, QuietInv DEF Executed
<1> QED BY <1>1, <1>2, <1>3, <1>4, <1>5, <1>6, <1>7, <1>8, <1>9, <1>10, <1>11, <1>12 DEF Execute

(* A run that was let in.                                                  *)
LEMMA ProducesInv ==
  ASSUME Inv, NEW p \in Process, ClearStores(p) \/ Consolidate(p) \/ ProducesNothing(p) PROVE Inv'
<1>0. tree \in Trees  BY FilesType
<1>1. CASE ClearStores(p)
  <2>1. UNCHANGED <<record, lock, spoilt, pc, job>>  BY <1>1 DEF ClearStores, Produces
  <2>2. tree' \in Trees
    <3> DEFINE flat == IF tree.flat = "summaries" THEN "spent" ELSE tree.flat
    <3>1. flat \in Flats  BY <1>0 DEF Trees, Flats
    <3> HIDE DEF flat
    <3>2. [tree EXCEPT !.exp = {}, !.flat = flat] \in Trees /\ [tree EXCEPT !.ana = {}, !.flat = flat] \in Trees
      BY <1>0, <3>1 DEF Trees
    <3> QED BY <1>1, <3>2 DEF ClearStores, Produces, flat
  <2>3. Locals'  BY <2>1 DEF Inv, Locals, Local, Chain
  <2> QED BY <2>1, <2>2, <2>3, FilesType, QuietInv DEF Inv, TypeOK
<1>2. CASE Consolidate(p)
  <2>1. [tree EXCEPT !.ana = Produced] \in Trees  BY <1>0 DEF Trees, Parts, Produced
  <2> QED BY <1>2, <2>1, EndsStep, FilesType, QuietInv DEF Consolidate, Produces
<1>3. CASE ProducesNothing(p)
  BY <1>3, EndsStep, FilesType, QuietInv DEF ProducesNothing
<1> QED BY <1>1, <1>2, <1>3

LEMMA DieInv == ASSUME Inv, NEW p \in Process, Die(p) PROVE Inv'
<1>1. Ends(p) /\ UNCHANGED <<record, tree>> /\ lock' \in {NoProcess, lock}  BY DEF Die
<1>2. spoilt' \subseteq Spoils  BY FilesType DEF Die, Spoil, Spoils
<1> QED BY <1>1, <1>2, EndsStep, FilesType, QuietInv

LEMMA EnvironmentInv == ASSUME Inv, Damage \/ Discard PROVE Inv'
<1>1. record' \in Records /\ HistoryIsChain'
  BY RecordFacts, EmptyChains DEF Damage, Discard, HistoryIsChain, Chain
<1>2. UNCHANGED <<lock, tree, pc, job, spoilt>>  BY DEF Damage, Discard
<1>3. Locals'  BY <1>2 DEF Inv, Locals, Local, Chain
<1> QED BY <1>1, <1>2, <1>3 DEF Inv, TypeOK

LEMMA NextInv == Inv /\ [Next]_vars => Inv'
<1> SUFFICES ASSUME Inv, [Next]_vars PROVE Inv'  OBVIOUS
<1>1. CASE UNCHANGED vars
  BY <1>1 DEF vars, Inv, TypeOK, HistoryIsChain, Locals, Local, Chain
<1>2. CASE Damage \/ Discard  BY <1>2, EnvironmentInv
<1>3. CASE Next /\ ~(Damage \/ Discard)
  <2>1. PICK p \in Process :
          \/ \E act \in {"apply", "dry"}, goal \in Goals : Migrate(p, act, goal)
          \/ \E act \in {"fresh", "construction"} : Facade(p, act)
          \/ \E v \in Restated, force \in BOOLEAN : Baseline(p, v, force)
          \/ Check(p) \/ Stamp(p) \/ Acquire(p) \/ TimesOut(p) \/ Write(p) \/ Record(p)
          \/ Plan(p) \/ PlanFails(p) \/ Execute(p) \/ Die(p)
          \/ ClearStores(p) \/ Consolidate(p) \/ ProducesNothing(p)
    BY <1>3 DEF Next
  <2> QED BY <2>1, MigrateInv, FacadeInv, BaselineInv, CheckInv, StampInv, AcquireInv, TimesOutInv,
             WriteInv, RecordInv, PlanInv, PlanFailsInv, ExecuteInv, DieInv, ProducesInv
<1> QED BY <1>1, <1>2, <1>3

(* Type correctness, for any processes, versions and faults.               *)
THEOREM TypeCorrect == Spec => []TypeOK
<1>1. Inv => TypeOK  BY DEF Inv
<1> QED BY <1>1, InitInv, NextInv, PTL DEF Spec

(* The history is a chain, whatever runs, dies and races.                  *)
THEOREM HistoryHolds == Spec => []HistoryIsChain
<1>1. Inv => HistoryIsChain  BY DEF Inv
<1> QED BY <1>1, InitInv, NextInv, PTL DEF Spec

---------------------------------------------------------------------------
(* The record is truthful.  In a tree that is not spoilt one process at    *)
(* most applies migrations, and none while a run is at work; the tree is   *)
(* that of the version the applier is at, or halfway to the next, at the   *)
(* place its remaining operations tell; and the record says the version it *)
(* is at, or the latest, of a tree in which there was nothing to migrate.  *)

Full == {"root", "kids", "attrs", "conventions"}
Stores(t) == t.ana \in {{}, {"root", "kids"}, {"root", "kids", "attrs"}, Full, Produced, Demoted}
Raw(t) == t.raw # "lost"
Steady(t) == Stores(t) /\ Raw(t)

(* A tree of some version, or on its way to the next.  Where V0001 skipped *)
(* an entry the ladder is stuck at its first rung, and says nothing false. *)
Shape(t) ==
  /\ t.skips \subseteq t.legacy
  /\ t.exp # {} \/ t.ana # {} => t.legacy \subseteq t.skips
  /\ t.exp \in {{}, Demoted}
  /\ t.skips = {} /\ t.exp # {} => t.ana \in {{}, Produced}
  /\ "current" \in t.ana => t.ana = Produced
  /\ t.flat = "none" => t.raw = "none"

(* What v has been migrated to, and a lower bound on v.                    *)
Near(v, t) ==
  /\ Applied(v, t)
  /\ t.skips = {} => (t.exp # {} => v >= 2) /\ ("current" \in t.ana => v >= 4)

(* Nothing to migrate: at most what the current build has produced.        *)
Bare(t) ==
  /\ t.legacy = {} /\ t.skips = {} /\ t.exp = {} /\ t.flat = "none" /\ t.raw = "none"
  /\ t.ana \in {{}, Produced}

(* What the single applier of an unspoilt tree has done of migration at+1. *)
Halfway(j, t) ==
  \/ j.at = 0 /\ Steady(t) /\ \/ j.ops = <<"rename">>
                              \/ j.ops = <<>> /\ t.legacy \subseteq t.skips
  \/ j.at = 1 /\ Steady(t) /\ \/ j.ops = <<"datatree">> /\ Summaries(t)
                              \/ j.ops = <<>> /\ Applied(2, t)
  \/ j.at = 2 /\ Steady(t) /\ \/ j.ops = <<"convention">> /\ "attrs" \in t.ana
                              \/ j.ops = <<>> /\ Applied(3, t)
  \/ j.at = 3 /\ Raw(t) /\ \/ j.ops = <<"unify", "move_dir">> /\ t.ana \in {Full, Produced, Demoted}
                           \/ j.ops = <<"mint", "move", "params", "move_dir">> /\ t.ana \in {Full, Produced}
                           \/ j.ops = <<"move", "params", "move_dir">> /\ t.ana = Full \cup {"member"}
                           \/ j.ops = <<"params", "move_dir">> /\ t.ana = Demoted \ {"params"}
                           \/ j.ops = <<"move_dir">> /\ t.ana = Demoted
                           \/ j.ops = <<>> /\ Stores(t) /\ Applied(4, t)
  \/ j.at = 4 /\ Stores(t) /\ \/ j.ops = <<"replace">> /\ t.raw = "old"
                              \/ j.ops = <<"rmroot", "swap">> /\ t.raw = "old" /\ t.tmp
                              \/ j.ops = <<"swap">> /\ t.raw = "lost" /\ t.tmp
                              \/ j.ops = <<>> /\ Applied(5, t)

Serves(p) ==
  /\ Near(job[p].at, tree)
  /\ Has => record.version = job[p].at \/ Bare(tree)
  /\ pc[p] = "exec" => Halfway(job[p], tree)
  /\ pc[p] \in {"record", "recording"} => Applied(job[p].at + 1, tree)

Alone == \A p, q \in Process : Applying(p) /\ Applying(q) => p = q
Busy == \E p \in Process : Applying(p) /\ pc[p] = "exec"

(* What a process that is about to stamp has decided.                      *)
Pending(p) ==
  /\ pc[p] \notin {"idle", "plan", "produce"} => job[p].act # "dry"
  /\ pc[p] \in {"write", "writing"} => job[p].new.version = job[p].at
  /\ pc[p] \in {"stamp", "write", "writing"} /\ job[p].act \in {"fresh", "construction"} =>
       /\ job[p].at = Last
       /\ Bare(tree) \/ (job[p].act = "fresh" /\ pc[p] = "stamp")

(* While a run is at work, the tree is the build's own.                    *)
Open ==
  /\ \A q \in Process : ~Applying(q)
  /\ Near(Last, tree)
  /\ Has => record.version = Last
Guests == (\E p \in Process : pc[p] = "produce") => Open

Truth ==
  /\ Shape(tree)
  /\ Busy \/ Steady(tree)
  /\ Has => Near(record.version, tree)
  /\ Alone
  /\ Guests
  /\ \A p \in Process : Applying(p) => pc[p] # "idle" /\ Serves(p)
  /\ \A p \in Process : Pending(p)
TInv == spoilt = {} => Truth

LEMMA TruthInit == Init => Truth
<1> SUFFICES ASSUME Init PROVE Truth  OBVIOUS
<1>1. PICK v \in Starts, skips \in SUBSET Sims, flat \in Flats \ {"spent"}, raw \in BOOLEAN, run \in BOOLEAN :
        /\ tree = TreeAt(v, skips, flat, raw, run) /\ record \in {Absent, Ok(v, <<>>)}
        /\ raw => flat = "summaries"
  BY DEF Init
<1>2. v \in {0, 1, 2, 3, 4, 5}  BY MigrationAssumption DEF Versions, Last
<1>3. tree.ana = CASE run /\ v = 5 -> Produced
                   [] flat = "summaries" /\ v = 2 -> {"root", "kids"}
                   [] flat = "summaries" /\ v = 3 -> Full
                   [] OTHER -> {}
  BY <1>1 DEF TreeAt, Full, Last
<1>4. /\ tree.legacy = (IF v = 0 THEN Sims ELSE skips) /\ tree.skips = skips /\ tree.flat = flat
      /\ tree.exp = (IF flat = "summaries" /\ v >= 4 THEN Demoted ELSE {})
      /\ tree.raw = (IF ~raw THEN "none" ELSE IF v >= 5 THEN "new" ELSE "old")
  BY <1>1 DEF TreeAt
<1>5. Shape(tree)  BY <1>1, <1>2, <1>3, <1>4 DEF Shape, Full, Produced
<1>6. Steady(tree)  BY <1>2, <1>3, <1>4 DEF Steady, Stores, Raw
<1>7. Near(v, tree)
  BY <1>2, <1>3, <1>4 DEF Near, Applied, Full, Produced, Demoted
<1>8. Has => record.version = v  BY <1>1 DEF Has, Absent, Ok
<1>9. \A p \in Process : pc[p] = "idle" /\ ~Applying(p)  BY DEF Init, Applying, NoJob
<1> QED BY <1>5, <1>6, <1>7, <1>8, <1>9 DEF Truth, Alone, Pending, Guests

(* What the ladder infers of such a tree.                                  *)
LEMMA LadderNear ==
  ASSUME NEW t \in Trees, Shape(t), Infer(t) # Unknown
  PROVE  Near(Infer(t), t)
<1>1. CASE t.legacy # {}
  BY <1>1 DEF Infer, Near, Applied, Shape
<1>2. CASE t.legacy = {} /\ t.exp # {}
  BY <1>2 DEF Infer, Near, Applied, Shape, Produced
<1>3. CASE t.legacy = {} /\ t.exp = {} /\ t.ana = {}
  BY <1>3 DEF Infer, Near, Applied, Shape, Unknown
<1>4. CASE t.legacy = {} /\ t.exp = {} /\ t.ana # {}
  BY <1>4 DEF Infer, Near, Applied, Shape, Unknown, Produced
<1> QED BY <1>1, <1>2, <1>3, <1>4

LEMMA HonestNear ==
  ASSUME NEW t \in Trees, NEW v \in Versions, Shape(t), IsVersion(v, t)
  PROVE  Near(v, t) /\ \A w \in Versions : Applied(w, t) => w <= v
<1>1. v \in {0, 1, 2, 3, 4, 5}  BY DEF Versions, Last
<1>2. Near(v, t)
  <2>1. CASE v \in {0, 1, 2, 3}  BY <2>1 DEF IsVersion, Near, Applied, Shape, Last, Produced
  <2>2. CASE v \in {4, 5}  BY <2>2 DEF IsVersion, Near
  <2> QED BY <1>1, <2>1, <2>2
<1>3. ASSUME NEW w \in Versions, Applied(w, t), ~(w <= v) PROVE FALSE
  <2>1. w >= v + 1 /\ v < 5  BY <1>3, <1>1 DEF Versions, Last
  <2>2. Applied(v + 1, t)  BY <1>1, <1>3, <2>1 DEF Applied
  <2> QED BY <2>1, <2>2 DEF IsVersion, Last
<1> QED BY <1>2, <1>3

(* A tree without artifacts has nothing to migrate.                        *)
LEMMA BareOf == ASSUME NEW t, Shape(t), ~Content(t) PROVE Bare(t)
BY DEF Shape, Content, Bare

(* A step of p that leaves record and tree alone.                          *)
LEMMA QuietTruth ==
  ASSUME Inv, Truth, NEW p \in Process, UNCHANGED <<record, tree>>, NEW l \in Pc, NEW j \in Jobs,
         Takes(p, l, j),
         (j.act = "apply") => /\ l \notin {"idle", "produce"} /\ Serves(p)'
                              /\ Applying(p) \/ \A q \in Process : ~Applying(q) /\ pc[q] # "produce",
         Pending(p)',
         l = "produce" => j.act # "apply" /\ Open,
         Applying(p) /\ pc[p] = "exec" => (j.act = "apply" /\ l = "exec") \/ Steady(tree)
  PROVE  Truth'
<1>1. pc' = [pc EXCEPT ![p] = l] /\ job' = [job EXCEPT ![p] = j]  BY DEF Takes
<1>2. pc \in [Process -> Pc] /\ job \in [Process -> Jobs]  BY DEF Inv, TypeOK
<1>3. pc'[p] = l /\ job'[p] = j /\ \A q \in Process \ {p} : pc'[q] = pc[q] /\ job'[q] = job[q]
  BY <1>1, <1>2
<1>4. \A q \in Process \ {p} : (Applying(q)' <=> Applying(q)) /\ (Serves(q)' <=> Serves(q))
                              /\ (Pending(q)' <=> Pending(q))
  BY <1>3 DEF Applying, Serves, Pending, Has
<1>5. Applying(p)' <=> j.act = "apply"  BY <1>3 DEF Applying
<1>6. Alone'
  <2>1. CASE j.act # "apply"  BY <1>4, <1>5, <2>1 DEF Truth, Alone
  <2>2. CASE j.act = "apply" /\ Applying(p)  BY <1>4, <1>5, <2>2 DEF Truth, Alone
  <2>3. CASE j.act = "apply" /\ ~Applying(p)  BY <1>4, <1>5, <2>3 DEF Truth, Alone
  <2> QED BY <2>1, <2>2, <2>3
<1>7. Busy' \/ Steady(tree)'
  <2>1. CASE Steady(tree)  BY <2>1
  <2>2. CASE ~Steady(tree)
    <3>1. PICK q \in Process : Applying(q) /\ pc[q] = "exec"  BY <2>2 DEF Truth, Busy
    <3>2. Applying(q)' /\ pc'[q] = "exec"  BY <1>3, <1>4, <1>5, <2>2, <3>1
    <3> QED BY <3>2 DEF Busy
  <2> QED BY <2>1, <2>2
<1>8. \A q \in Process : Applying(q)' => pc'[q] # "idle" /\ Serves(q)'
  BY <1>3, <1>4, <1>5 DEF Truth
<1>9. \A q \in Process : Pending(q)'  BY <1>4 DEF Truth
<1>10. Shape(tree)' /\ (Has' => Near(record.version, tree)')  BY DEF Truth, Has
<1>11. Guests'
  <2> SUFFICES ASSUME NEW q \in Process, pc'[q] = "produce" PROVE Open'  BY DEF Guests
  <2>1. Open
    <3>1. CASE q = p  BY <1>3, <3>1 DEF Truth, Guests
    <3>2. CASE q # p  BY <1>3, <3>2 DEF Truth, Guests
    <3> QED BY <3>1, <3>2
  <2>2. j.act # "apply"
    <3>1. CASE q = p  BY <1>3, <3>1
    <3>2. CASE q # p  BY <1>3, <2>1, <3>2 DEF Open
    <3> QED BY <3>1, <3>2
  <2> QED BY <1>4, <1>5, <2>1, <2>2 DEF Open, Has
<1> QED BY <1>6, <1>7, <1>8, <1>9, <1>10, <1>11 DEF Truth

LEMMA EndsTruth ==
  ASSUME Inv, Truth, NEW p \in Process, UNCHANGED <<record, tree>>, Ends(p), pc[p] = "exec" => Steady(tree)
  PROVE  Truth'
<1>1. NoJob.act = "dry" /\ NoJob \in Jobs /\ "idle" \in Pc  BY NoJobType DEF NoJob, Pc
<1>2. Takes(p, "idle", NoJob)  BY DEF Ends
<1>3. pc'[p] = "idle"  BY <1>2 DEF Takes, Inv, TypeOK
<1>4. Pending(p)'  BY <1>3 DEF Pending
<1> QED BY <1>1, <1>2, <1>4, QuietTruth

LEMMA GoesTruth ==
  ASSUME Inv, Truth, NEW p \in Process, UNCHANGED <<record, tree>>, NEW l \in Pc, Goes(p, l),
         l \notin {"idle", "produce"}, Applying(p) => Serves(p)', Pending(p)',
         pc[p] = "exec" => Steady(tree)
  PROVE  Truth'
<1>1. job[p] \in Jobs /\ job' = [job EXCEPT ![p] = job[p]]  BY DEF Goes, Inv, TypeOK
<1>2. Takes(p, l, job[p])  BY <1>1 DEF Goes, Takes
<1> QED BY <1>1, <1>2, QuietTruth DEF Applying

LEMMA CurrentNear ==
  ASSUME Inv, Truth, Current # Unknown
  PROVE  Near(Current, tree)
<1>1. CASE Has  BY <1>1 DEF Truth, Current
<1>2. CASE ~Has
  <2>1. record = Absent  BY <1>2 DEF Current
  <2>2. Current = Infer(tree)  BY <1>2, <2>1 DEF Current
  <2>3. Shape(tree) /\ tree \in Trees  BY FilesType DEF Truth
  <2> QED BY <2>2, <2>3, LadderNear
<1> QED BY <1>1, <1>2

LEMMA MigrateTruth ==
  ASSUME Inv, Truth, NEW p \in Process, NEW act \in {"apply", "dry"}, NEW goal \in Goals,
         Migrate(p, act, goal), spoilt' = {}
  PROVE  Truth'
<1> DEFINE j == [NoJob EXCEPT !.act = act, !.at = Current, !.goal = goal]
           l == IF act = "apply" THEN "check" ELSE "plan"
<1>1. Current \in Versions /\ goal \in Versions /\ pc[p] = "idle"
  BY CurrentType, MigrationAssumption DEF Migrate
<1>2. j \in Jobs /\ j.act = act /\ j.at = Current
  BY <1>1, NoJobType DEF Jobs, NoJob, Acts
<1>3. l \in Pc /\ l \notin {"idle", "stamp", "write", "writing", "exec", "record", "recording", "produce"}
      /\ (act = "dry" => l = "plan")
  BY DEF Pc
<1> HIDE DEF j, l
<1>4. Takes(p, l, j) /\ UNCHANGED <<record, tree>>  BY DEF Migrate, l, j
<1>5. pc'[p] = l /\ job'[p] = j  BY <1>4 DEF Takes, Inv, TypeOK
<1>6. act = "apply" => \A q \in Process : ~Applying(q) /\ pc[q] # "produce"
  BY DEF Migrate, Spoil, SomeApplies
<1>7. act = "apply" => Serves(p)'
  <2> SUFFICES ASSUME act = "apply" PROVE Serves(p)'  OBVIOUS
  <2>1. Near(Current, tree)  BY <1>6, CurrentNear DEF Migrate
  <2>2. Has => record.version = Current  BY DEF Current
  <2> QED BY <1>2, <1>3, <1>4, <1>5, <2>1, <2>2 DEF Serves, Has
<1>8. Pending(p)'  BY <1>2, <1>3, <1>5 DEF Pending
<1> QED BY <1>1, <1>2, <1>3, <1>4, <1>6, <1>7, <1>8, QuietTruth

LEMMA CheckTruth == ASSUME Inv, Truth, NEW p \in Process, Check(p) PROVE Truth'
<1>1. UNCHANGED <<record, tree>> /\ pc[p] = "check"  BY DEF Check
<1>2. CASE Ends(p)  BY <1>1, <1>2, EndsTruth
<1>3. ASSUME NEW l \in {"plan", "stamp"}, Goes(p, l) PROVE Truth'
  <2>1. pc'[p] = l /\ job' = job /\ l \in Pc  BY <1>3 DEF Goes, Inv, TypeOK, Pc
  <2>2. job[p].act \in {"apply", "dry"} /\ job[p].act # "dry"  BY <1>1, Of DEF Local, Truth, Pending
  <2>3. Pending(p)'  BY <2>1, <2>2 DEF Pending
  <2>4. Applying(p) => Serves(p)'  BY <1>1, <1>3, <2>1 DEF Truth, Serves, Has, Bare
  <2> QED BY <1>1, <1>3, <2>1, <2>3, <2>4, GoesTruth
<1> QED BY <1>2, <1>3 DEF Check

LEMMA FacadeTruth ==
  ASSUME Inv, Truth, NEW p \in Process, NEW act \in {"fresh", "construction"}, Facade(p, act)
  PROVE  Truth'
<1> DEFINE j == [NoJob EXCEPT !.act = act, !.at = Last]
<1>0. Last \in Versions  BY DEF Versions, Last
<1>1. j \in Jobs /\ j.act = act /\ j.at = Last /\ "stamp" \in Pc
  BY <1>0, NoJobType DEF Jobs, NoJob, Acts, Pc
<1> HIDE DEF j
<1>2. Takes(p, "stamp", j) /\ UNCHANGED <<record, tree>> /\ pc[p] = "idle"
      /\ (act = "construction" => ~Content(tree)) /\ tree \in Trees
  BY FilesType DEF Facade, j
<1>3. pc'[p] = "stamp" /\ job'[p] = j  BY <1>2 DEF Takes, Inv, TypeOK
<1>4. act = "construction" => Bare(tree)'  BY <1>2, BareOf DEF Truth, Bare
<1>5. Pending(p)'  BY <1>1, <1>3, <1>4 DEF Pending
<1> QED BY <1>1, <1>2, <1>5, QuietTruth

LEMMA StampTruth == ASSUME Inv, Truth, NEW p \in Process, Stamp(p), spoilt' = {} PROVE Truth'
<1> DEFINE j == [job[p] EXCEPT !.new = Ok(job[p].at, <<>>)]
<1>1. UNCHANGED <<record, tree>> /\ pc[p] = "stamp" /\ Pending(p) /\ job[p] \in Jobs /\ job[p].at \in Versions
      /\ Shape(tree)
  BY Of DEF Stamp, Truth
<1>2. CASE record = Absent /\ (job[p].act = "fresh" => ~Content(tree)) /\ Takes(p, "write", j)
  <2>1. Ok(job[p].at, <<>>) \in Written
    <3>1. <<>> \in Seq(1..Last)  OBVIOUS
    <3> QED BY <1>1, <3>1, WrittenFacts
  <2>2. j \in Jobs /\ j.new = Ok(job[p].at, <<>>) /\ j.act = job[p].act /\ j.at = job[p].at /\ "write" \in Pc
    BY <1>1, <2>1 DEF Jobs, Pc
  <2>3. j.new.version = job[p].at  BY <2>2 DEF Ok
  <2> HIDE DEF j
  <2>4. pc'[p] = "write" /\ job'[p] = j  BY <1>2 DEF Takes, Inv, TypeOK
  <2>5. job[p].act \in {"fresh", "construction"} => job[p].at = Last /\ Bare(tree)
    BY <1>1, <1>2, BareOf DEF Pending
  <2>6. Pending(p)'  BY <1>1, <2>2, <2>3, <2>4, <2>5 DEF Pending, Bare
  <2>7. Applying(p) => Serves(p)'  BY <1>1, <2>2, <2>4 DEF Truth, Serves, Has, Applying, Bare
  <2> QED BY <1>1, <1>2, <2>2, <2>6, <2>7, QuietTruth DEF Applying
<1>3. CASE Has /\ record.version = job[p].at /\ Stamped(p)
  <2>1. CASE Applying(p)
    <3> DEFINE k == [job[p] EXCEPT !.new = NoJob.new]
    <3>1. NoJob.new \in Written  BY NoJobType DEF Jobs
    <3>2. k \in Jobs /\ k.act = "apply" /\ k.at = job[p].at  BY <1>1, <2>1, <3>1 DEF Jobs, Applying
    <3> HIDE DEF k
    <3>0. ~Runs(p) /\ "plan" \in Pc  BY <2>1 DEF Applying, Runs, Pc
    <3>3. Takes(p, "plan", k) /\ "plan" \in Pc  BY <1>3, <2>1, <3>0 DEF Stamped, k
    <3>4. pc'[p] = "plan" /\ job'[p] = k  BY <3>3 DEF Takes, Inv, TypeOK
    <3>5. Pending(p)'  BY <3>4 DEF Pending
    <3>6. Serves(p)'  BY <1>1, <2>1, <3>2, <3>4 DEF Truth, Serves, Has, Bare
    <3> QED BY <1>1, <2>1, <3>2, <3>3, <3>5, <3>6, QuietTruth
  <2>2. CASE Runs(p)
    <3>1. Takes(p, "produce", NoJob) /\ NoJob \in Jobs /\ NoJob.act = "dry" /\ "produce" \in Pc
      BY <1>3, <2>2, NoJobType DEF Stamped, Runs, Applying, NoJob, Pc
    <3>2. pc'[p] = "produce"  BY <3>1 DEF Takes, Inv, TypeOK
    <3>3. Pending(p)'  BY <3>2 DEF Pending
    <3>4. Open
      BY <1>1, <1>3, <2>2 DEF Open, Stamp, Spoil, LetIn, Runs, SomeApplies, Pending, Truth
    <3> QED BY <1>1, <3>1, <3>3, <3>4, QuietTruth
  <2>3. CASE Ends(p)  BY <1>1, <2>3, EndsTruth
  <2> QED BY <1>3, <2>1, <2>2, <2>3 DEF Stamped
<1>4. CASE Ends(p)  BY <1>1, <1>4, EndsTruth
<1> QED BY <1>2, <1>3, <1>4 DEF Stamp

LEMMA BaselineTruth ==
  ASSUME Inv, Truth, NEW p \in Process, NEW v \in Restated, NEW force \in BOOLEAN, Baseline(p, v, force)
  PROVE  Truth'
<1> DEFINE h == IF v < record.version THEN <<>> ELSE record.history
           j == [NoJob EXCEPT !.act = "baseline", !.at = v]
           k == [j EXCEPT !.new = Ok(v, h)]
<1>1. v \in Versions /\ record \in Records /\ record.history \in Seq(1..Last)
  BY MigrationAssumption, FilesType, RecordFacts
<1>2. h \in Seq(1..Last) /\ Ok(v, h) \in Written /\ Ok(v, h).version = v
  <2>1. <<>> \in Seq(1..Last)  OBVIOUS
  <2>2. h \in Seq(1..Last)  BY <1>1, <2>1
  <2> HIDE DEF h
  <2> QED BY <1>1, <2>2, WrittenFacts
<1>3. j \in Jobs /\ j.act = "baseline" /\ j.at = v
  BY <1>1, NoJobType DEF Jobs, NoJob, Acts
<1> HIDE DEF h, j
<1>4. k \in Jobs /\ k.act = "baseline" /\ k.at = v /\ k.new = Ok(v, h)
  BY <1>1, <1>2, <1>3 DEF Jobs
<1> HIDE DEF k
<1>5. UNCHANGED <<record, tree>> /\ pc[p] = "idle" /\ "stamp" \in Pc /\ "write" \in Pc  BY DEF Baseline, Pc
<1>6. CASE Takes(p, "stamp", j)
  <2>1. pc'[p] = "stamp" /\ job'[p] = j  BY <1>6 DEF Takes, Inv, TypeOK
  <2>2. Pending(p)'  BY <1>3, <2>1 DEF Pending
  <2> QED BY <1>3, <1>5, <1>6, <2>2, QuietTruth
<1>7. CASE Takes(p, "write", k)
  <2>1. pc'[p] = "write" /\ job'[p] = k  BY <1>7 DEF Takes, Inv, TypeOK
  <2>2. Pending(p)'  BY <1>2, <1>4, <2>1 DEF Pending
  <2> QED BY <1>4, <1>5, <1>7, <2>2, QuietTruth
<1> QED BY <1>6, <1>7 DEF Baseline, j, k, h

LEMMA AcquireTruth == ASSUME Inv, Truth, NEW p \in Process, Acquire(p) PROVE Truth'
<1>1. UNCHANGED <<record, tree>> /\ pc[p] \in {"write", "record"}  BY DEF Acquire
<1>2. ASSUME NEW l \in {"writing", "recording"}, Goes(p, l), l = "writing" <=> pc[p] = "write" PROVE Truth'
  <2>1. pc'[p] = l /\ job' = job /\ l \in Pc  BY <1>2 DEF Goes, Inv, TypeOK, Pc
  <2>2. Pending(p)'  BY <1>1, <1>2, <2>1 DEF Truth, Pending, Bare
  <2>3. Applying(p) => Serves(p)'  BY <1>1, <1>2, <2>1 DEF Truth, Serves, Has, Bare
  <2> QED BY <1>1, <1>2, <2>1, <2>2, <2>3, GoesTruth
<1> QED BY <1>1, <1>2 DEF Acquire

LEMMA TimesOutTruth == ASSUME Inv, Truth, NEW p \in Process, TimesOut(p) PROVE Truth'
BY EndsTruth DEF TimesOut

LEMMA PlanFailsTruth == ASSUME Inv, Truth, NEW p \in Process, PlanFails(p) PROVE Truth'
BY EndsTruth DEF PlanFails

LEMMA EnvironmentTruth == ASSUME Inv, Truth, Damage \/ Discard PROVE Truth'
<1>1. ~Has' /\ UNCHANGED <<tree, pc, job>>  BY DEF Damage, Discard, Has, Torn, Absent
<1>2. \A p \in Process : (Serves(p) => Serves(p)') /\ (Applying(p)' <=> Applying(p))
                         /\ (Pending(p)' <=> Pending(p))
  BY <1>1 DEF Serves, Applying, Pending
<1>3. Guests'  BY <1>1, <1>2 DEF Truth, Guests, Open
<1> QED BY <1>1, <1>2, <1>3 DEF Truth, Busy, Alone

---------------------------------------------------------------------------
(* The steps that write the record or the tree.                            *)

LEMMA StepTruth ==
  ASSUME Inv, Truth, NEW p \in Process, NEW l \in Pc, NEW j \in Jobs, Takes(p, l, j),
         Shape(tree)', Has' => Near(record.version, tree)',
         Bare(tree) => Bare(tree)',
         Steady(tree)' \/ (l = "exec" /\ j.act = "apply") \/ (Busy /\ pc[p] # "exec"),
         \A q \in Process : q # p /\ Applying(q) =>
           /\ Near(job[q].at, tree')
           /\ Has' => record.version' = job[q].at \/ Bare(tree')
           /\ pc[q] = "exec" => Halfway(job[q], tree')
           /\ pc[q] \in {"record", "recording"} => Applied(job[q].at + 1, tree'),
         (j.act = "apply") => /\ l \notin {"idle", "produce"} /\ Serves(p)'
                              /\ Applying(p) \/ \A q \in Process : ~Applying(q),
         (l = "produce" \/ \E q \in Process : q # p /\ pc[q] = "produce") =>
           /\ j.act # "apply" /\ \A q \in Process : q # p => ~Applying(q)
           /\ Near(Last, tree') /\ (Has' => record.version' = Last),
         Pending(p)'
  PROVE  Truth'
<1>1. pc' = [pc EXCEPT ![p] = l] /\ job' = [job EXCEPT ![p] = j]  BY DEF Takes
<1>2. pc \in [Process -> Pc] /\ job \in [Process -> Jobs]  BY DEF Inv, TypeOK
<1>3. pc'[p] = l /\ job'[p] = j /\ \A q \in Process \ {p} : pc'[q] = pc[q] /\ job'[q] = job[q]
  BY <1>1, <1>2
<1>4. \A q \in Process \ {p} : (Applying(q)' <=> Applying(q)) /\ (Pending(q) => Pending(q)')
  BY <1>3 DEF Applying, Pending
<1>5. Applying(p)' <=> j.act = "apply"  BY <1>3 DEF Applying
<1>6. Alone'
  <2>1. CASE j.act # "apply"  BY <1>4, <1>5, <2>1 DEF Truth, Alone
  <2>2. CASE j.act = "apply" /\ Applying(p)  BY <1>4, <1>5, <2>2 DEF Truth, Alone
  <2>3. CASE j.act = "apply" /\ ~Applying(p)  BY <1>4, <1>5, <2>3 DEF Truth, Alone
  <2> QED BY <2>1, <2>2, <2>3
<1>7. Busy' \/ Steady(tree)'
  <2>1. CASE l = "exec" /\ j.act = "apply"  BY <1>3, <1>5, <2>1 DEF Busy
  <2>2. CASE Busy /\ pc[p] # "exec"  BY <1>3, <1>4, <2>2 DEF Busy
  <2> QED BY <2>1, <2>2
<1>8. ASSUME NEW q \in Process, Applying(q)' PROVE pc'[q] # "idle" /\ Serves(q)'
  <2>1. CASE q = p  BY <1>3, <1>5, <1>8, <2>1
  <2>2. CASE q # p
    <3>1. Applying(q) /\ pc'[q] = pc[q] /\ job'[q] = job[q]  BY <1>3, <1>4, <1>8, <2>2
    <3> QED BY <2>2, <3>1 DEF Serves, Truth
  <2> QED BY <2>1, <2>2
<1>9. \A q \in Process : Pending(q)'  BY <1>4 DEF Truth
<1>10. Guests'
  <2> SUFFICES ASSUME NEW q \in Process, pc'[q] = "produce" PROVE Open'  BY DEF Guests
  <2>1. l = "produce" \/ \E o \in Process : o # p /\ pc[o] = "produce"
    <3>1. CASE q = p  BY <1>3, <3>1
    <3>2. CASE q # p  BY <1>3, <3>2
    <3> QED BY <3>1, <3>2
  <2> QED BY <1>4, <1>5, <2>1 DEF Open
<1> QED BY <1>6, <1>7, <1>8, <1>9, <1>10 DEF Truth

(* The only applier.                                                       *)
LEMMA Sole ==
  ASSUME Truth, NEW p \in Process, Applying(p)
  PROVE  Serves(p) /\ (\A q \in Process : q # p => ~Applying(q))
         /\ (pc[p] # "exec" => Steady(tree)) /\ \A q \in Process : pc[q] # "produce"
BY DEF Truth, Alone, Busy, Guests, Open

LEMMA WriteTruth == ASSUME Inv, Truth, NEW p \in Process, Write(p), spoilt' = {} PROVE Truth'
<1>1. /\ pc[p] = "writing" /\ record' = job[p].new /\ tree' = tree /\ tree \in Trees /\ Shape(tree)
      /\ job[p] \in Jobs /\ job[p].at \in Versions /\ job[p].new \in Written /\ Pending(p)
      /\ Stamped(p)
  BY Of, FilesType DEF Write, Truth
<1>2. /\ job[p].act = "baseline" => IsVersion(job[p].at, tree)
      /\ job[p].act \in {"baseline", "fresh"} => \A q \in Process : ~Applying(q)
  BY DEF Write, Runs, SomeApplies
<1>3. record'.version = job[p].at  BY <1>1 DEF Pending
<1>4. job[p].act \in {"fresh", "construction"} => job[p].at = Last /\ Bare(tree)
  BY <1>1 DEF Pending
<1>5. Near(job[p].at, tree)
  <2>1. CASE Applying(p)  BY <2>1, Sole DEF Serves
  <2>2. CASE job[p].act = "baseline"  BY <1>1, <1>2, <2>2, HonestNear
  <2>3. CASE job[p].act \in {"fresh", "construction"}
    BY <1>4, <2>3 DEF Near, Applied, Bare, Last, Produced
  <2>4. job[p].act # "dry"  BY <1>1 DEF Pending
  <2> QED BY <1>1, <2>1, <2>2, <2>3, <2>4 DEF Jobs, Acts, Applying
<1>6. ASSUME NEW q \in Process, q # p, Applying(q)
      PROVE  /\ Near(job[q].at, tree')
             /\ Has' => record.version' = job[q].at \/ Bare(tree')
             /\ pc[q] = "exec" => Halfway(job[q], tree')
             /\ pc[q] \in {"record", "recording"} => Applied(job[q].at + 1, tree')
  <2>1. ~Applying(p) /\ Serves(q)  BY <1>6, Sole
  <2>2. job[p].act = "construction"
    BY <1>1, <1>2, <1>6, <2>1 DEF Pending, Jobs, Acts, Applying
  <2>3. Bare(tree)  BY <1>4, <2>2
  <2> QED BY <1>1, <2>1, <2>3 DEF Serves
<1>7. ASSUME NEW q \in Process, q # p, pc[q] = "produce"
      PROVE  (\A o \in Process : ~Applying(o)) /\ job[p].at = Last /\ Near(Last, tree)
  <2>1. Open  BY <1>7 DEF Truth, Guests
  <2>2. CASE job[p].act = "baseline"
    <3>1. Last \in Versions /\ Applied(Last, tree)  BY <2>1 DEF Open, Near, Versions, Last
    <3>2. Last <= job[p].at  BY <1>1, <1>2, <2>2, <3>1, HonestNear
    <3>3. job[p].at = Last  BY <1>1, <3>2 DEF Versions, Last
    <3> QED BY <2>1, <3>3 DEF Open
  <2>3. CASE job[p].act \in {"fresh", "construction"}  BY <1>4, <2>1, <2>3 DEF Open
  <2>4. job[p].act # "dry" /\ job[p].act # "apply"  BY <1>1, <2>1 DEF Pending, Open, Applying
  <2> QED BY <1>1, <2>2, <2>3, <2>4 DEF Jobs, Acts
<1>8. Near(record.version, tree)' /\ Shape(tree)' /\ (Bare(tree) => Bare(tree)')
  BY <1>1, <1>3, <1>5
<1>9. Steady(tree)' \/ (Busy /\ pc[p] # "exec")  BY <1>1 DEF Truth
<1>10. CASE Applying(p)
  <2> DEFINE j == [job[p] EXCEPT !.new = NoJob.new]
  <2>1. NoJob.new \in Written  BY NoJobType DEF Jobs
  <2>2. j \in Jobs /\ j.act = "apply" /\ j.at = job[p].at  BY <1>1, <1>10, <2>1 DEF Jobs, Applying
  <2> HIDE DEF j
  <2>0. ~Runs(p) /\ "plan" \in Pc  BY <1>10 DEF Applying, Runs, Pc
  <2>3. Takes(p, "plan", j) /\ "plan" \in Pc  BY <1>1, <1>10, <2>0 DEF Stamped, j
  <2>4. pc'[p] = "plan" /\ job'[p] = j  BY <2>3 DEF Takes, Inv, TypeOK
  <2>5. Pending(p)'  BY <2>4 DEF Pending
  <2>6. Serves(p)'  BY <1>1, <1>3, <1>5, <2>2, <2>4 DEF Serves
  <2>7. \A q \in Process : pc[q] # "produce"  BY <1>10, Sole
  <2> QED BY <1>6, <1>8, <1>9, <1>10, <2>2, <2>3, <2>5, <2>6, <2>7, StepTruth
<1>11. CASE Runs(p)
  <2>1. Takes(p, "produce", NoJob) /\ NoJob \in Jobs /\ NoJob.act = "dry" /\ "produce" \in Pc
    BY <1>1, <1>11, NoJobType DEF Stamped, Runs, Applying, NoJob, Pc
  <2>2. pc'[p] = "produce"  BY <2>1 DEF Takes, Inv, TypeOK
  <2>3. Pending(p)'  BY <2>2 DEF Pending
  <2>4. (\A q \in Process : ~Applying(q)) /\ Near(Last, tree') /\ record'.version = Last
    BY <1>1, <1>2, <1>3, <1>4, <1>5, <1>11 DEF Runs
  <2> QED BY <1>6, <1>8, <1>9, <2>1, <2>3, <2>4, StepTruth
<1>12. CASE ~Applying(p) /\ ~Runs(p)
  <2>1. Takes(p, "idle", NoJob) /\ NoJob \in Jobs /\ NoJob.act = "dry" /\ "idle" \in Pc
    BY <1>1, <1>12, NoJobType DEF Stamped, Ends, NoJob, Pc
  <2>2. pc'[p] = "idle"  BY <2>1 DEF Takes, Inv, TypeOK
  <2>3. Pending(p)'  BY <2>2 DEF Pending
  <2> QED BY <1>1, <1>3, <1>6, <1>7, <1>8, <1>9, <2>1, <2>3, StepTruth
<1> QED BY <1>10, <1>11, <1>12

(* A step of a migration that is complete.                                 *)
LEMMA NearNext ==
  ASSUME NEW t \in Trees, NEW v \in Versions, Near(v, t), Applied(v + 1, t)
  PROVE  Near(v + 1, t)
<1>1. v \in {0, 1, 2, 3, 4, 5}  BY DEF Versions, Last
<1> QED BY <1>1 DEF Near

LEMMA RecordTruth == ASSUME Inv, Truth, NEW p \in Process, Record(p) PROVE Truth'
<1>1. /\ pc[p] = "recording" /\ tree' = tree /\ tree \in Trees
      /\ job[p] \in Jobs /\ job[p].at \in Versions /\ job[p].goal \in Versions /\ Local("recording", job[p])
  BY Of, FilesType DEF Record
<1>2. Applying(p)  BY <1>1 DEF Truth, Pending, Local, Applying
<1>3. Serves(p) /\ (\A q \in Process : q # p => ~Applying(q)) /\ Steady(tree)
      /\ \A q \in Process : pc[q] # "produce"
  BY <1>1, <1>2, Sole
<1>4. CASE Has /\ record.version = job[p].at
  <2> DEFINE v == job[p].at + 1
             j == [job[p] EXCEPT !.at = @ + 1]
  <2>1. v \in Versions  BY <1>1 DEF Local, Versions, Last
  <2>2. Near(v, tree)  BY <1>1, <1>3, NearNext DEF Serves
  <2>3. record'.version = v  BY <1>4 DEF Record, Ok
  <2>4. Near(record.version, tree)' /\ Shape(tree)' /\ Steady(tree)'
    BY <1>1, <1>3, <2>2, <2>3 DEF Truth
  <2>5. Bare(tree) => Bare(tree)'  BY <1>1
  <2>6. CASE v = job[p].goal
    <3>1. Takes(p, "idle", NoJob) /\ NoJob \in Jobs /\ NoJob.act = "dry" /\ "idle" \in Pc
      BY <1>4, <2>6, NoJobType DEF Record, Advances, Ends, NoJob, Pc
    <3>2. pc'[p] = "idle"  BY <3>1 DEF Takes, Inv, TypeOK
    <3>3. Pending(p)'  BY <3>2 DEF Pending
    <3> QED BY <1>3, <2>4, <2>5, <3>1, <3>3, StepTruth
  <2>7. CASE v # job[p].goal
    <3>1. j \in Jobs /\ j.act = "apply" /\ j.at = v  BY <1>1, <1>2, <2>1 DEF Jobs, Applying
    <3>2. Takes(p, "plan", j) /\ "plan" \in Pc  BY <1>4, <2>7 DEF Record, Advances, Pc
    <3> HIDE DEF j
    <3>3. pc'[p] = "plan" /\ job'[p] = j  BY <3>2 DEF Takes, Inv, TypeOK
    <3>4. Pending(p)'  BY <3>3 DEF Pending
    <3>5. Serves(p)'  BY <1>1, <2>1, <2>2, <2>3, <3>1, <3>3 DEF Serves, Versions, Last
    <3> QED BY <1>2, <1>3, <2>4, <2>5, <3>1, <3>2, <3>4, <3>5, StepTruth
  <2> QED BY <2>6, <2>7
<1>5. CASE ~(Has /\ record.version = job[p].at)
  <2>1. Ends(p) /\ UNCHANGED <<record, tree>>  BY <1>5 DEF Record
  <2> QED BY <1>1, <2>1, EndsTruth
<1> QED BY <1>4, <1>5

(* What planning writes into the tree is in the way of nobody.             *)
LEMMA BackfillKeeps ==
  ASSUME NEW t \in Trees, NEW v \in 1..Last, Shape(t)
  PROVE  LET u == Backfilled(v, t)
         IN  /\ Shape(u) /\ (Bare(t) => Bare(u))
             /\ Steady(t) => Steady(u)
             /\ \A w \in Versions : (Near(w, t) => Near(w, u)) /\ (Applied(w, t) => Applied(w, u))
             /\ \A j \in Jobs : Halfway(j, t) => Halfway(j, u)
<1> DEFINE u == [t EXCEPT !.ana = @ \cup {"attrs"}]
<1>1. CASE ~(v = 3 /\ t.ana # {})  BY <1>1 DEF Backfilled
<1>2. CASE v = 3 /\ t.ana # {}
  <2>1. u.legacy = t.legacy /\ u.skips = t.skips /\ u.flat = t.flat /\ u.exp = t.exp /\ u.raw = t.raw
        /\ u.tmp = t.tmp /\ u.ana = t.ana \cup {"attrs"} /\ Backfilled(v, t) = u
    BY <1>2 DEF Trees, Backfilled
  <2>2. "attrs" \in t.ana => u.ana = t.ana  BY <2>1
  <2>3. "attrs" \in Full /\ "attrs" \in Demoted /\ "attrs" \in Produced  BY DEF Full, Demoted, Produced
  <2>4. u.ana # {} /\ ("current" \in u.ana <=> "current" \in t.ana)  BY <1>2, <2>1
  <2> HIDE DEF u
  <2>5. Shape(u) /\ (Bare(t) => Bare(u))  BY <1>2, <2>1, <2>2, <2>3, <2>4 DEF Shape, Bare
  <2>6. ASSUME NEW w \in Versions
        PROVE  (Near(w, t) => Near(w, u)) /\ (Applied(w, t) => Applied(w, u))
    <3>1. w \in {0, 1, 2, 3, 4, 5}  BY DEF Versions, Last
    <3>2. t.ana \subseteq u.ana  BY <2>1
    <3>3. Applied(w, t) => Applied(w, u)  BY <1>2, <2>1, <3>1, <3>2 DEF Applied
    <3> QED BY <2>1, <2>4, <3>3 DEF Near
  <2>7. (Stores(t) => Stores(u)) /\ (Raw(t) => Raw(u)) /\ (Summaries(t) => Summaries(u))
    BY <1>2, <2>1, <2>2, <2>3 DEF Stores, Raw, Summaries, Full
  <2>8. ASSUME NEW j \in Jobs, Halfway(j, t) PROVE Halfway(j, u)
    <3>1. 2 \in Versions /\ 3 \in Versions /\ 4 \in Versions /\ 5 \in Versions  BY DEF Versions, Last
    <3>2. /\ Applied(2, t) => Applied(2, u)
          /\ Applied(3, t) => Applied(3, u)
          /\ Applied(4, t) => Applied(4, u)
          /\ Applied(5, t) => Applied(5, u)
      BY <2>6, <3>1
    <3>3. "attrs" \in t.ana => u.ana = t.ana  BY <2>2
    <3>4. \A S \in {Full, Produced, Demoted, Full \cup {"member"}, Demoted \ {"params"}} :
            t.ana = S => u.ana = S
      BY <2>3, <3>3
    <3>5. CASE j.at \in {0, 1, 2}
      BY <2>1, <2>7, <2>8, <3>2, <3>3, <3>5 DEF Halfway, Steady
    <3>6. CASE j.at = 3
      BY <2>1, <2>7, <2>8, <3>2, <3>4, <3>6 DEF Halfway, Steady
    <3>7. CASE j.at = 4
      BY <2>1, <2>7, <2>8, <3>2, <3>7 DEF Halfway, Steady
    <3> QED BY <2>8, <3>5, <3>6, <3>7 DEF Halfway
  <2> QED BY <2>1, <2>5, <2>6, <2>7, <2>8 DEF Steady
<1> QED BY <1>1, <1>2

(* The applier takes its place in the tree t.                              *)
LEMMA BuildTruth ==
  ASSUME Inv, Truth, NEW p \in Process, Applying(p), NEW t \in Trees, tree' = t, UNCHANGED record,
         NEW j \in Jobs, j.act = "apply", j.at = job[p].at, Takes(p, "exec", j),
         Shape(t), Near(job[p].at, t), Has => Near(record.version, t),
         Bare(tree) => Bare(t), Halfway(j, t)
  PROVE  Truth'
<1>1. "exec" \in Pc /\ pc'[p] = "exec" /\ job'[p] = j  BY DEF Takes, Inv, TypeOK, Pc
<1>2. Serves(p) /\ \A q \in Process : (q # p => ~Applying(q)) /\ pc[q] # "produce"  BY Sole
<1>3. Pending(p)'  BY <1>1 DEF Pending
<1>4. Shape(tree)' /\ (Has' => Near(record.version, tree)') /\ (Bare(tree) => Bare(tree)')
  BY DEF Has
<1>5. Serves(p)'
  <2>1. Near(j.at, t)  OBVIOUS
  <2>2. Has => record.version = j.at \/ Bare(t)  BY <1>2 DEF Serves
  <2> QED BY <1>1, <2>1, <2>2 DEF Serves, Has
<1> QED BY <1>1, <1>2, <1>3, <1>4, <1>5, StepTruth

LEMMA PlanTruth == ASSUME Inv, Truth, NEW p \in Process, Plan(p) PROVE Truth'
<1> DEFINE v == job[p].at + 1
           t == Backfilled(v, tree)
<1>1. /\ pc[p] = "plan" /\ tree' = t /\ UNCHANGED record /\ tree \in Trees /\ Shape(tree)
      /\ job[p] \in Jobs /\ job[p].at \in Versions /\ v \in 1..Last /\ record \in Records
  BY Of, FilesType DEF Plan, Truth, Local, Versions, Last
<1>2. t \in Trees
  <2>1. [tree EXCEPT !.ana = @ \cup {"attrs"}] \in Trees  BY <1>1 DEF Trees, Parts
  <2> QED BY <1>1, <2>1 DEF Backfilled
<1>3. /\ Shape(t) /\ (Bare(tree) => Bare(t))
      /\ Steady(tree) => Steady(t)
      /\ \A w \in Versions : (Near(w, tree) => Near(w, t)) /\ (Applied(w, tree) => Applied(w, t))
      /\ \A j \in Jobs : Halfway(j, tree) => Halfway(j, t)
  BY <1>1, BackfillKeeps
<1>4. Has => Near(record.version, t)  BY <1>1, <1>3, RecordFacts DEF Truth
<1>5. CASE Applying(p)
  <2> DEFINE j == [job[p] EXCEPT !.ops = PlanOf(v, tree)]
  <2>1. Near(job[p].at, tree) /\ Near(job[p].at, t) /\ Steady(tree) /\ Steady(t)
    BY <1>1, <1>3, <1>5, Sole DEF Serves
  <2>2. PlanOf(v, tree) \in Seq(Ops)  BY <1>1, PlanType
  <2>3. j \in Jobs /\ j.act = "apply" /\ j.at = job[p].at /\ j.ops = PlanOf(v, tree)
    BY <1>1, <1>5, <2>2 DEF Jobs, Applying
  <2>4. Takes(p, "exec", j)  BY <1>5 DEF Plan
  <2> HIDE DEF j
  <2>5. Halfway(j, t)
    <3>1. CASE v = 1
      <4>1. job[p].at = 0 /\ PlanOf(v, tree) = <<"rename">>
        BY <1>1, <3>1 DEF PlanOf, Versions, Last
      <4> QED BY <2>1, <2>3, <4>1 DEF Halfway
    <3>2. CASE v = 2
      <4>1. t = tree /\ job[p].at = 1  BY <1>1, <3>2 DEF Backfilled, Versions, Last
      <4>2. PlanOf(v, tree) = IF Summaries(tree) /\ tree.ana = {} THEN <<"datatree">> ELSE <<>>
        BY <3>2 DEF PlanOf
      <4>3. ~(Summaries(tree) /\ tree.ana = {}) => Applied(2, tree)
        BY <2>1, <4>1 DEF Near, Applied, Summaries
      <4> QED BY <2>1, <2>3, <4>1, <4>2, <4>3 DEF Halfway
    <3>3. CASE v = 3
      <4>1. job[p].at = 2 /\ tree.ana # {} => t.ana = tree.ana \cup {"attrs"}
        BY <1>1, <3>3 DEF Backfilled, Trees
      <4>2. job[p].at = 2 /\ (tree.ana = {} => t = tree)  BY <1>1, <3>3 DEF Backfilled, Versions, Last
      <4>3. PlanOf(v, tree) = IF tree.ana # {} THEN <<"convention">> ELSE <<>>  BY <3>3 DEF PlanOf
      <4> QED BY <2>1, <2>3, <4>1, <4>2, <4>3 DEF Halfway, Near, Applied
    <3>4. CASE v = 4
      <4>1. t = tree /\ job[p].at = 3  BY <1>1, <3>4 DEF Backfilled, Versions, Last
      <4>2. PlanOf(v, tree) = IF tree.ana # {} THEN <<"unify", "move_dir">> ELSE <<>>
        BY <3>4 DEF PlanOf
      <4>3. tree.ana # {} => tree.ana \in {Full, Produced, Demoted}
        BY <2>1, <4>1 DEF Steady, Stores, Near, Applied
      <4>4. tree.ana = {} => Applied(4, tree)  BY <1>1, <2>1, <4>1 DEF Near, Applied, Shape
      <4> QED BY <2>1, <2>3, <4>1, <4>2, <4>3, <4>4 DEF Halfway, Steady
    <3>5. CASE v = 5
      <4>1. t = tree /\ job[p].at = 4  BY <1>1, <3>5 DEF Backfilled, Versions, Last
      <4>2. PlanOf(v, tree) = IF tree.raw = "old" THEN <<"replace">> ELSE <<>>  BY <3>5 DEF PlanOf
      <4>3. tree.raw # "old" => Applied(5, tree)
        BY <1>1, <2>1, <4>1 DEF Near, Applied, Steady, Raw, Trees
      <4> QED BY <2>1, <2>3, <4>1, <4>2, <4>3 DEF Halfway, Steady
    <3> QED BY <1>1, <3>1, <3>2, <3>3, <3>4, <3>5 DEF Last
  <2> QED BY <1>1, <1>2, <1>3, <1>4, <1>5, <2>1, <2>3, <2>4, <2>5, BuildTruth
<1>6. CASE ~Applying(p)
  <2> DEFINE j == [job[p] EXCEPT !.at = @ + 1]
  <2>1. j \in Jobs /\ j.act # "apply"  BY <1>1, <1>6 DEF Jobs, Applying, Versions, Last
  <2> HIDE DEF j
  <2>2. Takes(p, "plan", j) \/ Takes(p, "idle", NoJob)  BY <1>6 DEF Plan, Advances, Ends, j
  <2>3. PICK l \in {"plan", "idle"}, k \in {j, NoJob} : Takes(p, l, k)  BY <2>2
  <2>4. k \in Jobs /\ k.act # "apply" /\ l \in Pc  BY <2>1, <2>3, NoJobType DEF NoJob, Pc
  <2>5. pc'[p] = l  BY <2>3 DEF Takes, Inv, TypeOK
  <2>6. Pending(p)'  BY <2>5 DEF Pending
  <2>7. Shape(tree)' /\ (Has' => Near(record.version, tree)') /\ (Bare(tree) => Bare(tree)')
    BY <1>1, <1>3, <1>4 DEF Has
  <2>8. Steady(tree)' \/ (Busy /\ pc[p] # "exec")  BY <1>1, <1>3 DEF Truth
  <2>9. ASSUME NEW q \in Process, q # p, Applying(q)
        PROVE  /\ Near(job[q].at, tree')
               /\ Has' => record.version' = job[q].at \/ Bare(tree')
               /\ pc[q] = "exec" => Halfway(job[q], tree')
               /\ pc[q] \in {"record", "recording"} => Applied(job[q].at + 1, tree')
    <3>1. Serves(q) /\ job[q] \in Jobs /\ job[q].at \in Versions /\ Local(pc[q], job[q])
          /\ job[q].goal \in Versions
      BY <2>9, Of DEF Truth
    <3>2. pc[q] \in {"record", "recording"} => job[q].at + 1 \in Versions
      BY <2>9, <3>1 DEF Local, Applying, Versions, Last
    <3> QED BY <1>1, <1>3, <3>1, <3>2 DEF Serves, Has
  <2>10. ASSUME NEW q \in Process, pc[q] = "produce"
         PROVE  (\A o \in Process : ~Applying(o)) /\ Near(Last, tree') /\ (Has' => record.version' = Last)
    <3>1. Open /\ Last \in Versions  BY <2>10 DEF Truth, Guests, Versions, Last
    <3> QED BY <1>1, <1>3, <3>1 DEF Open, Has
  <2> QED BY <2>3, <2>4, <2>6, <2>7, <2>8, <2>9, <2>10, StepTruth
<1> QED BY <1>5, <1>6

(* Where the operation to be executed next leaves the tree.                *)
LEMMA WhereOp ==
  ASSUME NEW j \in Jobs, NEW t, Halfway(j, t), j.ops # <<>>
  PROVE  /\ Head(j.ops) = "rename" => j.at = 0 /\ Steady(t) /\ j.ops = <<"rename">>
         /\ Head(j.ops) = "datatree" => j.at = 1 /\ Steady(t) /\ Summaries(t) /\ j.ops = <<"datatree">>
         /\ Head(j.ops) = "convention" => j.at = 2 /\ Steady(t) /\ "attrs" \in t.ana /\ j.ops = <<"convention">>
         /\ Head(j.ops) = "unify" => j.at = 3 /\ Steady(t) /\ t.ana \in {Full, Produced, Demoted}
                                     /\ j.ops = <<"unify", "move_dir">>
         /\ Head(j.ops) = "mint" => j.at = 3 /\ Steady(t) /\ t.ana \in {Full, Produced}
                                    /\ j.ops = <<"mint", "move", "params", "move_dir">>
         /\ Head(j.ops) = "move" => j.at = 3 /\ Raw(t) /\ t.ana = Full \cup {"member"}
                                    /\ j.ops = <<"move", "params", "move_dir">>
         /\ Head(j.ops) = "params" => j.at = 3 /\ Raw(t) /\ t.ana = Demoted \ {"params"}
                                      /\ j.ops = <<"params", "move_dir">>
         /\ Head(j.ops) = "move_dir" => j.at = 3 /\ Steady(t) /\ t.ana = Demoted /\ j.ops = <<"move_dir">>
         /\ Head(j.ops) = "replace" => j.at = 4 /\ Steady(t) /\ t.raw = "old" /\ j.ops = <<"replace">>
         /\ Head(j.ops) = "rmroot" => j.at = 4 /\ Steady(t) /\ t.raw = "old" /\ t.tmp /\ j.ops = <<"rmroot", "swap">>
         /\ Head(j.ops) = "swap" => j.at = 4 /\ Stores(t) /\ t.raw = "lost" /\ t.tmp /\ j.ops = <<"swap">>
<1>2. t.ana \in {Full, Produced, Demoted} => Stores(t)  BY DEF Stores
<1>3. t.raw = "old" => Raw(t)  BY DEF Raw
<1>4. CASE j.at \in {0, 1, 2}  BY <1>4 DEF Halfway
<1>5. CASE j.at = 3  BY <1>2, <1>5 DEF Halfway, Steady
<1>6. CASE j.at = 4  BY <1>3, <1>6 DEF Halfway, Steady
<1> QED BY <1>4, <1>5, <1>6 DEF Halfway

LEMMA ExecStep ==
  ASSUME Inv, Truth, NEW p \in Process, pc[p] = "exec", Applying(p), NEW t \in Trees,
         NEW ops \in Seq(Ops), Does(p, t, ops),
         Shape(t), Near(job[p].at, t), t = tree \/ ~Bare(tree),
         Halfway([job[p] EXCEPT !.ops = ops], t)
  PROVE  Truth'
<1> DEFINE j == [job[p] EXCEPT !.ops = ops]
<1>1. job[p] \in Jobs  BY Of
<1>2. j \in Jobs /\ j.act = "apply" /\ j.at = job[p].at  BY <1>1 DEF Jobs, Applying
<1>3. Takes(p, "exec", j) /\ tree' = t /\ UNCHANGED record  BY DEF Does
<1>4. Halfway(j, t)  OBVIOUS
<1> HIDE DEF j
<1>5. Has => Near(record.version, t)
  <2>1. CASE t = tree  BY <2>1 DEF Truth
  <2>2. CASE ~Bare(tree)  BY <2>2, Sole DEF Serves
  <2> QED BY <2>1, <2>2
<1> QED BY <1>2, <1>3, <1>4, <1>5, BuildTruth

(* The executing process is the applier.                                   *)
LEMMA Executing ==
  ASSUME Inv, Truth, NEW p \in Process, pc[p] = "exec"
  PROVE  /\ Applying(p) /\ Halfway(job[p], tree) /\ Near(job[p].at, tree) /\ Shape(tree)
         /\ tree \in Trees /\ record \in Records /\ job[p] \in Jobs /\ job[p].at \in Versions
         /\ \A ops \in Seq(Ops) :
              LET j == [job[p] EXCEPT !.ops = ops] IN j.at = job[p].at /\ j.ops = ops
<1>1. job[p] \in Jobs /\ job[p].at \in Versions /\ Local("exec", job[p])  BY Of
<1>2. Applying(p)  BY <1>1 DEF Local, Truth, Pending, Applying
<1>3. Serves(p)  BY <1>2, Sole
<1>4. record \in Records /\ record.version \in Versions /\ tree \in Trees  BY FilesType, RecordFacts
<1> QED BY <1>1, <1>2, <1>3, <1>4 DEF Serves, Truth, Jobs

LEMMA OpsTypes ==
  /\ <<>> \in Seq(Ops) /\ <<"rename">> \in Seq(Ops) /\ <<"move_dir">> \in Seq(Ops) /\ <<"swap">> \in Seq(Ops)
  /\ <<"mint", "move", "params", "move_dir">> \in Seq(Ops)
  /\ <<"move", "params", "move_dir">> \in Seq(Ops) /\ <<"params", "move_dir">> \in Seq(Ops)
  /\ <<"rmroot", "swap">> \in Seq(Ops)
<1>1. "rename" \in Ops /\ "move_dir" \in Ops /\ "swap" \in Ops /\ "mint" \in Ops /\ "move" \in Ops
      /\ "params" \in Ops /\ "rmroot" \in Ops
  BY DEF Ops
<1> QED BY <1>1

LEMMA RenameTruth == ASSUME Inv, Truth, NEW p \in Process, RenameDir(p) PROVE Truth'
<1>1. pc[p] = "exec" /\ job[p].ops # <<>> /\ Head(job[p].ops) = "rename"  BY DEF RenameDir, Doing
<1>2. job[p].at = 0 /\ Steady(tree) /\ job[p].ops = <<"rename">>  BY <1>1, Executing, WhereOp
<1>3. Rest(p) = <<>>  BY <1>2 DEF Rest
<1>4. CASE tree.legacy \subseteq tree.skips
  <2>1. Does(p, tree, <<>>)  BY <1>3, <1>4 DEF RenameDir
  <2>2. Halfway([job[p] EXCEPT !.ops = <<>>], tree)
    BY <1>1, <1>2, <1>4, Executing, OpsTypes DEF Halfway
  <2> QED BY <1>1, <2>1, <2>2, Executing, OpsTypes, ExecStep
<1>5. CASE ~(tree.legacy \subseteq tree.skips)
  <2>1. PICK s \in tree.legacy \ tree.skips : Does(p, [tree EXCEPT !.legacy = @ \ {s}], <<"rename">>)
    BY <1>2, <1>5 DEF RenameDir
  <2> DEFINE t == [tree EXCEPT !.legacy = @ \ {s}]
  <2>2. t \in Trees /\ t.legacy = tree.legacy \ {s} /\ t.skips = tree.skips /\ t.flat = tree.flat
        /\ t.ana = tree.ana /\ t.exp = tree.exp /\ t.raw = tree.raw /\ t.tmp = tree.tmp
    BY <1>1, Executing DEF Trees
  <2>3. Shape(t) /\ Steady(t)
    BY <1>1, <1>2, <2>2, Executing DEF Shape, Steady, Stores, Raw
  <2>4. ~Bare(tree)  BY <2>1 DEF Bare
  <2>5. Near(job[p].at, t)  BY <1>1, <1>2, <2>2, Executing DEF Near, Applied
  <2> HIDE DEF t
  <2>6. Halfway([job[p] EXCEPT !.ops = <<"rename">>], t)
    BY <1>1, <1>2, <2>3, Executing, OpsTypes DEF Halfway
  <2> QED BY <1>1, <2>1, <2>2, <2>3, <2>4, <2>5, <2>6, Executing, OpsTypes, ExecStep DEF t
<1> QED BY <1>4, <1>5

LEMMA DatatreeTruth == ASSUME Inv, Truth, NEW p \in Process, FlatToDatatree(p) PROVE Truth'
<1> DEFINE t == IF tree.ana # {} THEN tree ELSE [tree EXCEPT !.ana = {"root", "kids"}]
<1>1. pc[p] = "exec" /\ job[p].ops # <<>> /\ Head(job[p].ops) = "datatree"  BY DEF FlatToDatatree, Doing
<1>2. job[p].at = 1 /\ Steady(tree) /\ Summaries(tree) /\ job[p].ops = <<"datatree">>
  BY <1>1, Executing, WhereOp
<1>3. Rest(p) = <<>>  BY <1>2 DEF Rest
<1>4. Does(p, t, <<>>)  BY <1>3 DEF FlatToDatatree
<1>5. t \in Trees /\ t.legacy = tree.legacy /\ t.skips = tree.skips /\ t.flat = tree.flat /\ t.exp = tree.exp
      /\ t.raw = tree.raw /\ t.ana = IF tree.ana # {} THEN tree.ana ELSE {"root", "kids"}
  <2>1. tree \in Trees  BY <1>1, Executing
  <2>2. [tree EXCEPT !.ana = {"root", "kids"}] \in Trees  BY <2>1 DEF Trees, Parts
  <2> QED BY <2>1, <2>2 DEF Trees
<1> HIDE DEF t
<1>6. tree.legacy \subseteq tree.skips /\ (tree.skips = {} => tree.exp = {})
  BY <1>1, <1>2, Executing DEF Near, Applied
<1>7. "current" \notin {"root", "kids"} /\ {"root", "kids"} # {}  OBVIOUS
<1>8. Shape(t)  BY <1>1, <1>5, <1>6, <1>7, Executing DEF Shape
<1>9. Steady(t)  BY <1>2, <1>5 DEF Steady, Stores, Raw
<1>10. Near(job[p].at, t)
  BY <1>1, <1>2, <1>5, <1>6, <1>7, Executing DEF Near, Applied
<1>11. Applied(2, t)  BY <1>5, <1>6 DEF Applied
<1>12. ~Bare(tree)  BY <1>2 DEF Bare, Summaries
<1>13. Halfway([job[p] EXCEPT !.ops = <<>>], t)
  BY <1>1, <1>2, <1>9, <1>11, Executing, OpsTypes DEF Halfway
<1> QED BY <1>1, <1>4, <1>5, <1>8, <1>10, <1>12, <1>13, Executing, OpsTypes, ExecStep

LEMMA ConventionTruth == ASSUME Inv, Truth, NEW p \in Process, SetConvention(p) PROVE Truth'
<1> DEFINE t == [tree EXCEPT !.ana = @ \cup {"root", "conventions"}]
<1>1. pc[p] = "exec" /\ job[p].ops # <<>> /\ Head(job[p].ops) = "convention"  BY DEF SetConvention, Doing
<1>2. job[p].at = 2 /\ Steady(tree) /\ "attrs" \in tree.ana /\ job[p].ops = <<"convention">>
  BY <1>1, Executing, WhereOp
<1>3. Rest(p) = <<>>  BY <1>2 DEF Rest
<1>4. Does(p, t, <<>>)  BY <1>3 DEF SetConvention
<1>5. t \in Trees /\ t.legacy = tree.legacy /\ t.skips = tree.skips /\ t.flat = tree.flat /\ t.exp = tree.exp
      /\ t.raw = tree.raw /\ t.ana = tree.ana \cup {"root", "conventions"}
  BY <1>1, Executing DEF Trees, Parts
<1> HIDE DEF t
<1>6. t.ana \in {Full, Produced, Demoted} /\ (tree.ana = Produced => t.ana = Produced)
  BY <1>2, <1>5 DEF Steady, Stores, Full, Produced, Demoted
<1>7. tree.ana # {} /\ ("current" \in t.ana <=> "current" \in tree.ana)  BY <1>2, <1>5
<1>8. Shape(t)  BY <1>1, <1>5, <1>6, <1>7, Executing DEF Shape
<1>9. Steady(t)  BY <1>2, <1>5, <1>6 DEF Steady, Stores, Raw
<1>10. Near(job[p].at, t) /\ Applied(3, t)
  <2>1. Near(2, tree)  BY <1>1, <1>2, Executing
  <2>2. {"attrs", "conventions"} \subseteq t.ana /\ t.ana # {}  BY <1>2, <1>5
  <2> QED BY <1>2, <1>5, <1>7, <2>1, <2>2 DEF Near, Applied
<1>11. ~Bare(tree)
  BY <1>1, <1>2, <1>7, Executing DEF Bare, Near, Produced
<1>12. Halfway([job[p] EXCEPT !.ops = <<>>], t)
  BY <1>1, <1>2, <1>9, <1>10, Executing, OpsTypes DEF Halfway
<1> QED BY <1>1, <1>4, <1>5, <1>8, <1>10, <1>11, <1>12, Executing, OpsTypes, ExecStep

(* The operations of V0021 touch the consolidated store only.              *)
LEMMA StoreStep ==
  ASSUME Inv, Truth, NEW p \in Process, pc[p] = "exec", job[p].at = 3, tree.ana # {},
         NEW S \in SUBSET Parts, NEW ops \in Seq(Ops), Does(p, [tree EXCEPT !.ana = S], ops),
         S # {}, {"attrs", "conventions"} \subseteq S, "current" \notin S,
         Halfway([job[p] EXCEPT !.ops = ops], [tree EXCEPT !.ana = S])
  PROVE  Truth'
<1> DEFINE t == [tree EXCEPT !.ana = S]
<1>1. t \in Trees /\ t.legacy = tree.legacy /\ t.skips = tree.skips /\ t.flat = tree.flat /\ t.exp = tree.exp
      /\ t.raw = tree.raw /\ t.ana = S
  BY Executing DEF Trees
<1> HIDE DEF t
<1>2. tree.skips = {} => tree.exp = {} /\ tree.ana # Produced
  BY Executing DEF Near, Shape, Produced
<1>3. Shape(t)  BY <1>1, <1>2, Executing DEF Shape
<1>4. ~Bare(tree)  BY <1>2 DEF Bare
<1>5. Near(3, t)  BY <1>1, Executing DEF Near, Applied
<1> QED BY <1>1, <1>3, <1>4, <1>5, Executing, ExecStep DEF t

LEMMA UnifyTruth == ASSUME Inv, Truth, NEW p \in Process, Unify(p) PROVE Truth'
<1>1. pc[p] = "exec" /\ job[p].ops # <<>> /\ Head(job[p].ops) = "unify"  BY DEF Unify, Doing
<1>2. job[p].at = 3 /\ Steady(tree) /\ tree.ana \in {Full, Produced, Demoted}
      /\ job[p].ops = <<"unify", "move_dir">>
  BY <1>1, Executing, WhereOp
<1>3. Rest(p) = <<"move_dir">> /\ <<"mint", "move", "params">> \o Rest(p) = <<"mint", "move", "params", "move_dir">>
  <2>1. Rest(p) = <<"move_dir">>  BY <1>2 DEF Rest
  <2> DEFINE a == <<"mint", "move", "params">>  b == <<"move_dir">>  c == <<"mint", "move", "params", "move_dir">>
  <2>2. a \o b = c
    <3>1. a \in Seq(Ops) /\ b \in Seq(Ops) /\ c \in Seq(Ops)  BY OpsTypes DEF Ops
    <3>2. Len(a) = 3 /\ Len(b) = 1 /\ Len(c) = 4 /\ a[1] = c[1] /\ a[2] = c[2] /\ a[3] = c[3] /\ b[1] = c[4]
      OBVIOUS
    <3> HIDE DEF a, b, c
    <3>3. /\ a \o b \in Seq(Ops) /\ Len(a \o b) = Len(a) + Len(b)
          /\ \A i \in 1..Len(a) + Len(b) : (a \o b)[i] = IF i <= Len(a) THEN a[i] ELSE b[i - Len(a)]
      BY <3>1, ConcatProperties
    <3>4. (a \o b)[1] = c[1] /\ (a \o b)[2] = c[2] /\ (a \o b)[3] = c[3] /\ (a \o b)[4] = c[4]
      BY <3>2, <3>3
    <3>5. \A i \in 1..Len(a \o b) : (a \o b)[i] = c[i]
      <4>1. Len(a \o b) = 4  BY <3>2, <3>3
      <4>2. \A i \in 1..4 : i = 1 \/ i = 2 \/ i = 3 \/ i = 4  OBVIOUS
      <4> QED BY <3>4, <4>1, <4>2
    <3>6. Len(a \o b) = Len(c)  BY <3>2, <3>3
    <3> QED BY <3>1, <3>3, <3>5, <3>6, SeqEqual
  <2> QED BY <2>1, <2>2
<1>4. CASE tree.ana \in {Full, Produced}
  <2>1. Does(p, tree, <<"mint", "move", "params", "move_dir">>)  BY <1>3, <1>4 DEF Unify, Full, Produced
  <2>2. Halfway([job[p] EXCEPT !.ops = <<"mint", "move", "params", "move_dir">>], tree)
    BY <1>1, <1>2, <1>4, Executing, OpsTypes DEF Halfway, Steady
  <2> QED BY <1>1, <2>1, <2>2, Executing, OpsTypes, ExecStep
<1>5. CASE tree.ana = Demoted
  <2>1. Does(p, tree, <<"move_dir">>)  BY <1>3, <1>5 DEF Unify, Demoted
  <2>2. Halfway([job[p] EXCEPT !.ops = <<"move_dir">>], tree)
    BY <1>1, <1>2, <1>5, Executing, OpsTypes DEF Halfway, Steady
  <2> QED BY <1>1, <2>1, <2>2, Executing, OpsTypes, ExecStep
<1> QED BY <1>2, <1>4, <1>5

LEMMA MintTruth == ASSUME Inv, Truth, NEW p \in Process, Mint(p) PROVE Truth'
<1> DEFINE S == Full \cup {"member"}
<1>1. pc[p] = "exec" /\ job[p].ops # <<>> /\ Head(job[p].ops) = "mint"  BY DEF Mint, Doing
<1>2. job[p].at = 3 /\ Steady(tree) /\ tree.ana \in {Full, Produced}
      /\ job[p].ops = <<"mint", "move", "params", "move_dir">>
  BY <1>1, Executing, WhereOp
<1>3. Rest(p) = <<"move", "params", "move_dir">>  BY <1>2 DEF Rest
<1>4. (tree.ana \ {"moved", "current"}) \cup {"member"} = S /\ S \in SUBSET Parts /\ S # {} /\ tree.ana # {}
      /\ {"attrs", "conventions"} \subseteq S /\ "current" \notin S
  BY <1>2 DEF Full, Produced, Parts
<1>5. [tree EXCEPT !.ana = (@ \ {"moved", "current"}) \cup {"member"}] = [tree EXCEPT !.ana = S]
  BY <1>1, <1>4, Executing DEF Trees
<1>6. Does(p, [tree EXCEPT !.ana = S], <<"move", "params", "move_dir">>)  BY <1>3, <1>5 DEF Mint
<1>7. Halfway([job[p] EXCEPT !.ops = <<"move", "params", "move_dir">>], [tree EXCEPT !.ana = S])
  BY <1>1, <1>2, Executing, OpsTypes DEF Halfway, Steady, Raw, Trees
<1> QED BY <1>1, <1>2, <1>4, <1>6, <1>7, OpsTypes, StoreStep

LEMMA MoveGroupsTruth == ASSUME Inv, Truth, NEW p \in Process, MoveGroups(p) PROVE Truth'
<1> DEFINE S == Demoted \ {"params"}
<1>1. pc[p] = "exec" /\ job[p].ops # <<>> /\ Head(job[p].ops) = "move"  BY DEF MoveGroups, Doing
<1>2. job[p].at = 3 /\ Raw(tree) /\ tree.ana = Full \cup {"member"} /\ job[p].ops = <<"move", "params", "move_dir">>
  BY <1>1, Executing, WhereOp
<1>3. Rest(p) = <<"params", "move_dir">>  BY <1>2 DEF Rest
<1>4. (tree.ana \ {"kids"}) \cup {"member", "moved"} = S /\ S \in SUBSET Parts /\ S # {} /\ tree.ana # {}
      /\ {"attrs", "conventions"} \subseteq S /\ "current" \notin S /\ "kids" \in tree.ana
  BY <1>2 DEF Full, Demoted, Parts
<1>5. [tree EXCEPT !.ana = (@ \ {"kids"}) \cup {"member", "moved"}] = [tree EXCEPT !.ana = S]
  BY <1>1, <1>4, Executing DEF Trees
<1>6. Does(p, [tree EXCEPT !.ana = S], <<"params", "move_dir">>)  BY <1>3, <1>4, <1>5 DEF MoveGroups
<1>7. Halfway([job[p] EXCEPT !.ops = <<"params", "move_dir">>], [tree EXCEPT !.ana = S])
  BY <1>1, <1>2, Executing, OpsTypes DEF Halfway, Raw, Trees
<1> QED BY <1>1, <1>2, <1>4, <1>6, <1>7, OpsTypes, StoreStep

LEMMA ParametersTruth == ASSUME Inv, Truth, NEW p \in Process, AppendParameters(p) PROVE Truth'
<1>1. pc[p] = "exec" /\ job[p].ops # <<>> /\ Head(job[p].ops) = "params"  BY DEF AppendParameters, Doing
<1>2. job[p].at = 3 /\ Raw(tree) /\ tree.ana = Demoted \ {"params"} /\ job[p].ops = <<"params", "move_dir">>
  BY <1>1, Executing, WhereOp
<1>3. Rest(p) = <<"move_dir">>  BY <1>2 DEF Rest
<1>4. tree.ana \cup {"root", "params"} = Demoted /\ Demoted \in SUBSET Parts /\ Demoted # {} /\ tree.ana # {}
      /\ {"attrs", "conventions"} \subseteq Demoted /\ "current" \notin Demoted
  BY <1>2 DEF Demoted, Parts
<1>5. [tree EXCEPT !.ana = @ \cup {"root", "params"}] = [tree EXCEPT !.ana = Demoted]
  BY <1>1, <1>4, Executing DEF Trees
<1>6. Does(p, [tree EXCEPT !.ana = Demoted], <<"move_dir">>)  BY <1>3, <1>5 DEF AppendParameters
<1>7. Halfway([job[p] EXCEPT !.ops = <<"move_dir">>], [tree EXCEPT !.ana = Demoted])
  BY <1>1, <1>2, Executing, OpsTypes DEF Halfway, Raw, Trees
<1> QED BY <1>1, <1>2, <1>4, <1>6, <1>7, OpsTypes, StoreStep

LEMMA MoveDirTruth == ASSUME Inv, Truth, NEW p \in Process, MoveDir(p) PROVE Truth'
<1> DEFINE t == [tree EXCEPT !.exp = tree.ana, !.ana = {}]
<1>1. pc[p] = "exec" /\ job[p].ops # <<>> /\ Head(job[p].ops) = "move_dir"  BY DEF MoveDir, Doing
<1>2. job[p].at = 3 /\ Steady(tree) /\ tree.ana = Demoted /\ job[p].ops = <<"move_dir">>
  BY <1>1, Executing, WhereOp
<1>3. Rest(p) = <<>>  BY <1>2 DEF Rest
<1>4. tree.ana # {}  BY <1>2 DEF Demoted
<1>5. CASE tree.exp # {}
  <2>1. Ends(p) /\ UNCHANGED <<record, tree>>  BY <1>4, <1>5 DEF MoveDir, Raises
  <2> QED BY <1>2, <2>1, EndsTruth
<1>6. CASE tree.exp = {}
  <2>1. Does(p, t, <<>>)  BY <1>3, <1>4, <1>6 DEF MoveDir
  <2>2. t \in Trees /\ t.legacy = tree.legacy /\ t.skips = tree.skips /\ t.flat = tree.flat /\ t.exp = Demoted
        /\ t.raw = tree.raw /\ t.ana = {}
    BY <1>1, <1>2, Executing DEF Trees, Parts
  <2> HIDE DEF t
  <2>3. Demoted # {} /\ Demoted # Produced  BY DEF Demoted, Produced
  <2>4. Shape(t) /\ Steady(t)
    BY <1>1, <1>2, <1>4, <2>2, <2>3, Executing DEF Shape, Steady, Stores, Raw
  <2>5. ~Bare(tree)  BY <1>2, <1>4, <2>3 DEF Bare
  <2>6. Near(job[p].at, t) /\ Applied(4, t)
    BY <1>1, <1>2, <2>2, <2>3, Executing DEF Near, Applied
  <2>7. Halfway([job[p] EXCEPT !.ops = <<>>], t)
    BY <1>1, <1>2, <2>4, <2>6, Executing, OpsTypes DEF Halfway, Steady
  <2> QED BY <1>1, <2>1, <2>2, <2>4, <2>5, <2>6, <2>7, Executing, OpsTypes, ExecStep
<1> QED BY <1>5, <1>6

(* The operations of V0028 touch the raw store and its sibling only.       *)
LEMMA RawStep ==
  ASSUME Inv, Truth, NEW p \in Process, pc[p] = "exec", job[p].at = 4, tree.raw \in {"old", "lost"},
         NEW t \in Trees, t.legacy = tree.legacy, t.skips = tree.skips, t.flat = tree.flat,
         t.ana = tree.ana, t.exp = tree.exp,
         NEW ops \in Seq(Ops), Does(p, t, ops), Halfway([job[p] EXCEPT !.ops = ops], t)
  PROVE  Truth'
<1>1. tree.flat # "none" /\ ~Bare(tree)  BY Executing DEF Shape, Bare
<1>2. Shape(t)  BY <1>1, Executing DEF Shape
<1>3. Near(job[p].at, t)  BY Executing DEF Near, Applied
<1> QED BY <1>1, <1>2, <1>3, Executing, ExecStep

LEMMA ReplaceTruth == ASSUME Inv, Truth, NEW p \in Process, ReplaceValues(p) PROVE Truth'
<1> DEFINE t == [tree EXCEPT !.tmp = TRUE]
<1>1. pc[p] = "exec" /\ job[p].ops # <<>> /\ Head(job[p].ops) = "replace"  BY DEF ReplaceValues, Doing
<1>2. job[p].at = 4 /\ Steady(tree) /\ tree.raw = "old" /\ job[p].ops = <<"replace">>
  BY <1>1, Executing, WhereOp
<1>3. Rest(p) = <<>> /\ <<"rmroot", "swap">> \o Rest(p) = <<"rmroot", "swap">>  BY <1>2 DEF Rest
<1>4. Does(p, t, <<"rmroot", "swap">>)  BY <1>2, <1>3 DEF ReplaceValues
<1>5. t \in Trees /\ t.legacy = tree.legacy /\ t.skips = tree.skips /\ t.flat = tree.flat /\ t.exp = tree.exp /\ t.raw = tree.raw
      /\ t.ana = tree.ana /\ t.tmp
  BY <1>1, Executing DEF Trees
<1> HIDE DEF t
<1>6. Stores(t)  BY <1>2, <1>5 DEF Steady, Stores
<1>7. Halfway([job[p] EXCEPT !.ops = <<"rmroot", "swap">>], t)
  BY <1>1, <1>2, <1>5, <1>6, Executing, OpsTypes DEF Halfway
<1> QED BY <1>1, <1>2, <1>4, <1>5, <1>7, OpsTypes, RawStep

LEMMA RemoveTruth == ASSUME Inv, Truth, NEW p \in Process, RemoveStore(p) PROVE Truth'
<1> DEFINE t == [tree EXCEPT !.raw = "lost"]
<1>1. pc[p] = "exec" /\ job[p].ops # <<>> /\ Head(job[p].ops) = "rmroot"  BY DEF RemoveStore, Doing
<1>2. job[p].at = 4 /\ Steady(tree) /\ tree.raw = "old" /\ tree.tmp /\ job[p].ops = <<"rmroot", "swap">>
  BY <1>1, Executing, WhereOp
<1>3. Rest(p) = <<"swap">>  BY <1>2 DEF Rest
<1>4. Does(p, t, <<"swap">>)  BY <1>2, <1>3 DEF RemoveStore
<1>5. t \in Trees /\ t.legacy = tree.legacy /\ t.skips = tree.skips /\ t.flat = tree.flat /\ t.exp = tree.exp /\ t.raw = "lost"
      /\ t.ana = tree.ana /\ t.tmp
  BY <1>1, <1>2, Executing DEF Trees
<1> HIDE DEF t
<1>6. Stores(t)  BY <1>2, <1>5 DEF Steady, Stores
<1>7. Halfway([job[p] EXCEPT !.ops = <<"swap">>], t)
  BY <1>1, <1>2, <1>5, <1>6, Executing, OpsTypes DEF Halfway
<1> QED BY <1>1, <1>2, <1>4, <1>5, <1>7, OpsTypes, RawStep

LEMMA SwapTruth == ASSUME Inv, Truth, NEW p \in Process, SwapStore(p) PROVE Truth'
<1> DEFINE t == [tree EXCEPT !.raw = "new", !.tmp = FALSE]
<1>1. pc[p] = "exec" /\ job[p].ops # <<>> /\ Head(job[p].ops) = "swap"  BY DEF SwapStore, Doing
<1>2. job[p].at = 4 /\ Stores(tree) /\ tree.raw = "lost" /\ tree.tmp /\ job[p].ops = <<"swap">>
  BY <1>1, Executing, WhereOp
<1>3. Rest(p) = <<>>  BY <1>2 DEF Rest
<1>4. Does(p, t, <<>>)  BY <1>2, <1>3 DEF SwapStore
<1>5. t \in Trees /\ t.legacy = tree.legacy /\ t.skips = tree.skips /\ t.flat = tree.flat /\ t.exp = tree.exp /\ t.raw = "new"
      /\ t.ana = tree.ana
  BY <1>1, Executing DEF Trees
<1> HIDE DEF t
<1>6. Stores(t) /\ Applied(5, t)  BY <1>1, <1>2, <1>5, Executing DEF Stores, Near, Applied
<1>7. Halfway([job[p] EXCEPT !.ops = <<>>], t)
  BY <1>1, <1>2, <1>6, Executing, OpsTypes DEF Halfway
<1> QED BY <1>1, <1>2, <1>4, <1>5, <1>7, OpsTypes, RawStep

LEMMA ExecutedTruth == ASSUME Inv, Truth, NEW p \in Process, Executed(p) PROVE Truth'
<1>1. pc[p] = "exec" /\ job[p].ops = <<>> /\ UNCHANGED <<record, tree>> /\ Goes(p, "record") /\ "record" \in Pc
  BY DEF Executed, Pc
<1>2. Applied(job[p].at + 1, tree) /\ Steady(tree)
  <2>1. tree.legacy \subseteq tree.skips => Applied(1, tree)  BY DEF Applied
  <2>3. Applied(5, tree) => Raw(tree)  BY DEF Applied, Raw
  <2>4. Halfway(job[p], tree)  BY <1>1, Executing
  <2> QED BY <1>1, <2>1, <2>3, <2>4 DEF Halfway, Steady
<1>3. pc'[p] = "record" /\ job' = job  BY <1>1 DEF Goes, Inv, TypeOK
<1>0. Serves(p)  BY <1>1, Executing, Sole
<1>4. Serves(p)'  BY <1>0, <1>1, <1>2, <1>3 DEF Serves, Has, Bare
<1>5. Pending(p)'  BY <1>1, <1>3, Executing DEF Pending, Applying
<1> QED BY <1>1, <1>2, <1>4, <1>5, GoesTruth

(* A run at work leaves a tree of the latest version.                      *)
LEMMA ProducesTruth ==
  ASSUME Inv, Truth, NEW p \in Process, ClearStores(p) \/ Consolidate(p) \/ ProducesNothing(p)
  PROVE  Truth'
<1>1. /\ pc[p] = "produce" /\ UNCHANGED record /\ tree \in Trees /\ Shape(tree) /\ Open
      /\ Steady(tree)
  BY FilesType DEF ClearStores, Consolidate, ProducesNothing, Produces, Truth, Guests, Open, Busy
<1>2. CASE ProducesNothing(p)  BY <1>1, <1>2, EndsTruth DEF ProducesNothing
<1>3. ASSUME NEW t \in Trees, tree' = t, Shape(t), Steady(t), Near(Last, t), Bare(tree) => Bare(t),
             NEW l \in {"produce", "idle"}, NEW j \in {job[p], NoJob}, Takes(p, l, j)
      PROVE  Truth'
  <2>1. j \in Jobs /\ j.act # "apply" /\ l \in Pc
    BY <1>1, <1>3, Of, NoJobType DEF Open, Applying, NoJob, Pc
  <2>2. pc'[p] = l  BY <1>3 DEF Takes, Inv, TypeOK
  <2>3. Pending(p)'  BY <1>3, <2>2 DEF Pending
  <2>4. Has' => record.version' = Last  BY <1>1 DEF Open, Has
  <2> QED BY <1>1, <1>3, <2>1, <2>3, <2>4, StepTruth DEF Open
<1>4. CASE Consolidate(p)
  <2> DEFINE t == [tree EXCEPT !.ana = Produced]
  <2>1. t \in Trees /\ t.legacy = tree.legacy /\ t.skips = tree.skips /\ t.flat = tree.flat
        /\ t.exp = tree.exp /\ t.raw = tree.raw /\ t.ana = Produced
    BY <1>1 DEF Trees, Parts, Produced
  <2>2. tree' = t /\ Takes(p, "idle", NoJob)  BY <1>4 DEF Consolidate, Produces, Ends
  <2> HIDE DEF t
  <2>3. "current" \in Produced /\ {"attrs", "conventions"} \subseteq Produced  BY DEF Produced
  <2>4. tree.legacy \subseteq tree.skips  BY <1>1 DEF Open, Near, Applied, Last
  <2>5. Shape(t)  BY <1>1, <2>1, <2>3, <2>4 DEF Shape
  <2>6. Steady(t)  BY <1>1, <2>1 DEF Steady, Stores, Raw
  <2>7. Near(Last, t)  BY <1>1, <2>1, <2>3 DEF Open, Near, Applied, Last
  <2>8. Bare(tree) => Bare(t)  BY <2>1 DEF Bare
  <2> QED BY <1>3, <2>1, <2>2, <2>5, <2>6, <2>7, <2>8
<1>5. CASE ClearStores(p)
  <2> DEFINE flat == IF tree.flat = "summaries" THEN "spent" ELSE tree.flat
             t == IF tree.exp # {} THEN [tree EXCEPT !.exp = {}, !.flat = flat]
                                   ELSE [tree EXCEPT !.ana = {}, !.flat = flat]
  <2>1. flat \in Flats /\ flat # "summaries" /\ (flat = "none" <=> tree.flat = "none")
    BY <1>1 DEF Trees, Flats
  <2> HIDE DEF flat
  <2>2. t \in Trees /\ t.legacy = tree.legacy /\ t.skips = tree.skips /\ t.flat = flat /\ t.raw = tree.raw
        /\ t.exp = {} /\ t.ana \in {{}, tree.ana}
    BY <1>1, <2>1 DEF Trees
  <2>3. tree' = t /\ Takes(p, "produce", job[p])
    BY <1>1, <1>5 DEF ClearStores, Produces, Takes, Inv, TypeOK, flat
  <2> HIDE DEF t
  <2>4. Shape(t)  BY <1>1, <2>1, <2>2 DEF Shape
  <2>5. Steady(t)  BY <1>1, <2>2 DEF Steady, Stores, Raw
  <2>6. Near(Last, t)  BY <1>1, <2>1, <2>2 DEF Open, Near, Applied, Last
  <2>7. Bare(tree) => Bare(t)  BY <2>1, <2>2 DEF Bare
  <2> QED BY <1>3, <2>2, <2>3, <2>4, <2>5, <2>6, <2>7
<1> QED BY <1>2, <1>4, <1>5

LEMMA DieTruth == ASSUME Inv, Truth, NEW p \in Process, Die(p), spoilt' = {} PROVE Truth'
<1>1. Ends(p) /\ UNCHANGED <<record, tree>> /\ ~MidOperation(p)  BY DEF Die, Spoil
<1>2. ASSUME pc[p] = "exec" PROVE Steady(tree)
  <2>1. Halfway(job[p], tree) /\ job[p].ops \in Seq(Ops)  BY <1>2, Executing DEF Jobs
  <2>2. CASE job[p].ops = <<>>  BY <2>1, <2>2 DEF Halfway, Steady, Applied, Raw
  <2>3. CASE job[p].ops # <<>>
    <3>1. Head(job[p].ops) \in Ops \ {"move", "params", "swap"}
      BY <1>1, <1>2, <2>1, <2>3, HeadTailProperties DEF MidOperation
    <3> QED BY <1>2, <2>1, <2>3, <3>1, Executing, WhereOp DEF Ops
  <2> QED BY <2>2, <2>3
<1> QED BY <1>1, <1>2, EndsTruth

LEMMA TruthNext == Inv /\ TInv /\ [Next]_vars => TInv'
<1> SUFFICES ASSUME Inv, TInv, [Next]_vars, spoilt' = {} PROVE Truth'  BY DEF TInv
<1>0. spoilt = {}
  <2>1. spoilt \subseteq spoilt'
    BY DEF Next, vars, Spoil, Migrate, Facade, Baseline, Check, Stamp, Acquire, TimesOut, Write, Record,
       Plan, PlanFails, ClearStores, Consolidate, ProducesNothing, Produces, Die, Damage, Discard, Execute, RenameDir, FlatToDatatree, SetConvention, Unify, Mint,
       MoveGroups, AppendParameters, MoveDir, ReplaceValues, RemoveStore, SwapStore, Executed, Does, Raises
  <2> QED BY <2>1
<1>1. Truth  BY <1>0 DEF TInv
<1>2. CASE UNCHANGED vars
  <2>1. UNCHANGED <<record, tree, pc, job>>  BY <1>2 DEF vars
  <2>2. \A p \in Process : (Serves(p) => Serves(p)') /\ (Applying(p)' <=> Applying(p))
                           /\ (Pending(p)' <=> Pending(p))
    BY <2>1 DEF Serves, Applying, Pending, Has
  <2>3. Guests'  BY <1>1, <2>1, <2>2 DEF Truth, Guests, Open, Has
  <2> QED BY <1>1, <2>1, <2>2, <2>3 DEF Truth, Busy, Alone, Has
<1>3. CASE Damage \/ Discard  BY <1>1, <1>3, EnvironmentTruth
<1>4. CASE Next /\ ~(Damage \/ Discard)
  <2>1. PICK p \in Process :
          \/ \E act \in {"apply", "dry"}, goal \in Goals : Migrate(p, act, goal)
          \/ \E act \in {"fresh", "construction"} : Facade(p, act)
          \/ \E v \in Restated, force \in BOOLEAN : Baseline(p, v, force)
          \/ Check(p) \/ Stamp(p) \/ Acquire(p) \/ TimesOut(p) \/ Write(p) \/ Record(p)
          \/ Plan(p) \/ PlanFails(p) \/ Execute(p) \/ Die(p)
          \/ ClearStores(p) \/ Consolidate(p) \/ ProducesNothing(p)
    BY <1>4 DEF Next
  <2>2. CASE Execute(p)
    BY <1>1, <2>2, RenameTruth, DatatreeTruth, ConventionTruth, UnifyTruth, MintTruth, MoveGroupsTruth,
       ParametersTruth, MoveDirTruth, ReplaceTruth, RemoveTruth, SwapTruth, ExecutedTruth DEF Execute
  <2>3. CASE ~Execute(p)
    BY <1>1, <2>1, <2>3, MigrateTruth, FacadeTruth, BaselineTruth, CheckTruth, StampTruth, AcquireTruth,
       TimesOutTruth, WriteTruth, RecordTruth, PlanTruth, PlanFailsTruth, DieTruth, ProducesTruth
  <2> QED BY <2>2, <2>3
<1> QED BY <1>2, <1>3, <1>4

(* A record tells the truth about its tree, whatever was migrated, died,   *)
(* stamped or restated in between, unless the tree was spoilt.             *)
THEOREM RecordHolds == Spec => []RecordTruthful
<1>1. Init => TInv  BY TruthInit DEF TInv
<1>2. TInv => RecordTruthful  BY DEF TInv, Truth, Near, RecordTruthful, Truthful
<1> QED BY <1>1, <1>2, InitInv, NextInv, TruthNext, PTL DEF Spec

(* The ladder infers no migration that was not applied.                    *)
THEOREM LadderHolds == Spec => []LadderSound
<1>1. Init => TInv  BY TruthInit DEF TInv
<1>2. Inv /\ TInv => LadderSound
  <2> SUFFICES ASSUME Inv, Truth, Infer(tree) # Unknown PROVE Applied(Infer(tree), tree)
    BY DEF TInv, LadderSound
  <2>1. tree \in Trees /\ Shape(tree)  BY FilesType DEF Truth
  <2> QED BY <2>1, LadderNear DEF Near
<1> QED BY <1>1, <1>2, InitInv, NextInv, TruthNext, PTL DEF Spec
=============================================================================
