----------------------------- MODULE JobHistory -----------------------------
(***************************************************************************)
(* The record of the SLURM jobs of an analysis (slurm_job_recovery.py and  *)
(* slurm_store.py).  Accounting answers late, partially and for a limited  *)
(* time; a capture asks it about every job the analysis knows of, amends a *)
(* CSV with the answer, and merges the answer into a store that it         *)
(* publishes by rename.  A row is what was recorded of one execution: a    *)
(* job that SLURM requeues executes again under the same job id, and only  *)
(* the time of submission tells its executions apart.                      *)
(*                                                                         *)
(* Captures follow one another: the export rule of a workflow runs once,   *)
(* and nothing protects two writers of one store from each other.          *)
(***************************************************************************)
EXTENDS Naturals, FiniteSets

CONSTANTS
  Job,
  MaxSubmit, \* bound on the executions of one job
  NoRow,     \* nothing is recorded of an execution
  NoStore,   \* no directory of that name
  Partial,   \* a store that is being written
  MaxFaults  \* bound on captures that die, raise or cannot read the CSV

Submit == 1 .. MaxSubmit
Key == Job \X Submit

(* done: the State is terminal.  work: what the accounting measured, which *)
(* is 0 where the field is empty and otherwise differs between executions. *)
Rows  == [done : BOOLEAN, work : {0} \cup Submit]
Row(d, w) == [done |-> d, work |-> w]
Table == [Key -> Rows \cup {NoRow}]

ASSUME HistoryAssumption ==
  /\ MaxSubmit \in Nat /\ MaxFaults \in Nat
  /\ NoRow \notin Rows
  /\ NoStore \notin Table /\ Partial \notin Table /\ NoStore # Partial

VARIABLES
  acct,    \* [Key -> {"none", "running", "settled", "purged"}]: sacct's view
  known,   \* the jobs that logs, job index or efficiency reports name
  csv,     \* job_level_recovery.csv
  final, tmp, aside,  \* the published store and its two siblings
  pc,      \* the place of the capture
  answer,  \* recover_rows' result
  merged,  \* what write_store is to write
  faults,  \* how many of them there have been, up to MaxFaults
  hit      \* history: "gap", "torn", "unread", see Die, TearCsv, AmendUnread

disk  == <<csv, final, tmp, aside>>
world == <<acct, known>>
local == <<answer, merged>>
vars  == <<world, disk, pc, local, faults, hit>>

Empty == [k \in Key |-> NoRow]
Store == Table \cup {NoStore}

TypeOK ==
  /\ acct \in [Key -> {"none", "running", "settled", "purged"}]
  /\ known \subseteq Job
  /\ csv \in Table
  /\ final \in Store /\ aside \in Store /\ tmp \in Store \cup {Partial}
  /\ pc \in {"idle", "amend", "read", "recover", "build", "built", "place", "sweep"}
  /\ answer \in Table /\ merged \in Table
  /\ faults \in 0 .. MaxFaults
  /\ hit \subseteq {"gap", "torn", "unread"}

Init ==
  /\ acct = [k \in Key |-> "none"]
  /\ known = {}
  /\ csv = Empty /\ final = NoStore /\ tmp = NoStore /\ aside = NoStore
  /\ pc = "idle"
  /\ answer = Empty /\ merged = Empty
  /\ faults = 0 /\ hit = {}

---------------------------------------------------------------------------
(* Jobs and their accounting.                                              *)

(* Snakemake submits a job, or SLURM requeues it under the same id.        *)
Execute(j, n) ==
  /\ acct[<<j, n>>] = "none"
  /\ n > 1 => acct[<<j, n - 1>>] \in {"settled", "purged"}
  /\ acct' = [acct EXCEPT ![<<j, n>>] = "running"]
  /\ known' = known \cup {j}
  /\ UNCHANGED <<disk, pc, local, faults, hit>>

Settle(k) ==
  /\ acct[k] = "running"
  /\ acct' = [acct EXCEPT ![k] = "settled"]
  /\ UNCHANGED <<known, disk, pc, local, faults, hit>>

(* The retention window closes.                                            *)
AgeOut(k) ==
  /\ acct[k] = "settled"
  /\ acct' = [acct EXCEPT ![k] = "purged"]
  /\ UNCHANGED <<known, disk, pc, local, faults, hit>>

(* The executor plugin prunes its logs and reports by age.                 *)
LogsPruned(j) ==
  /\ j \in known
  /\ known' = known \ {j}
  /\ UNCHANGED <<acct, disk, pc, local, faults, hit>>

(* What sacct may report of an execution: nothing, what it is, or a fresher*)
(* read that is emptier, or not yet terminal although the job is.          *)
Reportable(k) ==
  {NoRow} \cup CASE acct[k] = "running" -> {Row(FALSE, 0)}
                 [] acct[k] = "settled" -> {Row(TRUE, k[2]), Row(TRUE, 0), Row(FALSE, 0)}
                 [] OTHER -> {}

---------------------------------------------------------------------------
(* The capture.                                                            *)

Captured(table) == {j \in Job : \E n \in Submit : table[<<j, n>>] # NoRow}

(* Variant of Roster: the executor's own records alone.                    *)
Roster_LogsOnly == known

(* Every source of job ids, the rows already held included.                *)
Roster == known \cup Captured(csv)

(* backfill, up to recover_rows: a chunk that times out contributes no row.*)
Ask(rows) ==
  /\ pc = "idle"
  /\ \A k \in Key : rows[k] \in Reportable(k) /\ (k[1] \notin Roster => rows[k] = NoRow)
  /\ answer' = rows
  /\ pc' = "amend"
  /\ UNCHANGED <<world, disk, merged, faults, hit>>

(* Field-wise, non-empty wins: the State is never empty.                   *)
Overlay(old, new) == Row(new.done, IF new.work # 0 THEN new.work ELSE old.work)

(* Variant of Amended: the file is a snapshot of this answer.              *)
Amended_Snapshot(stored) == answer

(* Variant of Amended: only rows that are not held yet.                    *)
Amended_NewRows(stored) ==
  [k \in Key |-> IF stored[k] = NoRow THEN answer[k] ELSE stored[k]]

(* Variant of Amended: an empty new value overwrites a stored one.         *)
Amended_ByRow(stored) ==
  [k \in Key |-> IF answer[k] = NoRow THEN stored[k] ELSE answer[k]]

Amended(stored) ==
  [k \in Key |-> CASE answer[k] = NoRow -> stored[k]
                   [] stored[k] = NoRow -> answer[k]
                   [] OTHER             -> Overlay(stored[k], answer[k])]

(* write_recovery_csv.                                                     *)
Amend ==
  /\ pc = "amend"
  /\ csv' = Amended(csv)
  /\ pc' = "read"
  /\ UNCHANGED <<world, final, tmp, aside, local, faults, hit>>

(* The file is there and cannot be read, for which it is taken for empty:  *)
(* it is replaced by the answer at hand, unless that is empty, too.        *)
AmendUnread ==
  /\ pc = "amend" /\ csv # Empty /\ faults < MaxFaults
  /\ csv' = IF Amended(Empty) = Empty THEN csv ELSE Amended(Empty)
  /\ pc' = "read"
  /\ faults' = faults + 1
  /\ hit' = hit \cup {"unread"}
  /\ UNCHANGED <<world, final, tmp, aside, local>>

(* Variant of MergeRows: the last read wins.                               *)
MergeRows_Recency(stored, incoming) ==
  [k \in Key |-> CASE incoming[k] = NoRow -> stored[k]
                   [] stored[k] = NoRow   -> incoming[k]
                   [] OTHER               -> Overlay(stored[k], incoming[k])]

(* Variant of MergeRows: rows are told apart by their job id alone.        *)
MergeRows_ByJob(stored, incoming) ==
  [k \in Key |->
     LET seen == {n \in Submit : incoming[<<k[1], n>>] # NoRow} IN
     IF seen = {} THEN stored[k]
                  ELSE incoming[<<k[1], CHOOSE n \in seen : \A o \in seen : n >= o>>]]

(* merge, never replace; a row that is not terminal leaves a terminal one. *)
MergeRows(stored, incoming) ==
  [k \in Key |-> CASE incoming[k] = NoRow -> stored[k]
                   [] stored[k] = NoRow   -> incoming[k]
                   [] stored[k] # NoRow /\ incoming[k] # NoRow
                        /\ stored[k].done /\ ~incoming[k].done -> stored[k]
                   [] OTHER               -> Overlay(stored[k], incoming[k])]

ReadRows == IF final = NoStore THEN Empty ELSE final

Finish == pc' = "idle" /\ answer' = Empty /\ merged' = Empty

(* write_store, up to the publisher; an empty merge is not written.        *)
ReadStore ==
  /\ pc = "read"
  /\ LET m == MergeRows(ReadRows, answer) IN
     IF m = Empty THEN Finish
                  ELSE merged' = m /\ pc' = "recover" /\ answer' = Empty
  /\ UNCHANGED <<world, disk, faults, hit>>

(* _recover_and_clear_publish_temps.                                       *)
Recover ==
  /\ pc = "recover"
  /\ final' = IF final # NoStore \/ aside = NoStore THEN final
              ELSE IF tmp # NoStore THEN tmp ELSE aside
  /\ aside' = NoStore /\ tmp' = NoStore
  /\ pc' = "build"
  /\ UNCHANGED <<world, csv, local, faults, hit>>

Build ==
  /\ pc = "build"
  /\ tmp' = Partial
  /\ pc' = "built"
  /\ UNCHANGED <<world, csv, final, aside, local, faults, hit>>

(* Variant of SetAside: the renames do not wait for the store.             *)
SetAside_Early ==
  /\ pc = "built"
  /\ merged' = Empty
  /\ IF final # NoStore THEN aside' = final /\ final' = NoStore ELSE UNCHANGED <<aside, final>>
  /\ pc' = "place"
  /\ UNCHANGED <<world, csv, tmp, answer, faults, hit>>

(* The store is complete; the published one, if any, makes room.           *)
SetAside ==
  /\ pc = "built"
  /\ tmp' = merged /\ merged' = Empty
  /\ IF final # NoStore THEN aside' = final /\ final' = NoStore ELSE UNCHANGED <<aside, final>>
  /\ pc' = "place"
  /\ UNCHANGED <<world, csv, answer, faults, hit>>

Place ==
  /\ pc = "place"
  /\ final' = tmp /\ tmp' = NoStore
  /\ pc' = "sweep"
  /\ UNCHANGED <<world, csv, aside, local, faults, hit>>

Sweep ==
  /\ pc = "sweep"
  /\ aside' = NoStore
  /\ Finish
  /\ UNCHANGED <<world, csv, final, tmp, faults, hit>>

(* The process dies, or a step of the store raises, which backfill reports *)
(* and swallows.  Between the two renames nothing is published: the next   *)
(* capture reads an empty store before it recovers the one set aside.      *)
Die ==
  /\ pc # "idle" /\ faults < MaxFaults
  /\ Finish
  /\ faults' = faults + 1
  /\ hit' = IF pc = "place" /\ aside # NoStore THEN hit \cup {"gap"} ELSE hit
  /\ UNCHANGED <<world, disk>>

(* The process dies inside write_text: some of the rows are in the file.   *)
TearCsv ==
  /\ pc = "amend" /\ faults < MaxFaults
  /\ \E S \in SUBSET Key : csv' = [k \in Key |-> IF k \in S THEN Amended(csv)[k] ELSE NoRow]
  /\ Finish
  /\ faults' = faults + 1
  /\ hit' = hit \cup {"torn"}
  /\ UNCHANGED <<world, final, tmp, aside>>

CaptureStep == Amend \/ ReadStore \/ Recover \/ Build \/ SetAside \/ Place \/ Sweep

Next ==
  \/ \E j \in Job, n \in Submit : Execute(j, n)
  \/ \E k \in Key : Settle(k) \/ AgeOut(k)
  \/ \E j \in Job : LogsPruned(j)
  \/ \E rows \in Table : Ask(rows)
  \/ CaptureStep
  \/ Die \/ TearCsv \/ AmendUnread

Spec == Init /\ [][Next]_vars

(* Workflows over the analysis go on ending with their export rule, a      *)
(* capture runs on, and sacct does not withhold for ever what it retains.  *)
Reported(k) == answer'[k] = Row(TRUE, k[2])
Fairness ==
  /\ WF_vars(\E rows \in Table : Ask(rows))
  /\ WF_vars(CaptureStep \/ AmendUnread)
  /\ \A k \in Key : SF_vars((\E rows \in Table : Ask(rows)) /\ Reported(k))

FairSpec == Spec /\ Fairness

---------------------------------------------------------------------------
(* What is recorded in the store, the one that a publication has not quite *)
(* replaced included.                                                      *)
Held == IF final # NoStore THEN final
        ELSE IF aside # NoStore /\ tmp \in Table THEN tmp ELSE Empty

Keeps(old, new) ==
  old # NoRow => new # NoRow /\ (old.work # 0 => new.work = old.work)

(* "AMEND, never replace": what the CSV has recorded of an execution stays,*)
(* whatever sacct has forgotten since; only a capture that dies writing it,*)
(* or could not read it, takes rows away.                                  *)
CsvAmends == [][faults' = faults => \A k \in Key : Keeps(csv[k], csv'[k])]_vars

(* So does the store, through partial and emptier answers and deaths at    *)
(* any point but between the two renames; and a terminal row stays so.     *)
StoreAmends ==
  []["gap" \notin hit =>
       \A k \in Key : /\ Keeps(Held[k], Held'[k])
                      /\ Held[k] # NoRow /\ Held[k].done => Held'[k].done]_vars

(* "A failure here loses the consolidation, not the capture": what the     *)
(* store holds of an execution is in the CSV, until a capture has torn the *)
(* CSV or replaced it unread.                                              *)
CapturedFirst ==
  hit \cap {"torn", "unread"} = {} => \A k \in Key : Keeps(Held[k], csv[k])

(* Of the two copies one survives whatever happens to a single capture: it *)
(* dies anywhere, the middle of either write included, its store fails, or *)
(* it cannot read the CSV.  What either copy has recorded of an execution  *)
(* one of them goes on recording.                                          *)
OneFailureLosesNothing ==
  [][faults' <= 1 =>
       \A k \in Key, t \in {csv, Held} :
         \E u \in {csv', Held'} : Keeps(t[k], u[k])]_vars

(* What is recorded of an execution is its own, not that of the execution  *)
(* which a requeue has started under the same job id.                      *)
OwnRecord ==
  \A k \in Key, t \in {csv, Held} : t[k] # NoRow => t[k].work \in {0, k[2]}

(* What accounting retains of a job that the analysis still knows of, if   *)
(* only by its rows, is recorded in the end, also of an execution that was *)
(* first seen running or that a damaged record has lost.                   *)
RecordedInTheEnd ==
  \A k \in Key :
    <>[](acct[k] = "settled" /\ k[1] \in known \cup Captured(csv))
      => <>[](Held[k] = Row(TRUE, k[2]))
=============================================================================
