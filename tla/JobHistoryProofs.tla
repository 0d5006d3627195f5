-------------------------- MODULE JobHistoryProofs --------------------------
(***************************************************************************)
(* Theorems about JobHistory, for any jobs, executions and faults.         *)
(***************************************************************************)
EXTENDS JobHistory, TLAPS

(* What is recorded in a table is the execution's own.                     *)
Own(t) == \A k \in Key : t[k] # NoRow => t[k].work \in {0, k[2]}

(* A table loses nothing of another one, and keeps its terminal rows.      *)
Extends(new, old) ==
  \A k \in Key : /\ Keeps(old[k], new[k])
                 /\ old[k] # NoRow /\ old[k].done => new[k].done

(* What a table holds is in the CSV.                                       *)
InCsv(t) == \A k \in Key : Keeps(t[k], csv[k])

OwnOK ==
  /\ Own(csv) /\ Own(answer) /\ Own(merged)
  /\ \A t \in {final, tmp, aside} : t \in Table => Own(t)

(* The siblings of the published store say where the publication stands.   *)
StandOK ==
  /\ pc \in {"build", "built"} => aside = NoStore
  /\ pc = "place" => final = NoStore /\ tmp \in Table
  /\ tmp = Partial => final # NoStore \/ aside = NoStore

(* The CSV is written first, and the store from what the CSV was given.    *)
BehindOK ==
  hit \cap {"torn", "unread"} = {} =>
    /\ InCsv(merged)
    /\ \A t \in {final, tmp, aside} : t \in Table => InCsv(t)
    /\ pc = "read" => InCsv(answer)

(* Short of a death between the renames, a capture that has read the store *)
(* has read all that is held, and what it is to write extends that.        *)
ReadOK ==
  "gap" \notin hit =>
    /\ pc # "place" /\ final = NoStore => aside = NoStore
    /\ pc \in {"recover", "build", "built"} => Extends(merged, Held)

SoundOK == TypeOK /\ OwnOK /\ StandOK
---------------------------------------------------------------------------
(* Rows and tables.                                                        *)

LEMMA RowsType ==
  /\ \A d \in BOOLEAN, w \in {0} \cup Submit :
       Row(d, w) \in Rows /\ Row(d, w).done = d /\ Row(d, w).work = w
  /\ Empty \in Table /\ Own(Empty)
  /\ \A k \in Key : k[1] \in Job /\ k[2] \in Submit /\ Empty[k] = NoRow
BY DEF Row, Rows, Empty, Table, Own, Key

LEMMA OverlayType ==
  ASSUME NEW old \in Rows, NEW new \in Rows
  PROVE  /\ Overlay(old, new) \in Rows
         /\ Overlay(old, new).done = new.done
         /\ Overlay(old, new).work = IF new.work # 0 THEN new.work ELSE old.work
BY DEF Overlay, Row, Rows

(* One row of a merge: it extends what was stored, it is the execution's   *)
(* own, and it holds nothing that neither side held.                       *)
LEMMA MergeRow ==
  ASSUME NEW s \in Table, NEW a \in Table, Own(s), Own(a), NEW k \in Key
  PROVE  LET m == MergeRows(s, a)[k] IN
         /\ m \in Rows \cup {NoRow}
         /\ m # NoRow => m.work \in {0, k[2]}
         /\ Keeps(s[k], m) /\ (s[k] # NoRow /\ s[k].done => m.done)
         /\ m # NoRow => \/ s[k] # NoRow /\ m.work = s[k].work
                         \/ a[k] # NoRow /\ m.work = a[k].work
<1> DEFINE m == MergeRows(s, a)[k]
<1>1. s[k] \in Rows \cup {NoRow} /\ a[k] \in Rows \cup {NoRow} /\ NoRow \notin Rows
  BY HistoryAssumption DEF Table
<1>2. /\ s[k] # NoRow => s[k].work \in {0, k[2]} /\ s[k].done \in BOOLEAN
      /\ a[k] # NoRow => a[k].work \in {0, k[2]} /\ a[k].done \in BOOLEAN
  BY <1>1 DEF Own, Rows
<1>3. CASE a[k] = NoRow
  <2>1. m = s[k] BY <1>3 DEF MergeRows
  <2> QED BY <2>1, <1>1, <1>2 DEF Keeps
<1>4. CASE a[k] # NoRow /\ s[k] = NoRow
  <2>1. m = a[k] BY <1>4 DEF MergeRows
  <2> QED BY <2>1, <1>1, <1>2, <1>4 DEF Keeps
<1>5. CASE a[k] # NoRow /\ s[k] # NoRow /\ s[k].done /\ ~a[k].done
  <2>1. m = s[k] BY <1>5 DEF MergeRows
  <2> QED BY <2>1, <1>1, <1>2, <1>5 DEF Keeps
<1>6. CASE a[k] # NoRow /\ s[k] # NoRow /\ ~(s[k].done /\ ~a[k].done)
  <2>1. m = Overlay(s[k], a[k]) BY <1>6 DEF MergeRows
  <2>2. m \in Rows /\ m.done = a[k].done /\ m.work = IF a[k].work # 0 THEN a[k].work ELSE s[k].work
    BY <2>1, <1>1, <1>6, OverlayType
  <2> QED BY <2>2, <1>1, <1>2, <1>6 DEF Keeps
<1> QED BY <1>3, <1>4, <1>5, <1>6

LEMMA MergeTable ==
  ASSUME NEW s \in Table, NEW a \in Table, Own(s), Own(a)
  PROVE  /\ MergeRows(s, a) \in Table
         /\ Own(MergeRows(s, a))
         /\ Extends(MergeRows(s, a), s)
<1>1. MergeRows(s, a) \in Table BY MergeRow DEF MergeRows, Table
<1> QED BY <1>1, MergeRow DEF Own, Extends

LEMMA AmendRow ==
  ASSUME TypeOK, Own(answer), NEW s \in Table, Own(s), NEW k \in Key
  PROVE  /\ Amended(s)[k] \in Rows \cup {NoRow}
         /\ Amended(s)[k] # NoRow => Amended(s)[k].work \in {0, k[2]}
         /\ Keeps(s[k], Amended(s)[k]) /\ Keeps(answer[k], Amended(s)[k])
         /\ Amended(s)[k] # NoRow => \/ s[k] # NoRow /\ Amended(s)[k].work = s[k].work
                                     \/ answer[k] # NoRow /\ Amended(s)[k].work = answer[k].work
<1>1. s[k] \in Rows \cup {NoRow} /\ answer[k] \in Rows \cup {NoRow} /\ NoRow \notin Rows
  BY HistoryAssumption DEF TypeOK, Table
<1>2. /\ s[k] # NoRow => s[k].work \in {0, k[2]}
      /\ answer[k] # NoRow => answer[k].work \in {0, k[2]}
  BY DEF Own
<1>3. CASE answer[k] = NoRow
  <2>1. Amended(s)[k] = s[k] BY <1>3 DEF Amended
  <2> QED BY <2>1, <1>1, <1>2, <1>3 DEF Keeps
<1>4. CASE answer[k] # NoRow /\ s[k] = NoRow
  <2>1. Amended(s)[k] = answer[k] BY <1>4 DEF Amended
  <2> QED BY <2>1, <1>1, <1>2, <1>4 DEF Keeps
<1>5. CASE answer[k] # NoRow /\ s[k] # NoRow
  <2>1. Amended(s)[k] = Overlay(s[k], answer[k]) BY <1>5 DEF Amended
  <2>2. /\ Amended(s)[k] \in Rows
        /\ Amended(s)[k].work = IF answer[k].work # 0 THEN answer[k].work ELSE s[k].work
    BY <2>1, <1>1, <1>5, OverlayType
  <2> QED BY <2>2, <1>1, <1>2, <1>5 DEF Keeps
<1> QED BY <1>3, <1>4, <1>5

LEMMA AmendTable ==
  ASSUME TypeOK, Own(answer), NEW s \in Table, Own(s)
  PROVE  Amended(s) \in Table /\ Own(Amended(s))
<1>1. Amended(s) \in Table BY AmendRow DEF Amended, Table
<1> QED BY <1>1, AmendRow DEF Own

LEMMA KeepsTransitive ==
  ASSUME NEW a, NEW b, NEW c, Keeps(a, b), Keeps(b, c)
  PROVE  Keeps(a, c)
BY DEF Keeps
---------------------------------------------------------------------------
(* Type correctness.                                                       *)

LEMMA SoundInit == Init => SoundOK
<1> SUFFICES ASSUME Init PROVE SoundOK OBVIOUS
<1>1. TypeOK
  <2>1. 0 \in 0 .. MaxFaults BY HistoryAssumption
  <2> QED BY <2>1, RowsType DEF Init, TypeOK, Store
<1>2. OwnOK BY RowsType, HistoryAssumption DEF Init, OwnOK
<1>3. StandOK BY HistoryAssumption DEF Init, StandOK
<1> QED BY <1>1, <1>2, <1>3 DEF SoundOK

(* What sacct reports of an execution is a row of its own.                 *)
LEMMA ReportsOwn ==
  ASSUME NEW k \in Key, NEW r \in Reportable(k)
  PROVE  r \in Rows \cup {NoRow} /\ (r # NoRow => r.work \in {0, k[2]})
<1>1. k[2] \in Submit BY RowsType
<1>2. \A d \in BOOLEAN, w \in {0, k[2]} : Row(d, w) \in Rows /\ Row(d, w).work = w
  BY <1>1, RowsType
<1>3. r = NoRow \/ r \in {Row(FALSE, 0), Row(TRUE, 0), Row(TRUE, k[2])}
  BY DEF Reportable
<1> QED BY <1>2, <1>3

LEMMA SoundNext == ASSUME SoundOK, [Next]_vars PROVE SoundOK'
<1> USE DEF SoundOK
<1>0. /\ MaxFaults \in Nat /\ faults \in 0 .. MaxFaults /\ NoStore # Partial
      /\ NoStore \notin Table /\ Partial \notin Table
  BY HistoryAssumption DEF TypeOK
<1>1. ASSUME NEW j \in Job, NEW n \in Submit, Execute(j, n) PROVE SoundOK'
  BY <1>1 DEF Execute, TypeOK, OwnOK, StandOK, disk, local, Store, Own
<1>2. ASSUME NEW k \in Key, Settle(k) \/ AgeOut(k) PROVE SoundOK'
  <2>1. TypeOK' BY <1>2 DEF Settle, AgeOut, TypeOK, disk, local, Store
  <2>2. OwnOK' /\ StandOK' BY <1>2 DEF Settle, AgeOut, OwnOK, StandOK, disk, local, Own
  <2> QED BY <2>1, <2>2
<1>3. ASSUME NEW j \in Job, LogsPruned(j) PROVE SoundOK'
  BY <1>3 DEF LogsPruned, TypeOK, OwnOK, StandOK, disk, local, Store, Own
<1>4. ASSUME NEW rows \in Table, Ask(rows) PROVE SoundOK'
  <2>1. Own(rows) BY <1>4, ReportsOwn DEF Ask, Own
  <2>2. TypeOK' BY <1>4 DEF Ask, TypeOK, world, disk, Store
  <2>3. OwnOK' BY <1>4, <2>1 DEF Ask, OwnOK, disk, Own
  <2>4. StandOK' BY <1>4 DEF Ask, StandOK, disk
  <2> QED BY <2>2, <2>3, <2>4
<1>5. CASE Amend
  <2>1. Amended(csv) \in Table /\ Own(Amended(csv)) BY AmendTable DEF OwnOK, TypeOK
  <2>2. TypeOK' BY <1>5, <2>1 DEF Amend, TypeOK, world, local, Store
  <2>3. OwnOK' BY <1>5, <2>1 DEF Amend, OwnOK, local, Own
  <2>4. StandOK' BY <1>5 DEF Amend, StandOK
  <2> QED BY <2>2, <2>3, <2>4
<1>6. CASE ReadStore
  <2> DEFINE m == MergeRows(ReadRows, answer)
  <2>1. Own(ReadRows) /\ ReadRows \in Table /\ Own(answer) /\ answer \in Table
    BY RowsType DEF ReadRows, OwnOK, TypeOK, Store
  <2>2. m \in Table /\ Own(m) BY <2>1, MergeTable
  <2>3. /\ merged' \in {m, Empty} /\ answer' = Empty /\ pc' \in {"idle", "recover"}
        /\ UNCHANGED <<world, disk, faults, hit>>
    BY <1>6 DEF ReadStore, Finish
  <2> HIDE DEF m
  <2>4. TypeOK' BY <2>2, <2>3, RowsType DEF TypeOK, world, disk, Store
  <2>5. OwnOK' BY <2>2, <2>3, RowsType DEF OwnOK, disk, Own
  <2>6. StandOK' BY <2>3 DEF StandOK, disk
  <2> QED BY <2>4, <2>5, <2>6
<1>7. CASE Recover
  <2>1. final' \in {final, tmp, aside} BY <1>7 DEF Recover
  <2>2. final' \in Store
    <3>1. final \in Store /\ aside \in Store /\ tmp \in Store \cup {Partial} BY DEF TypeOK
    <3>2. CASE final # NoStore \/ aside = NoStore 
      <4>1. final' = final BY <1>7, <3>2 DEF Recover
      <4> QED BY <4>1, <3>1
    <3>3. CASE ~(final # NoStore \/ aside = NoStore) /\ tmp # NoStore
      <4>1. final' = tmp /\ tmp # Partial BY <1>7, <3>3 DEF Recover, StandOK
      <4> QED BY <4>1, <3>1
    <3>4. CASE ~(final # NoStore \/ aside = NoStore) /\ tmp = NoStore
      <4>1. final' = aside BY <1>7, <3>4 DEF Recover
      <4> QED BY <4>1, <3>1
    <3> QED BY <3>2, <3>3, <3>4
  <2>3. TypeOK' BY <1>7, <2>2 DEF Recover, TypeOK, world, local, Store
  <2>4. OwnOK' BY <1>0, <1>7, <2>1 DEF Recover, OwnOK, local, Own
  <2>5. StandOK' BY <1>0, <1>7 DEF Recover, StandOK
  <2> QED BY <2>3, <2>4, <2>5
<1>8. CASE Build
  <2>1. TypeOK' BY <1>8 DEF Build, TypeOK, world, local, Store
  <2>2. OwnOK' BY <1>0, <1>8 DEF Build, OwnOK, local, Own
  <2>3. StandOK' BY <1>0, <1>8 DEF Build, StandOK
  <2> QED BY <2>1, <2>2, <2>3
<1>9. CASE SetAside
  <2>1. TypeOK' BY <1>9, RowsType DEF SetAside, TypeOK, world, Store
  <2>2. OwnOK' BY <1>0, <1>9, RowsType DEF SetAside, OwnOK, Own
  <2>3. StandOK' BY <1>0, <1>9 DEF SetAside, StandOK, TypeOK
  <2> QED BY <2>1, <2>2, <2>3
<1>10. CASE Place
  <2>1. TypeOK' BY <1>10 DEF Place, TypeOK, StandOK, world, local, Store
  <2>2. OwnOK' BY <1>0, <1>10 DEF Place, OwnOK, local, Own
  <2>3. StandOK' BY <1>0, <1>10 DEF Place, StandOK
  <2> QED BY <2>1, <2>2, <2>3
<1>11. CASE Sweep
  <2>1. TypeOK' BY <1>11, RowsType DEF Sweep, Finish, TypeOK, world, Store
  <2>2. OwnOK' BY <1>0, <1>11, RowsType DEF Sweep, Finish, OwnOK, Own
  <2>3. StandOK' BY <1>0, <1>11 DEF Sweep, Finish, StandOK
  <2> QED BY <2>1, <2>2, <2>3
<1>12. CASE Die
  <2>1. faults' \in 0 .. MaxFaults BY <1>0, <1>12 DEF Die
  <2>2. TypeOK' BY <1>12, <2>1, RowsType DEF Die, Finish, TypeOK, world, disk, Store
  <2>3. OwnOK' BY <1>12, RowsType DEF Die, Finish, OwnOK, disk, Own
  <2>4. StandOK' BY <1>12 DEF Die, Finish, StandOK, disk
  <2> QED BY <2>2, <2>3, <2>4
<1>13. CASE TearCsv
  <2>1. faults' \in 0 .. MaxFaults BY <1>0, <1>13 DEF TearCsv
  <2>2. Amended(csv) \in Table /\ Own(Amended(csv)) BY AmendTable DEF OwnOK, TypeOK
  <2>3. csv' \in Table /\ Own(csv') BY <1>13, <2>2 DEF TearCsv, Table, Own
  <2>4. TypeOK' BY <1>13, <2>1, <2>3, RowsType DEF TearCsv, Finish, TypeOK, world, Store
  <2>5. OwnOK' BY <1>13, <2>3, RowsType DEF TearCsv, Finish, OwnOK, Own
  <2>6. StandOK' BY <1>13 DEF TearCsv, Finish, StandOK
  <2> QED BY <2>4, <2>5, <2>6
<1>14. CASE AmendUnread
  <2>1. faults' \in 0 .. MaxFaults BY <1>0, <1>14 DEF AmendUnread
  <2>2. csv' \in {csv, Amended(Empty)} BY <1>14 DEF AmendUnread
  <2>3. Amended(Empty) \in Table /\ Own(Amended(Empty)) BY AmendTable, RowsType DEF OwnOK
  <2>4. csv' \in Table /\ Own(csv') BY <2>2, <2>3 DEF TypeOK, OwnOK
  <2>5. TypeOK' BY <1>14, <2>1, <2>4 DEF AmendUnread, TypeOK, world, local, Store
  <2>6. OwnOK' BY <1>14, <2>4 DEF AmendUnread, OwnOK, local, Own
  <2>7. StandOK' BY <1>14 DEF AmendUnread, StandOK
  <2> QED BY <2>5, <2>6, <2>7
<1>15. CASE UNCHANGED vars
  BY <1>15 DEF vars, world, disk, local, TypeOK, OwnOK, StandOK, Store, Own
<1> QED
  BY <1>1, <1>2, <1>3, <1>4, <1>5, <1>6, <1>7, <1>8, <1>9, <1>10, <1>11, <1>12, <1>13, <1>14, <1>15
  DEF Next, CaptureStep

(* Type correctness, for any number of jobs, executions and faults: what   *)
(* is published is always a complete store, whatever a death interrupts.   *)
THEOREM TypeCorrect == Spec => []TypeOK
<1>1. SoundOK /\ [Next]_vars => SoundOK' BY SoundNext
<1>2. SoundOK => TypeOK BY DEF SoundOK
<1> QED BY SoundInit, <1>1, <1>2, PTL DEF Spec

(* What is recorded of an execution is its own, not that of another one    *)
(* under the same job id, through every merge, death and recovery.         *)
THEOREM OwnRecordKept == Spec => []OwnRecord
<1>1. SoundOK /\ [Next]_vars => SoundOK' BY SoundNext
<1>2. SoundOK => OwnRecord
  <2> SUFFICES ASSUME SoundOK PROVE OwnRecord OBVIOUS
  <2>1. Own(Held)
    BY RowsType, HistoryAssumption DEF Held, SoundOK, OwnOK, TypeOK, Store
  <2>2. Own(csv) BY DEF SoundOK, OwnOK
  <2> QED BY <2>1, <2>2 DEF OwnRecord, Own
<1> QED BY SoundInit, <1>1, <1>2, PTL DEF Spec
---------------------------------------------------------------------------
(* The CSV.                                                                *)

LEMMA CsvStep ==
  ASSUME SoundOK, [Next]_vars, ~TearCsv, ~AmendUnread
  PROVE  \A k \in Key : Keeps(csv[k], csv'[k])
<1>1. CASE Amend
  <2>1. csv' = Amended(csv) BY <1>1 DEF Amend
  <2> QED BY <2>1, AmendRow DEF SoundOK, OwnOK, TypeOK
<1>2. CASE ~Amend
  <2>1. csv' = csv
    BY <1>2 DEF Next, CaptureStep, Execute, Settle, AgeOut, LogsPruned, Ask, ReadStore, Finish,
                Recover, Build, SetAside, Place, Sweep, Die, vars, world, disk, local
  <2> QED BY <2>1 DEF Keeps
<1> QED BY <1>1, <1>2

(* "AMEND, never replace": the CSV loses nothing that it has recorded,     *)
(* whatever sacct answers, but to a death in the middle of its writing and *)
(* to a capture that takes it for empty because it cannot read it.         *)
THEOREM CsvNeverReplaced == Spec => CsvAmends
<1>1. SoundOK /\ [Next]_vars => SoundOK' BY SoundNext
<1>2. SoundOK /\ [Next]_vars
        => [faults' = faults => \A k \in Key : Keeps(csv[k], csv'[k])]_vars
  <2> SUFFICES ASSUME SoundOK, [Next]_vars, faults' = faults
               PROVE  \A k \in Key : Keeps(csv[k], csv'[k])
    OBVIOUS
  <2>1. ~TearCsv /\ ~AmendUnread
    BY HistoryAssumption DEF TearCsv, AmendUnread, SoundOK, TypeOK
  <2> QED BY <2>1, CsvStep
<1> QED BY SoundInit, <1>1, <1>2, PTL DEF Spec, CsvAmends

(* One row of a merge is in the CSV when those of both its sides are.      *)
LEMMA MergeBehind ==
  ASSUME NEW s \in Table, NEW a \in Table, Own(s), Own(a), InCsv(s), InCsv(a)
  PROVE  InCsv(MergeRows(s, a))
<1> SUFFICES ASSUME NEW k \in Key PROVE Keeps(MergeRows(s, a)[k], csv[k])
  BY DEF InCsv
<1>1. Keeps(s[k], csv[k]) /\ Keeps(a[k], csv[k]) BY DEF InCsv
<1> QED BY <1>1, MergeRow DEF Keeps

(* What is in the CSV stays in it.                                         *)
LEMMA StaysInCsv ==
  ASSUME SoundOK, [Next]_vars, ~TearCsv, ~AmendUnread, NEW t, InCsv(t)
  PROVE  \A k \in Key : Keeps(t[k], csv'[k])
<1> SUFFICES ASSUME NEW k \in Key PROVE Keeps(t[k], csv'[k]) OBVIOUS
<1>1. Keeps(csv[k], csv'[k]) BY CsvStep
<1>2. Keeps(t[k], csv[k]) BY DEF InCsv
<1> QED BY <1>1, <1>2 DEF Keeps

LEMMA BehindInit == Init => BehindOK
BY RowsType, HistoryAssumption DEF Init, BehindOK, InCsv, Keeps

LEMMA BehindNext ==
  ASSUME SoundOK, BehindOK, [Next]_vars
  PROVE  BehindOK'
<1> SUFFICES ASSUME hit' \cap {"torn", "unread"} = {}
             PROVE  /\ InCsv(merged)'
                    /\ \A t \in {final', tmp', aside'} :
                         t \in Table => \A k \in Key : Keeps(t[k], csv'[k])
                    /\ pc' = "read" => InCsv(answer)'
  BY DEF BehindOK, InCsv
<1>a. ~TearCsv /\ ~AmendUnread BY DEF TearCsv, AmendUnread
<1>0. hit \cap {"torn", "unread"} = {}
  <2>1. hit \subseteq hit'
    BY DEF Next, CaptureStep, Execute, Settle, AgeOut, LogsPruned, Ask, Amend, ReadStore, Finish,
           Recover, Build, SetAside, Place, Sweep, Die, TearCsv, AmendUnread, vars, world, disk,
           local
  <2> QED BY <2>1
<1>1. /\ InCsv(merged)
      /\ pc = "read" => InCsv(answer)
      /\ \A t \in {final, tmp, aside} : t \in Table => InCsv(t)
  BY <1>0 DEF BehindOK
<1>2. InCsv(Empty) BY RowsType DEF InCsv, Keeps
<1>3. \A k \in Key : Keeps(merged[k], csv'[k]) /\ Keeps(Empty[k], csv'[k])
  <2>1. \A k \in Key : Keeps(merged[k], csv'[k]) BY <1>a, <1>1, StaysInCsv
  <2>2. \A k \in Key : Keeps(Empty[k], csv'[k]) BY <1>a, <1>2, StaysInCsv
  <2> QED BY <2>1, <2>2
<1>4. \A t \in {final, tmp, aside} : t \in Table => \A k \in Key : Keeps(t[k], csv'[k])
  BY <1>a, <1>1, StaysInCsv
<1>5. pc = "read" => \A k \in Key : Keeps(answer[k], csv'[k])
  <2> SUFFICES ASSUME pc = "read" PROVE \A k \in Key : Keeps(answer[k], csv'[k]) OBVIOUS
  <2>1. InCsv(answer) BY <1>1
  <2> QED BY <1>a, <2>1, StaysInCsv
<1>6. CASE Amend
  <2>1. csv' = Amended(csv) /\ UNCHANGED <<final, tmp, aside, merged, answer>>
    BY <1>6 DEF Amend, local
  <2>2. \A k \in Key : Keeps(answer[k], csv'[k])
    BY <2>1, AmendRow DEF SoundOK, OwnOK, TypeOK
  <2> QED BY <2>1, <2>2, <1>3, <1>4 DEF InCsv
<1>7. CASE ReadStore
  <2> DEFINE m == MergeRows(ReadRows, answer)
  <2>0. final \in Table \cup {NoStore} /\ answer \in Table /\ Own(answer)
    BY DEF SoundOK, OwnOK, TypeOK, Store
  <2>1. /\ Own(ReadRows) /\ ReadRows \in Table /\ Own(answer) /\ answer \in Table
        /\ InCsv(ReadRows) /\ InCsv(answer)
    <3>1. InCsv(answer) BY <1>1, <1>7 DEF ReadStore
    <3>2. CASE final = NoStore BY <2>0, <3>1, <3>2, <1>2, RowsType DEF ReadRows
    <3>3. CASE final # NoStore
      <4>1. ReadRows = final BY <3>3 DEF ReadRows
      <4> QED BY <2>0, <3>1, <3>3, <4>1, <1>1 DEF SoundOK, OwnOK
    <3> QED BY <3>2, <3>3
  <2>2. InCsv(m) BY <2>1, MergeBehind
  <2>3. /\ merged' \in {m, Empty} /\ pc' # "read"
        /\ UNCHANGED <<csv, final, tmp, aside>>
    BY <1>7 DEF ReadStore, Finish, disk
  <2> HIDE DEF m
  <2> QED BY <2>2, <2>3, <1>2, <1>4 DEF InCsv
<1>8. CASE Recover
  <2>1. final' \in {final, tmp, aside} BY <1>8 DEF Recover
  <2>2. tmp' = NoStore /\ aside' = NoStore /\ pc' # "read" /\ merged' = merged
    BY <1>8 DEF Recover, local
  <2> QED BY <2>1, <2>2, <1>3, <1>4, HistoryAssumption DEF InCsv
<1>9. CASE Build
  BY <1>9, <1>3, <1>4, HistoryAssumption DEF Build, local, InCsv
<1>10. CASE SetAside
  <2>1. /\ tmp' = merged /\ merged' = Empty /\ pc' # "read"
        /\ final' \in {final, NoStore} /\ aside' \in {aside, final}
    BY <1>10 DEF SetAside
  <2> QED BY <2>1, <1>3, <1>4, HistoryAssumption DEF InCsv
<1>11. CASE Place
  <2>1. final' = tmp /\ tmp' = NoStore /\ pc' # "read" /\ UNCHANGED <<merged, aside>>
    BY <1>11 DEF Place, local
  <2> QED BY <2>1, <1>3, <1>4, HistoryAssumption DEF InCsv
<1>12. CASE Sweep
  <2>1. /\ aside' = NoStore /\ merged' = Empty /\ pc' # "read" /\ UNCHANGED <<final, tmp>>
    BY <1>12 DEF Sweep, Finish
  <2> QED BY <2>1, <1>3, <1>4, HistoryAssumption DEF InCsv
<1>13. CASE Die
  <2>1. merged' = Empty /\ pc' # "read" /\ UNCHANGED <<final, tmp, aside>>
    BY <1>13 DEF Die, Finish, disk
  <2> QED BY <2>1, <1>3, <1>4 DEF InCsv
<1>15. CASE \E rows \in Table : Ask(rows)
  <2>1. pc' # "read" /\ UNCHANGED <<csv, merged, final, tmp, aside>>
    BY <1>15 DEF Ask, disk
  <2> QED BY <2>1, <1>3, <1>4 DEF InCsv
<1>16. CASE UNCHANGED <<disk, pc, local>>
  <2>1. UNCHANGED <<csv, pc, answer, merged, final, tmp, aside>>
    BY <1>16 DEF disk, local
  <2> QED BY <2>1, <1>3, <1>4, <1>5 DEF InCsv
<1> QED
  BY <1>6, <1>7, <1>8, <1>9, <1>10, <1>11, <1>12, <1>13, <1>a, <1>15, <1>16
  DEF Next, CaptureStep, Execute, Settle, AgeOut, LogsPruned, vars

LEMMA HeldInCsv ==
  ASSUME SoundOK, BehindOK, hit \cap {"torn", "unread"} = {}
  PROVE  \A k \in Key : Keeps(Held[k], csv[k])
<1>1. \A t \in {final, tmp, aside} : t \in Table => InCsv(t) BY DEF BehindOK
<1>2. InCsv(Empty) BY RowsType DEF InCsv, Keeps
<1>3. InCsv(Held) BY <1>1, <1>2 DEF Held, SoundOK, TypeOK, Store
<1> QED BY <1>3 DEF InCsv

(* "A failure here loses the consolidation, not the capture": what the     *)
(* store holds of an execution is in the CSV, which is written first, until*)
(* a capture has torn the CSV or replaced it unread.                       *)
THEOREM CapturedFirstKept == Spec => []CapturedFirst
<1>1. SoundOK /\ BehindOK /\ [Next]_vars => (SoundOK /\ BehindOK)'
  BY SoundNext, BehindNext
<1>2. SoundOK /\ BehindOK => CapturedFirst BY HeldInCsv DEF CapturedFirst
<1> QED BY SoundInit, BehindInit, <1>1, <1>2, PTL DEF Spec
---------------------------------------------------------------------------
(* The store.                                                              *)

LEMMA ExtendsItself == ASSUME NEW t PROVE Extends(t, t)
BY DEF Extends, Keeps

LEMMA ReadInit == Init => ReadOK
BY DEF Init, ReadOK

(* Of the steps of a capture, only the first rename changes what is held.  *)
LEMMA HeldStep ==
  ASSUME SoundOK, ReadOK, [Next]_vars, "gap" \notin hit
  PROVE  \/ Held' = Held
         \/ Held' = merged /\ pc = "built"
         \/ Held = Empty
<1>1. /\ pc # "place" /\ final = NoStore => aside = NoStore
      /\ pc \in {"build", "built"} => aside = NoStore
      /\ pc = "place" => final = NoStore /\ tmp \in Table
  BY DEF ReadOK, SoundOK, StandOK
<1>2. NoStore \notin Table /\ Partial \notin Table /\ merged \in Table
  BY HistoryAssumption DEF SoundOK, TypeOK
<1>3. CASE UNCHANGED <<final, tmp, aside>> BY <1>3 DEF Held
<1>4. CASE Recover
  <2>1. final' = final /\ aside' = NoStore BY <1>4, <1>1 DEF Recover
  <2> QED BY <2>1, <1>1, <1>4 DEF Held, Recover
<1>5. CASE Build
  <2>1. final' = final /\ aside' = aside /\ aside = NoStore BY <1>5, <1>1 DEF Build
  <2> QED BY <2>1 DEF Held
<1>6. CASE SetAside
  <2>1. CASE final = NoStore
    <3>1. Held = Empty BY <2>1, <1>1, <1>6 DEF SetAside, Held
    <3> QED BY <3>1
  <2>2. CASE final # NoStore
    <3>1. final' = NoStore /\ aside' # NoStore /\ tmp' = merged
      BY <2>2, <1>6 DEF SetAside
    <3>2. Held' = merged BY <3>1, <1>2 DEF Held
    <3> QED BY <3>2, <1>6 DEF SetAside
  <2> QED BY <2>1, <2>2
<1>7. CASE Place
  <2>1. final = NoStore /\ tmp \in Table /\ final' = tmp BY <1>7, <1>1 DEF Place
  <2>2. Held' = tmp BY <2>1, <1>2 DEF Held
  <2>3. Held = tmp \/ Held = Empty BY <2>1 DEF Held
  <2> QED BY <2>2, <2>3
<1>8. CASE Sweep
  <2>1. final' = final /\ tmp' = tmp /\ aside' = NoStore BY <1>8 DEF Sweep
  <2>2. final = NoStore => aside = NoStore BY <1>8, <1>1 DEF Sweep
  <2> QED BY <2>1, <2>2 DEF Held
<1> QED
  BY <1>3, <1>4, <1>5, <1>6, <1>7, <1>8
  DEF Next, CaptureStep, Execute, Settle, AgeOut, LogsPruned, Ask, Amend, ReadStore, Die, TearCsv,
      AmendUnread, vars, disk

LEMMA HeldExtends ==
  ASSUME SoundOK, ReadOK, [Next]_vars, "gap" \notin hit
  PROVE  \A k \in Key : /\ Keeps(Held[k], Held'[k])
                        /\ Held[k] # NoRow /\ Held[k].done => Held'[k].done
<1>1. CASE Held' = Held BY <1>1 DEF Keeps
<1>2. CASE Held' = merged /\ pc = "built"
  <2>1. Extends(merged, Held) BY <1>2 DEF ReadOK
  <2> QED BY <2>1, <1>2 DEF Extends
<1>3. CASE Held = Empty BY <1>3, RowsType DEF Keeps
<1> QED BY <1>1, <1>2, <1>3, HeldStep

LEMMA ReadNext ==
  ASSUME SoundOK, ReadOK, [Next]_vars
  PROVE  ReadOK'
<1> SUFFICES ASSUME "gap" \notin hit'
             PROVE  /\ pc' # "place" /\ final' = NoStore => aside' = NoStore
                    /\ pc' \in {"recover", "build", "built"} => Extends(merged', Held')
  BY DEF ReadOK, Extends
<1>0. "gap" \notin hit
  BY DEF Next, CaptureStep, Execute, Settle, AgeOut, LogsPruned, Ask, Amend, ReadStore, Finish,
         Recover, Build, SetAside, Place, Sweep, Die, TearCsv, AmendUnread, vars, world,
         disk, local
<1>1. /\ pc # "place" /\ final = NoStore => aside = NoStore
      /\ pc \in {"recover", "build", "built"} => Extends(merged, Held)
      /\ pc \in {"build", "built"} => aside = NoStore
      /\ pc = "place" => final = NoStore /\ tmp \in Table
  BY <1>0 DEF ReadOK, SoundOK, StandOK
<1>2. /\ NoStore \notin Table /\ Partial \notin Table
      /\ final \in Table \cup {NoStore} /\ answer \in Table
  BY HistoryAssumption DEF SoundOK, TypeOK, Store
<1>3. ASSUME UNCHANGED <<pc, merged, final, tmp, aside>>
      PROVE  ReadOK'
  <2>1. Held' = Held BY <1>3 DEF Held
  <2> QED BY <2>1, <1>3, <1>1 DEF ReadOK
<1>4. CASE UNCHANGED <<final, tmp, aside>> /\ pc # "place" /\ pc' \in {"idle", "amend", "read"}
  BY <1>4, <1>1
<1>5. CASE ReadStore
  <2> DEFINE m == MergeRows(ReadRows, answer)
  <2>1. Own(answer) /\ (final \in Table => Own(final)) BY DEF SoundOK, OwnOK
  <2>2. ReadRows \in Table /\ Own(ReadRows) /\ Held = ReadRows
    <3>1. CASE final = NoStore
      BY <3>1, <1>1, <1>5, RowsType DEF ReadStore, ReadRows, Held
    <3>2. CASE final # NoStore BY <3>2, <1>2, <2>1 DEF ReadRows, Held
    <3> QED BY <3>1, <3>2
  <2>3. Extends(m, Held) BY <2>1, <2>2, <1>2, MergeTable
  <2>4. /\ UNCHANGED <<final, tmp, aside>> /\ pc' \in {"idle", "recover"} /\ pc # "place"
        /\ pc' = "recover" => merged' = m
    BY <1>5 DEF ReadStore, Finish, disk
  <2>5. Held' = Held BY <2>4 DEF Held
  <2> HIDE DEF m
  <2> QED BY <2>3, <2>4, <2>5, <1>1
<1>6. CASE Recover
  <2>1. final' = final /\ aside' = NoStore /\ merged' = merged
    BY <1>6, <1>1 DEF Recover, local
  <2>2. Held' = Held BY <2>1, <1>1, <1>6 DEF Held, Recover
  <2>3. Extends(merged, Held) BY <1>1, <1>6 DEF Recover
  <2> QED BY <2>1, <2>2, <2>3
<1>7. CASE Build
  <2>1. final' = final /\ aside' = aside /\ aside = NoStore /\ merged' = merged
    BY <1>7, <1>1 DEF Build, local
  <2>2. Held' = Held BY <2>1 DEF Held
  <2>3. Extends(merged, Held) BY <1>1, <1>7 DEF Build
  <2> QED BY <2>1, <2>2, <2>3
<1>8. CASE SetAside BY <1>8 DEF SetAside
<1>9. CASE Place
  <2>1. final' # NoStore /\ pc' = "sweep" BY <1>9, <1>1, <1>2 DEF Place
  <2> QED BY <2>1
<1>10. CASE Sweep
  <2>1. aside' = NoStore /\ pc' = "idle" BY <1>10 DEF Sweep, Finish
  <2> QED BY <2>1
<1>11. CASE Die
  <2>1. UNCHANGED <<final, tmp, aside>> /\ pc' = "idle" BY <1>11 DEF Die, Finish, disk
  <2>2. pc = "place" => aside = NoStore BY <1>11 DEF Die
  <2> QED BY <2>1, <2>2, <1>1
<1>12. CASE TearCsv
  <2>1. UNCHANGED <<final, tmp, aside>> /\ pc = "amend" /\ pc' = "idle"
    BY <1>12 DEF TearCsv, Finish
  <2> QED BY <2>1, <1>4
<1>a. CASE AmendUnread
  <2>1. UNCHANGED <<final, tmp, aside>> /\ pc = "amend" /\ pc' = "read"
    BY <1>a DEF AmendUnread
  <2> QED BY <2>1, <1>4
<1>13. CASE Amend
  <2>1. UNCHANGED <<final, tmp, aside>> /\ pc = "amend" /\ pc' = "read"
    BY <1>13 DEF Amend
  <2> QED BY <2>1, <1>4
<1>14. CASE \E rows \in Table : Ask(rows)
  <2>1. UNCHANGED <<final, tmp, aside>> /\ pc = "idle" /\ pc' = "amend"
    BY <1>14 DEF Ask, disk
  <2> QED BY <2>1, <1>4
<1>15. CASE UNCHANGED <<disk, pc, local>>
  <2>1. UNCHANGED <<pc, merged, final, tmp, aside>> BY <1>15 DEF disk, local
  <2>2. ReadOK' BY <2>1, <1>3
  <2> QED BY <2>2 DEF ReadOK, Extends
<1> QED
  BY <1>5, <1>6, <1>7, <1>8, <1>9, <1>10, <1>11, <1>12, <1>a, <1>13, <1>14, <1>15
  DEF Next, CaptureStep, Execute, Settle, AgeOut, LogsPruned, vars

(* The store merges: nothing that it holds is lost to a partial answer, to *)
(* a death in the middle of a publication, or to the retention of sacct,   *)
(* short of a death between the two renames; and a terminal row stays so.  *)
THEOREM StoreNeverReplaced == Spec => StoreAmends
<1>1. SoundOK /\ ReadOK /\ [Next]_vars => (SoundOK /\ ReadOK)'
  BY SoundNext, ReadNext
<1>2. SoundOK /\ ReadOK /\ [Next]_vars
        => ["gap" \notin hit =>
              \A k \in Key : /\ Keeps(Held[k], Held'[k])
                             /\ Held[k] # NoRow /\ Held[k].done => Held'[k].done]_vars
  BY HeldExtends
<1> QED BY SoundInit, ReadInit, <1>1, <1>2, PTL DEF Spec, StoreAmends
---------------------------------------------------------------------------
(* The two copies.                                                         *)

(* What the CSV holds is in a table.                                       *)
CsvIn(t) == \A k \in Key : Keeps(csv[k], t[k])

(* Accounting measures work once the execution has ended.                  *)
AskedOK == \A k \in Key : answer[k] # NoRow /\ answer[k].work # 0 => answer[k].done

(* One failure leaves at most one mark in the history.                     *)
CountOK ==
  /\ faults = 0 => hit = {}
  /\ faults <= 1 /\ "gap" \in hit => hit \cap {"torn", "unread"} = {}

(* Before the first failure each capture puts into the store all that the  *)
(* CSV has, so that the next one finds the CSV in the store.               *)
AheadOK ==
  faults = 0 =>
    /\ pc \in {"idle", "amend"} => CsvIn(Held)
    /\ pc = "read" => CsvIn(MergeRows(ReadRows, answer))
    /\ pc \in {"recover", "build", "built"} => CsvIn(merged)
    /\ pc = "place" => CsvIn(tmp)
    /\ pc = "sweep" => final \in Table /\ CsvIn(final)

CopiesOK == SoundOK /\ BehindOK /\ ReadOK /\ AskedOK /\ CountOK /\ AheadOK

(* A row that the CSV has amended with an answer is in what the store      *)
(* merges with the same answer, if it was in the store.                    *)
LEMMA MergeAhead ==
  ASSUME TypeOK, Own(csv), Own(answer), AskedOK, NEW s \in Table, Own(s),
         NEW k \in Key, Keeps(csv[k], s[k])
  PROVE  Keeps(Amended(csv)[k], MergeRows(s, answer)[k])
<1> DEFINE c == Amended(csv)[k]
           a == answer[k]
           m == MergeRows(s, answer)[k]
<1>1. /\ csv \in Table /\ answer \in Table /\ NoRow \notin Rows
      /\ a \in Rows \cup {NoRow} /\ s[k] \in Rows \cup {NoRow} /\ csv[k] \in Rows \cup {NoRow}
  BY HistoryAssumption DEF TypeOK, Table
<1>2. CASE a = NoRow
  <2>1. c = csv[k] /\ m = s[k] BY <1>2 DEF Amended, MergeRows
  <2> QED BY <2>1
<1>3. CASE a # NoRow
  <2>1. /\ c # NoRow => c.work \in {0, k[2]}
        /\ c # NoRow => \/ csv[k] # NoRow /\ c.work = csv[k].work
                        \/ c.work = a.work
    BY <1>1, AmendRow
  <2>2. /\ Keeps(s[k], m)
        /\ a.work # 0 => a.done
    BY <1>1, <1>3, MergeRow DEF AskedOK
  <2>3. m # NoRow /\ (a.work # 0 => m.work = a.work)
    <3>1. CASE s[k] = NoRow
      <4>1. m = a BY <1>3, <3>1 DEF MergeRows
      <4> QED BY <4>1, <1>3
    <3>2. CASE s[k] # NoRow /\ s[k].done /\ ~a.done
      <4>1. m = s[k] BY <1>3, <3>2 DEF MergeRows
      <4> QED BY <4>1, <3>2, <2>2
    <3>3. CASE s[k] # NoRow /\ ~(s[k].done /\ ~a.done)
      <4>1. m = Overlay(s[k], a) BY <1>3, <3>3 DEF MergeRows
      <4>2. m \in Rows /\ m.work = IF a.work # 0 THEN a.work ELSE s[k].work
        BY <4>1, <1>1, <1>3, <3>3, OverlayType
      <4> QED BY <4>2, <1>1
    <3> QED BY <3>1, <3>2, <3>3
  <2>4. Keeps(csv[k], m) BY <2>2, KeepsTransitive
  <2> HIDE DEF c, a, m
  <2>5. ASSUME c # NoRow, c.work # 0 PROVE m.work = c.work
    <3>1. CASE csv[k] # NoRow /\ c.work = csv[k].work BY <2>4, <2>5, <3>1 DEF Keeps
    <3>2. CASE c.work = a.work BY <2>3, <2>5, <3>2
    <3> QED BY <2>1, <2>5, <3>1, <3>2
  <2>6. Keeps(c, m) BY <2>3, <2>5 DEF Keeps
  <2> QED BY <2>6 DEF c, m
<1> QED BY <1>2, <1>3

LEMMA CopiesInit == Init => CopiesOK
<1> SUFFICES ASSUME Init PROVE CopiesOK OBVIOUS
<1>1. SoundOK /\ BehindOK /\ ReadOK BY SoundInit, BehindInit, ReadInit
<1>2. AskedOK /\ CountOK BY RowsType DEF Init, AskedOK, CountOK
<1>3. AheadOK BY RowsType DEF Init, AheadOK, CsvIn, Keeps
<1> QED BY <1>1, <1>2, <1>3 DEF CopiesOK

LEMMA AskedNext == ASSUME SoundOK, AskedOK, [Next]_vars PROVE AskedOK'
<1>1. CASE \E rows \in Table : Ask(rows)
  <2> PICK rows \in Table : Ask(rows) BY <1>1
  <2> SUFFICES ASSUME NEW k \in Key, rows[k] # NoRow, rows[k].work # 0 PROVE rows[k].done
    BY DEF Ask, AskedOK
  <2>1. rows[k] \in {NoRow, Row(FALSE, 0), Row(TRUE, 0), Row(TRUE, k[2])}
    BY DEF Ask, Reportable
  <2> QED BY <2>1, RowsType
<1>2. CASE answer' \in {answer, Empty} BY <1>2, RowsType DEF AskedOK
<1> QED
  BY <1>1, <1>2
  DEF Next, CaptureStep, Execute, Settle, AgeOut, LogsPruned, Amend, ReadStore, Finish,
      Recover, Build, SetAside, Place, Sweep, Die, TearCsv, AmendUnread, vars, local

(* A step is a failure, or it leaves the count and the history alone.      *)
LEMMA FailureStep ==
  ASSUME SoundOK, [Next]_vars
  PROVE  \/ UNCHANGED <<faults, hit>> /\ ~TearCsv /\ ~AmendUnread
         \/ /\ Die \/ TearCsv \/ AmendUnread
            /\ faults' = faults + 1 /\ UNCHANGED <<final, tmp, aside>>
            /\ \E h \in {"gap", "torn", "unread"} : hit' \in {hit, hit \cup {h}}
<1>0. faults # faults + 1 BY HistoryAssumption DEF SoundOK, TypeOK
<1>1. CASE Die BY <1>1 DEF Die, disk
<1>2. CASE TearCsv BY <1>2 DEF TearCsv
<1>3. CASE AmendUnread BY <1>3 DEF AmendUnread
<1>4. CASE UNCHANGED <<faults, hit>> BY <1>0, <1>4 DEF TearCsv, AmendUnread
<1> QED
  BY <1>1, <1>2, <1>3, <1>4
  DEF Next, CaptureStep, Execute, Settle, AgeOut, LogsPruned, Ask, Amend, ReadStore,
      Recover, Build, SetAside, Place, Sweep, vars

LEMMA CountNext == ASSUME SoundOK, CountOK, [Next]_vars PROVE CountOK'
<1>1. faults \in Nat BY HistoryAssumption DEF SoundOK, TypeOK
<1>2. CASE UNCHANGED <<faults, hit>> BY <1>2 DEF CountOK
<1>3. CASE /\ faults' = faults + 1
           /\ \E h \in {"gap", "torn", "unread"} : hit' \in {hit, hit \cup {h}}
  <2>1. faults' # 0 /\ (faults' <= 1 => faults = 0) BY <1>1, <1>3
  <2>2. faults' <= 1 => \E h \in {"gap", "torn", "unread"} : hit' \in {{}, {h}}
    BY <1>3, <2>1 DEF CountOK
  <2> QED BY <2>1, <2>2 DEF CountOK
<1> QED BY <1>2, <1>3, FailureStep

LEMMA AheadNext ==
  ASSUME CopiesOK, [Next]_vars
  PROVE  AheadOK'
<1> SUFFICES ASSUME faults' = 0 PROVE AheadOK' BY DEF AheadOK
<1>0. faults = 0 /\ UNCHANGED <<faults, hit>> /\ ~Die /\ ~TearCsv /\ ~AmendUnread
  <2>1. faults \in Nat BY HistoryAssumption DEF CopiesOK, SoundOK, TypeOK
  <2>2. UNCHANGED <<faults, hit>> BY <2>1, FailureStep DEF CopiesOK
  <2> QED BY <2>1, <2>2 DEF Die, TearCsv, AmendUnread
<1>1. /\ pc \in {"idle", "amend"} => CsvIn(Held)
      /\ pc = "read" => CsvIn(MergeRows(ReadRows, answer))
      /\ pc \in {"recover", "build", "built"} => CsvIn(merged)
      /\ pc = "place" => CsvIn(tmp)
      /\ pc = "sweep" => final \in Table /\ CsvIn(final)
  BY <1>0 DEF CopiesOK, AheadOK
<1>2. /\ final \in Table \cup {NoStore} /\ NoStore \notin Table /\ Partial \notin Table
      /\ pc # "place" /\ final = NoStore => aside = NoStore
      /\ pc = "place" => tmp \in Table
  BY <1>0, HistoryAssumption
  DEF CopiesOK, CountOK, SoundOK, TypeOK, StandOK, ReadOK, Store
<1>3. CASE UNCHANGED <<disk, pc, local>>
  <2>1. UNCHANGED <<csv, final, tmp, aside, pc, answer, merged>> BY <1>3 DEF disk, local
  <2>2. Held' = Held /\ ReadRows' = ReadRows BY <2>1 DEF Held, ReadRows
  <2>3. MergeRows(ReadRows, answer)' = MergeRows(ReadRows, answer)
    BY <2>1, <2>2 DEF MergeRows
  <2> QED BY <2>1, <2>2, <2>3, <1>1 DEF AheadOK, CsvIn
<1>4. CASE \E rows \in Table : Ask(rows)
  <2>1. UNCHANGED <<csv, final, tmp, aside>> /\ pc = "idle" /\ pc' = "amend"
    BY <1>4 DEF Ask, disk
  <2>2. Held' = Held BY <2>1 DEF Held
  <2> QED BY <2>1, <2>2, <1>1 DEF AheadOK, CsvIn
<1>5. CASE Amend
  <2>1. /\ csv' = Amended(csv) /\ pc = "amend" /\ pc' = "read"
        /\ UNCHANGED <<final, answer>>
    BY <1>5 DEF Amend, local
  <2>2. Own(answer) /\ Own(csv) /\ (final \in Table => Own(final)) /\ TypeOK /\ AskedOK
    BY DEF CopiesOK, SoundOK, OwnOK
  <2>3. ReadRows \in Table /\ Own(ReadRows) /\ Held = ReadRows
    <3>1. CASE final = NoStore BY <3>1, <1>2, <2>1, RowsType DEF ReadRows, Held
    <3>2. CASE final # NoStore BY <3>2, <1>2, <2>2 DEF ReadRows, Held
    <3> QED BY <3>1, <3>2
  <2>4. \A k \in Key : Keeps(csv[k], ReadRows[k]) BY <1>1, <2>1, <2>3 DEF CsvIn
  <2>5. \A k \in Key : Keeps(Amended(csv)[k], MergeRows(ReadRows, answer)[k])
    BY <2>2, <2>3, <2>4, MergeAhead
  <2>6. MergeRows(ReadRows, answer)' = MergeRows(ReadRows, answer)
    BY <2>1 DEF MergeRows, ReadRows
  <2> QED BY <2>1, <2>5, <2>6 DEF AheadOK, CsvIn
<1>6. CASE ReadStore
  <2> DEFINE m == MergeRows(ReadRows, answer)
  <2>1. /\ UNCHANGED <<csv, final, tmp, aside>>
        /\ \/ m = Empty /\ pc' = "idle"
           \/ merged' = m /\ pc' = "recover"
    BY <1>6 DEF ReadStore, Finish, disk
  <2>2. CsvIn(m) BY <1>1, <1>6 DEF ReadStore
  <2> HIDE DEF m
  <2>3. m = Empty => CsvIn(Held')
    BY <2>2, RowsType DEF CsvIn, Keeps
  <2> QED BY <2>1, <2>2, <2>3 DEF AheadOK, CsvIn
<1>7. CASE Recover \/ Build
  <2>1. UNCHANGED <<csv, merged>> /\ pc \in {"recover", "build"} /\ pc' \in {"build", "built"}
    BY <1>7 DEF Recover, Build, local
  <2> QED BY <2>1, <1>1 DEF AheadOK, CsvIn
<1>8. CASE SetAside
  <2>1. csv' = csv /\ tmp' = merged /\ pc = "built" /\ pc' = "place" BY <1>8 DEF SetAside
  <2> QED BY <2>1, <1>1 DEF AheadOK, CsvIn
<1>9. CASE Place
  <2>1. csv' = csv /\ final' = tmp /\ pc = "place" /\ pc' = "sweep" BY <1>9 DEF Place
  <2> QED BY <2>1, <1>1, <1>2 DEF AheadOK, CsvIn
<1>10. CASE Sweep
  <2>1. UNCHANGED <<csv, final>> /\ pc = "sweep" /\ pc' = "idle" BY <1>10 DEF Sweep, Finish
  <2>2. Held' = final BY <2>1, <1>1, <1>2 DEF Held
  <2> QED BY <2>1, <2>2, <1>1 DEF AheadOK, CsvIn
<1> QED
  BY <1>0, <1>3, <1>4, <1>5, <1>6, <1>7, <1>8, <1>9, <1>10
  DEF Next, CaptureStep, Execute, Settle, AgeOut, LogsPruned, vars

LEMMA CopiesNext == ASSUME CopiesOK, [Next]_vars PROVE CopiesOK'
BY SoundNext, BehindNext, ReadNext, AskedNext, CountNext, AheadNext DEF CopiesOK

LEMMA CopiesStep ==
  ASSUME CopiesOK, [Next]_vars, faults' <= 1, NEW k \in Key, NEW t \in {csv, Held}
  PROVE  \E u \in {csv', Held'} : Keeps(t[k], u[k])
<1> USE DEF CopiesOK
<1>1. CASE UNCHANGED <<faults, hit>> /\ ~TearCsv /\ ~AmendUnread
  <2>1. Keeps(csv[k], csv'[k]) BY <1>1, CsvStep
  <2>2. CASE hit \cap {"torn", "unread"} = {}
    <3>1. Keeps(Held[k], csv[k]) BY <2>2, HeldInCsv
    <3>2. Keeps(Held[k], csv'[k]) BY <3>1, <2>1, KeepsTransitive
    <3> QED BY <2>1, <3>2
  <2>3. CASE hit \cap {"torn", "unread"} # {}
    <3>1. "gap" \notin hit BY <1>1, <2>3 DEF CountOK
    <3>2. Keeps(Held[k], Held'[k]) BY <3>1, HeldExtends
    <3> QED BY <2>1, <3>2
  <2> QED BY <2>2, <2>3
<1>2. CASE /\ Die \/ TearCsv \/ AmendUnread
           /\ faults' = faults + 1 /\ UNCHANGED <<final, tmp, aside>>
  <2>1. faults = 0 BY <1>2, HistoryAssumption DEF SoundOK, TypeOK
  <2>2. Held' = Held BY <1>2 DEF Held
  <2>3. Keeps(Held[k], Held'[k]) BY <2>2 DEF Keeps
  <2>4. CASE Die
    <3>1. csv' = csv BY <2>4 DEF Die, disk
    <3>2. Keeps(csv[k], csv'[k]) BY <3>1 DEF Keeps
    <3> QED BY <2>3, <3>2
  <2>5. CASE TearCsv \/ AmendUnread
    <3>1. pc = "amend" BY <2>5 DEF TearCsv, AmendUnread
    <3>2. Keeps(csv[k], Held'[k]) BY <2>1, <2>2, <3>1 DEF AheadOK, CsvIn
    <3> QED BY <2>3, <3>2
  <2> QED BY <1>2, <2>4, <2>5
<1> QED BY <1>1, <1>2, FailureStep

(* Whatever happens to one capture, what the CSV or the store has recorded *)
(* of an execution one of them goes on recording.                          *)
THEOREM OneFailureSurvived == Spec => OneFailureLosesNothing
<1>1. CopiesOK /\ [Next]_vars => CopiesOK' BY CopiesNext
<1>2. CopiesOK /\ [Next]_vars
        => [faults' <= 1 =>
              \A k \in Key, t \in {csv, Held} :
                \E u \in {csv', Held'} : Keeps(t[k], u[k])]_vars
  BY CopiesStep
<1> QED BY CopiesInit, <1>1, <1>2, PTL DEF Spec, OneFailureLosesNothing
=============================================================================
