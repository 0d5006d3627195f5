---------------------------- MODULE RunLogProofs ----------------------------
(***************************************************************************)
(* Theorems about RunLog, for any sets of instances, processes and fields. *)
(***************************************************************************)
EXTENDS RunLog, TLAPS

(* The lock: whoever is in the critical section holds it, alone.           *)
LockOK == \A i \in Inst : Critical(i) => lock = i

(* What the holder has read is still the document, the damaged one or one  *)
(* that was deleted meanwhile; if it has read none there is none.          *)
ReadOK ==
  \A i \in Inst :
    /\ found[i] => pc[i] = "publish"
    /\ pc[i] = "publish" /\ found[i] =>
         \/ disk[i] = doc /\ there \in {"doc", "corrupt"}
         \/ there = "absent" /\ lost /\ ~moved
    /\ pc[i] = "publish" /\ ~found[i] => there \in {"absent", "empty"}

(* Before the first publication nobody has seen anything but defaults.     *)
FreshOK ==
  /\ there = "corrupt" => lost
  /\ ~lost /\ there # "doc" => doc = Fresh /\ \A i \in Inst : base[i] = Fresh

(* Comparing with the baseline finds the assigned fields.                  *)
DirtyOK ==
  \A i \in Inst : /\ \A f \in AllField : f \in dirty[i] <=> mem[i][f] # base[i][f]
                  /\ mem[i][Rec] >= base[i][Rec]

(* The record of a recovery is on the document or in the hands of the one  *)
(* who is about to write it.                                               *)
RecordOK ==
  /\ moved /\ there \in {"doc", "corrupt"} => doc[Rec] > 0
  /\ moved => there # "empty"
  /\ \A i \in Inst : MidRecovery(i) => mem[i][Rec] > 0
  /\ moved /\ there = "absent" => \E i \in Inst : MidRecovery(i)

IInv == TypeOK /\ LockOK /\ ReadOK /\ FreshOK /\ DirtyOK /\ RecordOK

(* For the detector: an instance that no other one has overtaken has       *)
(* the stamp of the document as its baseline's.                            *)
StampOK ==
  \A i \in Inst :
    /\ there = "doc" /\ pc[i] # "new" /\ i \notin overtaken => bstamp[i] = stamp
    /\ found[i] => pc[i] = "publish"
    /\ found[i] /\ i \notin overtaken => dstamp[i] = bstamp[i]
---------------------------------------------------------------------------
(* Type correctness, whatever faults the environment shows.                *)

LEMMA FreshType == Fresh \in [AllField -> Nat]
BY DEF Fresh

LEMMA LoadedType == ASSUME TypeOK PROVE Loaded \in [AllField -> Nat] /\ LoadedStamp \in Node \cup {NoStamp}
BY DEF TypeOK, Loaded, LoadedStamp, Fresh

LEMMA StampType == ASSUME TypeOK, NEW i \in Inst PROVE Stamp(i) \in Node
BY LogAssumption DEF Stamp, TypeOK

LEMMA MergedType == ASSUME TypeOK, NEW i \in Inst PROVE Merged(i) \in [AllField -> Nat]
BY DEF TypeOK, Merged

LEMMA TypeInit == Init => TypeOK
<1> SUFFICES ASSUME Init PROVE TypeOK OBVIOUS
<1> USE FreshType DEF Init
<1>1. mem \in [Inst -> [AllField -> Nat]] /\ base \in [Inst -> [AllField -> Nat]]
      /\ disk \in [Inst -> [AllField -> Nat]] /\ doc \in [AllField -> Nat]
  OBVIOUS
<1>2. bstamp \in [Inst -> Node \cup {NoStamp}] /\ dstamp \in [Inst -> Node \cup {NoStamp}]
  OBVIOUS
<1>3. found \in [Inst -> BOOLEAN] /\ dirty \in [Inst -> SUBSET AllField] /\ pc \in [Inst -> Pc]
  BY DEF Pc
<1> QED BY <1>1, <1>2, <1>3 DEF TypeOK

LEMMA TypeNext == ASSUME TypeOK, [Next]_vars PROVE TypeOK'
<1> USE DEF TypeOK, Pc, Goto
<1>1. ASSUME NEW i \in Inst, Load(i) PROVE TypeOK'
  BY <1>1, LoadedType DEF Load, Sync, file, batch, local
<1>2. ASSUME NEW i \in Inst, Refresh(i) PROVE TypeOK'
  BY <1>2, LoadedType DEF Refresh, Sync, file, batch, local
<1>3. ASSUME NEW i \in Inst, EnterBlock(i) PROVE TypeOK'
  BY <1>3 DEF EnterBlock, file, memory, local, ghosts
<1>4. ASSUME NEW i \in Inst, LeaveBlock(i) PROVE TypeOK'
  BY <1>4 DEF LeaveBlock, file, memory, local, ghosts
<1>5. ASSUME NEW i \in Inst, Acquire(i) PROVE TypeOK'
  BY <1>5 DEF Acquire, file, memory, batch, local, ghosts
<1>6. ASSUME NEW i \in Inst, TimesOut(i) PROVE TypeOK'
  BY <1>6 DEF TimesOut, file, memory, batch, local, ghosts
<1>7. ASSUME NEW i \in Inst, OpenRead(i) PROVE TypeOK'
  BY <1>7, LoadedType, FreshType DEF OpenRead, memory, batch, ghosts
<1>8. ASSUME NEW i \in Inst, Quarantine(i) PROVE TypeOK'
  <2>1. mem' \in [Inst -> [AllField -> Nat]] BY <1>8 DEF Quarantine, AllField
  <2>2. dirty' \in [Inst -> SUBSET AllField] BY <1>8 DEF Quarantine, AllField
  <2> QED BY <1>8, <2>1, <2>2 DEF Quarantine, batch, local
<1>9. ASSUME NEW i \in Inst, Publish(i) PROVE TypeOK'
  <2>1. Merged(i) \in [AllField -> Nat] /\ mem[i] \in [AllField -> Nat] BY MergedType
  <2>2. mem' \in [Inst -> [AllField -> Nat]] /\ base' \in [Inst -> [AllField -> Nat]]
    BY <1>9, <2>1 DEF Publish
  <2> QED BY <1>9, <2>1, <2>2, FreshType, StampType DEF Publish, Replace, Release, batch
<1>10. ASSUME NEW i \in Inst, WriteFails(i) PROVE TypeOK'
  BY <1>10, FreshType DEF WriteFails, Release, file, memory, batch, ghosts
<1>11. ASSUME NEW i \in Inst, Discard(i) PROVE TypeOK'
  BY <1>11, FreshType DEF Discard, Vanish, file
<1>12. ASSUME NEW i \in Inst, NEW f \in Field, NEW v \in 0 .. MaxValue, Assign(i, f, v) PROVE TypeOK'
  <2>1. mem' \in [Inst -> [AllField -> Nat]] BY <1>12, LogAssumption DEF Assign, AllField
  <2>2. dirty' \in [Inst -> SUBSET AllField] BY <1>12 DEF Assign, AllField
  <2> QED BY <1>12, <2>1, <2>2 DEF Assign, file, local
<1>13. ASSUME NEW p \in Process, Die(p) PROVE TypeOK'
  <2> DEFINE mine == {i \in Inst : procOf[i] = p}
  <2>1. Vanish(mine) /\ UNCHANGED <<procOf, file, lost, damages>> BY <1>13 DEF Die
  <2>2. lock' \in Inst \cup {NoInst} BY <1>13 DEF Die
  <2> HIDE DEF mine
  <2> QED BY <2>1, <2>2, FreshType DEF Vanish, file
<1>14. CASE Corrupt
  BY <1>14 DEF Corrupt, memory, batch, local
<1>15. CASE Wipe
  BY <1>15, FreshType DEF Wipe, memory, batch, local, ghosts
<1>16. CASE UNCHANGED vars
  BY <1>16 DEF vars, file, memory, batch, local, ghosts
<1> QED BY <1>1, <1>2, <1>3, <1>4, <1>5, <1>6, <1>7, <1>8, <1>9, <1>10, <1>11, <1>12, <1>13,
           <1>14, <1>15, <1>16 DEF Next, Write, InCritical

(* Every state of the log is type correct, whatever faults the environment *)
(* shows: the fields of the document and of every instance stay values.    *)
THEOREM TypeCorrect == Spec => []TypeOK
<1> QED BY TypeInit, TypeNext, PTL DEF Spec
---------------------------------------------------------------------------
(* The invariant: one lemma per action, one step per conjunct.             *)

(* No set-back and no torn recovery; locks may be left and logs deleted.   *)
Sheltered == Faults \subseteq {"lock_left", "wiped"}

LEMMA RecField == Rec \in AllField
BY DEF AllField

LEMMA InitInd == Init => IInv
<1> SUFFICES ASSUME Init PROVE IInv OBVIOUS
<1> USE DEF Init
<1>1. TypeOK BY TypeInit
<1>2. LockOK BY DEF LockOK, Critical
<1>3. ReadOK BY DEF ReadOK
<1>4. FreshOK BY DEF FreshOK
<1>5. DirtyOK
  <2>1. \A i \in Inst : mem[i] = Fresh /\ base[i] = Fresh /\ dirty[i] = {} OBVIOUS
  <2>2. Fresh[Rec] = 0 BY RecField DEF Fresh
  <2>3. ASSUME NEW i \in Inst PROVE mem[i][Rec] >= base[i][Rec]
    <3>1. mem[i][Rec] = 0 /\ base[i][Rec] = 0 BY <2>1, <2>2
    <3> HIDE DEF Init
    <3> QED BY <3>1
  <2>4. ASSUME NEW i \in Inst, NEW f \in AllField PROVE f \in dirty[i] <=> mem[i][f] # base[i][f]
    BY <2>1
  <2> QED BY <2>3, <2>4 DEF DirtyOK
<1>6. RecordOK BY DEF RecordOK, MidRecovery
<1> QED BY <1>1, <1>2, <1>3, <1>4, <1>5, <1>6 DEF IInv

LEMMA LoadInd == ASSUME Sheltered, IInv, NEW i \in Inst, Load(i) PROVE IInv'
<1> USE RecField DEF TypeOK, Load, Sync, Goto, Critical, May, Sheltered, file, memory, batch, local, ghosts
<1>1. TypeOK' BY TypeNext DEF IInv, Next, Write, InCritical
<1>2. LockOK' BY DEF IInv, LockOK
<1>3. ReadOK' BY DEF IInv, ReadOK, LockOK
<1>4. FreshOK' BY DEF IInv, FreshOK, Loaded
<1>5. DirtyOK' BY LoadedType DEF IInv, DirtyOK
<1>6. RecordOK' BY DEF IInv, RecordOK, MidRecovery, LockOK, ReadOK
<1> QED BY <1>1, <1>2, <1>3, <1>4, <1>5, <1>6 DEF IInv

LEMMA RefreshInd == ASSUME Sheltered, IInv, NEW i \in Inst, Refresh(i) PROVE IInv'
<1> USE RecField DEF TypeOK, Refresh, Sync, Goto, Critical, May, Sheltered, file, memory, batch, local, ghosts
<1>1. TypeOK' BY TypeNext DEF IInv, Next, Write, InCritical
<1>2. LockOK' BY DEF IInv, LockOK
<1>3. ReadOK' BY DEF IInv, ReadOK, LockOK
<1>4. FreshOK' BY DEF IInv, FreshOK, Loaded
<1>5. DirtyOK' BY LoadedType DEF IInv, DirtyOK
<1>6. RecordOK' BY DEF IInv, RecordOK, MidRecovery, LockOK, ReadOK
<1> QED BY <1>1, <1>2, <1>3, <1>4, <1>5, <1>6 DEF IInv

LEMMA EnterBlockInd == ASSUME Sheltered, IInv, NEW i \in Inst, EnterBlock(i) PROVE IInv'
<1> USE RecField DEF TypeOK, EnterBlock, Goto, Critical, May, Sheltered, file, memory, batch, local, ghosts
<1>1. TypeOK' BY TypeNext DEF IInv, Next, Write, InCritical
<1>2. LockOK' BY DEF IInv, LockOK
<1>3. ReadOK' BY DEF IInv, ReadOK, LockOK
<1>4. FreshOK' BY DEF IInv, FreshOK, Loaded
<1>5. DirtyOK' BY DEF IInv, DirtyOK
<1>6. RecordOK' BY DEF IInv, RecordOK, MidRecovery, LockOK, ReadOK
<1> QED BY <1>1, <1>2, <1>3, <1>4, <1>5, <1>6 DEF IInv

LEMMA LeaveBlockInd == ASSUME Sheltered, IInv, NEW i \in Inst, LeaveBlock(i) PROVE IInv'
<1> USE RecField DEF TypeOK, LeaveBlock, Goto, Critical, May, Sheltered, file, memory, batch, local, ghosts
<1>1. TypeOK' BY TypeNext DEF IInv, Next, Write, InCritical
<1>2. LockOK' BY DEF IInv, LockOK
<1>3. ReadOK' BY DEF IInv, ReadOK, LockOK
<1>4. FreshOK' BY DEF IInv, FreshOK, Loaded
<1>5. DirtyOK' BY DEF IInv, DirtyOK
<1>6. RecordOK' BY DEF IInv, RecordOK, MidRecovery, LockOK, ReadOK
<1> QED BY <1>1, <1>2, <1>3, <1>4, <1>5, <1>6 DEF IInv

LEMMA AssignInd == ASSUME Sheltered, IInv, NEW i \in Inst, NEW f \in Field, NEW v \in 0 .. MaxValue, Assign(i, f, v) PROVE IInv'
<1> USE RecField DEF TypeOK, Assign, Goto, Critical, May, Sheltered, file, memory, batch, local, ghosts
<1>1. TypeOK' BY TypeNext DEF IInv, Next, Write, InCritical
<1>2. LockOK' BY DEF IInv, LockOK
<1>3. ReadOK' BY DEF IInv, ReadOK, LockOK
<1>4. FreshOK' BY DEF IInv, FreshOK, Loaded
<1>5. DirtyOK'
  <2>1. \A k \in Inst \ {i} : mem'[k] = mem[k] /\ dirty'[k] = dirty[k]
    OBVIOUS
  <2>2. mem'[i] = [mem[i] EXCEPT ![f] = v] /\ f \in AllField /\ f # Rec
    BY LogAssumption DEF AllField, IInv
  <2>3. dirty'[i] = IF v = base[i][f] THEN dirty[i] \ {f} ELSE dirty[i] \cup {f}
    BY DEF IInv
  <2> QED BY <2>1, <2>2, <2>3 DEF IInv, DirtyOK
<1>6. RecordOK' BY DEF IInv, RecordOK, MidRecovery, LockOK, ReadOK
<1> QED BY <1>1, <1>2, <1>3, <1>4, <1>5, <1>6 DEF IInv

LEMMA AcquireInd == ASSUME Sheltered, IInv, NEW i \in Inst, Acquire(i) PROVE IInv'
<1> USE RecField DEF TypeOK, Acquire, Goto, Critical, May, Sheltered, file, memory, batch, local, ghosts
<1>1. TypeOK' BY TypeNext DEF IInv, Next, Write, InCritical
<1>2. LockOK' BY LogAssumption DEF IInv, LockOK
<1>3. ReadOK' BY DEF IInv, ReadOK, LockOK
<1>4. FreshOK' BY DEF IInv, FreshOK, Loaded
<1>5. DirtyOK' BY DEF IInv, DirtyOK
<1>6. RecordOK' BY DEF IInv, RecordOK, MidRecovery, LockOK, ReadOK
<1> QED BY <1>1, <1>2, <1>3, <1>4, <1>5, <1>6 DEF IInv

LEMMA TimesOutInd == ASSUME Sheltered, IInv, NEW i \in Inst, TimesOut(i) PROVE IInv'
<1> USE RecField DEF TypeOK, TimesOut, Goto, Critical, May, Sheltered, file, memory, batch, local, ghosts
<1>1. TypeOK' BY TypeNext DEF IInv, Next, Write, InCritical
<1>2. LockOK' BY DEF IInv, LockOK
<1>3. ReadOK' BY DEF IInv, ReadOK, LockOK
<1>4. FreshOK' BY DEF IInv, FreshOK, Loaded
<1>5. DirtyOK' BY DEF IInv, DirtyOK
<1>6. RecordOK' BY DEF IInv, RecordOK, MidRecovery, LockOK, ReadOK
<1> QED BY <1>1, <1>2, <1>3, <1>4, <1>5, <1>6 DEF IInv

LEMMA OpenReadInd == ASSUME Sheltered, IInv, NEW i \in Inst, OpenRead(i) PROVE IInv'
<1> USE RecField DEF TypeOK, OpenRead, Goto, Critical, May, Sheltered, file, memory, batch, local, ghosts
<1>1. TypeOK' BY TypeNext DEF IInv, Next, Write, InCritical
<1>2. LockOK' BY DEF IInv, LockOK
<1>3. ReadOK' BY DEF IInv, ReadOK, LockOK
<1>4. FreshOK' BY DEF IInv, FreshOK, Loaded
<1>5. DirtyOK' BY DEF IInv, DirtyOK
<1>6. RecordOK' BY DEF IInv, RecordOK, MidRecovery, LockOK, ReadOK
<1> QED BY <1>1, <1>2, <1>3, <1>4, <1>5, <1>6 DEF IInv

LEMMA QuarantineInd == ASSUME Sheltered, IInv, NEW i \in Inst, Quarantine(i) PROVE IInv'
<1> USE RecField DEF TypeOK, Quarantine, Goto, Critical, May, Sheltered, file, memory, batch, local, ghosts
<1>1. TypeOK' BY TypeNext DEF IInv, Next, Write, InCritical
<1>2. LockOK' BY DEF IInv, LockOK
<1>3. ReadOK' BY DEF IInv, ReadOK, LockOK
<1>4. FreshOK' BY DEF IInv, FreshOK, Loaded
<1>5. DirtyOK' BY DEF IInv, DirtyOK
<1>6. RecordOK' BY DEF IInv, RecordOK, MidRecovery, LockOK, ReadOK
<1> QED BY <1>1, <1>2, <1>3, <1>4, <1>5, <1>6 DEF IInv

LEMMA PublishInd == ASSUME Sheltered, IInv, NEW i \in Inst, Publish(i) PROVE IInv'
<1> USE RecField DEF TypeOK, Publish, Replace, Release, Goto, Critical, May, Sheltered, file, memory, batch, local, ghosts
<1>1. TypeOK' BY TypeNext DEF IInv, Next, Write, InCritical
<1>2. LockOK' BY DEF IInv, LockOK
<1>3. ReadOK' BY DEF IInv, ReadOK, LockOK
<1>4. FreshOK' BY DEF IInv, FreshOK, Loaded
<1>5. DirtyOK'
  <2>1. PICK m \in {Merged(i), mem[i]} : mem' = [mem EXCEPT ![i] = m] /\ base' = [base EXCEPT ![i] = m]
    OBVIOUS
  <2>2. m \in [AllField -> Nat] BY MergedType DEF IInv
  <2> QED BY <2>1, <2>2 DEF IInv, DirtyOK
<1>6. RecordOK'
  <2>1. moved => Merged(i)[Rec] > 0
    <3>1. CASE found[i] /\ Rec \notin Changed(i)
      BY <3>1 DEF IInv, RecordOK, ReadOK, Merged
    <3>2. CASE found[i] /\ Rec \in Changed(i)
      BY <3>2 DEF IInv, DirtyOK, Changed, Merged
    <3>3. CASE ~found[i]
      BY <3>3 DEF IInv, RecordOK, ReadOK, MidRecovery, Merged
    <3> QED BY <3>1, <3>2, <3>3
  <2> QED BY <2>1 DEF RecordOK, MidRecovery
<1> QED BY <1>1, <1>2, <1>3, <1>4, <1>5, <1>6 DEF IInv

LEMMA WriteFailsInd == ASSUME Sheltered, IInv, NEW i \in Inst, WriteFails(i) PROVE IInv'
<1> USE RecField DEF TypeOK, WriteFails, Release, Goto, Critical, May, Sheltered, file, memory, batch, local, ghosts
<1>1. TypeOK' BY TypeNext DEF IInv, Next, Write, InCritical
<1>2. LockOK' BY DEF IInv, LockOK
<1>3. ReadOK' BY DEF IInv, ReadOK, LockOK
<1>4. FreshOK' BY DEF IInv, FreshOK, Loaded
<1>5. DirtyOK' BY DEF IInv, DirtyOK
<1>6. RecordOK' BY DEF IInv, RecordOK, MidRecovery, LockOK, ReadOK
<1> QED BY <1>1, <1>2, <1>3, <1>4, <1>5, <1>6 DEF IInv

LEMMA DiscardInd == ASSUME Sheltered, IInv, NEW i \in Inst, Discard(i) PROVE IInv'
<1> USE RecField DEF TypeOK, Discard, Vanish, Goto, Critical, May, Sheltered, file, memory, batch, local, ghosts
<1>1. TypeOK' BY TypeNext DEF IInv, Next, Write, InCritical
<1>2. LockOK' BY DEF IInv, LockOK
<1>3. ReadOK' BY DEF IInv, ReadOK, LockOK
<1>4. FreshOK'
  <2>1. \A k \in Inst : base'[k] = Fresh \/ base'[k] = base[k] OBVIOUS
  <2> QED BY <2>1 DEF IInv, FreshOK
<1>5. DirtyOK' BY DEF IInv, DirtyOK, Fresh
<1>6. RecordOK' BY DEF IInv, RecordOK, MidRecovery, LockOK, ReadOK
<1> QED BY <1>1, <1>2, <1>3, <1>4, <1>5, <1>6 DEF IInv

LEMMA DieInd == ASSUME Sheltered, IInv, NEW p \in Process, Die(p) PROVE IInv'
<1> USE RecField DEF TypeOK, Die, Vanish, Goto, Critical, May, Sheltered, file, memory, batch, local, ghosts
<1>1. TypeOK' BY TypeNext DEF IInv, Next, Write, InCritical
<1>2. LockOK' BY DEF IInv, LockOK
<1>3. ReadOK' BY DEF IInv, ReadOK, LockOK
<1>4. FreshOK' BY DEF IInv, FreshOK, Loaded
<1>5. DirtyOK' BY DEF IInv, DirtyOK, Fresh
<1>6. RecordOK' BY DEF IInv, RecordOK, MidRecovery, LockOK, ReadOK
<1> QED BY <1>1, <1>2, <1>3, <1>4, <1>5, <1>6 DEF IInv

LEMMA CorruptInd == ASSUME Sheltered, IInv, Corrupt PROVE IInv'
<1> USE RecField DEF TypeOK, Corrupt, Goto, Critical, May, Sheltered, file, memory, batch, local, ghosts
<1>1. TypeOK' BY TypeNext DEF IInv, Next, Write, InCritical
<1>2. LockOK' BY DEF IInv, LockOK
<1>3. ReadOK' BY DEF IInv, ReadOK, LockOK
<1>4. FreshOK' BY DEF IInv, FreshOK, Loaded
<1>5. DirtyOK' BY DEF IInv, DirtyOK
<1>6. RecordOK' BY DEF IInv, RecordOK, MidRecovery, LockOK, ReadOK
<1> QED BY <1>1, <1>2, <1>3, <1>4, <1>5, <1>6 DEF IInv

LEMMA WipeInd == ASSUME Sheltered, IInv, Wipe PROVE IInv'
<1> USE RecField DEF TypeOK, Wipe, Goto, Critical, May, Sheltered, file, memory, batch, local, ghosts
<1>1. TypeOK' BY TypeNext DEF IInv, Next, Write, InCritical
<1>2. LockOK' BY DEF IInv, LockOK
<1>3. ReadOK' BY DEF IInv, ReadOK, LockOK
<1>4. FreshOK' BY DEF IInv, FreshOK, Loaded
<1>5. DirtyOK' BY DEF IInv, DirtyOK
<1>6. RecordOK' BY DEF IInv, RecordOK, MidRecovery, LockOK, ReadOK
<1> QED BY <1>1, <1>2, <1>3, <1>4, <1>5, <1>6 DEF IInv

LEMMA StutterInd == ASSUME IInv, UNCHANGED vars PROVE IInv'
BY DEF IInv, TypeOK, LockOK, ReadOK, FreshOK, DirtyOK, RecordOK, MidRecovery, Critical, vars, file,
   memory, batch, local, ghosts

LEMMA NextInd == ASSUME Sheltered PROVE IInv /\ [Next]_vars => IInv'
<1> QED BY WipeInd, StutterInd, LoadInd, RefreshInd, EnterBlockInd, LeaveBlockInd, AssignInd, AcquireInd,
           TimesOutInd, OpenReadInd, QuarantineInd, PublishInd, WriteFailsInd, DiscardInd, DieInd,
           CorruptInd DEF Next, Write, InCritical

(* If no writer fails or dies between moving a damaged document away and   *)
(* replacing it, every document that follows a recovery says so, whoever   *)
(* wrote it, until both are deleted.                                       *)
THEOREM RecoveryIsRecorded == ASSUME Sheltered PROVE Spec => []RecoveryRecorded
<1>1. IInv /\ [Next]_vars => IInv' BY NextInd
<1>2. IInv => RecoveryRecorded BY DEF IInv, RecordOK, RecoveryRecorded
<1> QED BY InitInd, <1>1, <1>2, PTL DEF Spec

---------------------------------------------------------------------------
(* The refinement of FieldStore.                                           *)

(* What a write may publish: the assigned fields' own values, and for the  *)
(* others, unless the document was damaged, what it held.                  *)
LEMMA MergedIsFair ==
  ASSUME IInv, NEW i \in Inst, pc[i] = "publish"
  PROVE  /\ \A f \in dirty[i] : Merged(i)[f] = mem[i][f]
         /\ ~lost => \A f \in AllField \ dirty[i] : Merged(i)[f] = doc[f]
<1> USE DEF IInv, TypeOK
<1>1. \A f \in AllField : f \in dirty[i] <=> f \in Changed(i)
  BY DEF DirtyOK, Changed
<1>2. CASE found[i]
  BY <1>1, <1>2 DEF ReadOK, Merged
<1>3. CASE ~found[i]
  <2>1. Merged(i) = mem[i] BY <1>3 DEF Merged
  <2>2. ~lost => doc = Fresh /\ base[i] = Fresh BY <1>3 DEF ReadOK, FreshOK
  <2> QED BY <2>1, <2>2, <1>1 DEF Changed
<1> QED BY <1>2, <1>3

(* Every execution of the log without a set-back or a torn recovery is one *)
(* of FieldStore: no update is lost and none is invented, except that a    *)
(* document that is damaged or deleted is rebuilt by the next write.       *)
THEOREM Implements == ASSUME Sheltered PROVE Spec => FieldStoreSpec
<1>1. Init => FS!Init
  BY FreshType DEF Init, FS!Init, State
<1>2. ASSUME IInv, [Next]_vars PROVE [FS!Next]_(FS!vars)
  <2> USE <1>2 DEF TypeOK, IInv, Goto, FS!Next, FS!Keep, FS!OthersKeep, FS!vars, State
  <2>1. ASSUME NEW i \in Inst, Load(i) \/ Refresh(i) PROVE FS!Reload(i)
    BY <2>1 DEF Load, Refresh, Sync, FS!Reload, file, batch, local
  <2>2. ASSUME NEW i \in Inst, EnterBlock(i) PROVE UNCHANGED FS!vars
    BY <2>2 DEF EnterBlock, file, memory, local, ghosts
  <2>3. ASSUME NEW i \in Inst, LeaveBlock(i) PROVE FS!Request(i) \/ UNCHANGED FS!vars
    BY <2>3 DEF LeaveBlock, FS!Request, file, memory, local, ghosts
  <2>4. ASSUME NEW i \in Inst, NEW f \in Field, NEW v \in 0 .. MaxValue, Assign(i, f, v) PROVE FS!Set(i, f)
    BY <2>4 DEF Assign, FS!Set, AllField, May, Sheltered, file, local
  <2>5. ASSUME NEW i \in Inst, Acquire(i) PROVE UNCHANGED FS!vars
    BY <2>5 DEF Acquire, file, memory, batch, local, ghosts
  <2>6. ASSUME NEW i \in Inst, TimesOut(i) PROVE FS!Fail(i)
    BY <2>6 DEF TimesOut, FS!Fail, file, memory, batch, local, ghosts
  <2>7. ASSUME NEW i \in Inst, OpenRead(i) PROVE UNCHANGED FS!vars
    BY <2>7 DEF OpenRead, memory, batch, ghosts
  <2>8. ASSUME NEW i \in Inst, Quarantine(i) PROVE FS!Set(i, Rec)
    BY <2>8, RecField DEF Quarantine, FS!Set, batch, local
  <2>9. ASSUME NEW i \in Inst, Publish(i) PROVE FS!Publish(i)
    BY <2>9, MergedIsFair, MergedType DEF Publish, Replace, Release, FS!Publish, batch
  <2>10. ASSUME NEW i \in Inst, WriteFails(i) PROVE FS!Fail(i)
    BY <2>10 DEF WriteFails, Critical, Release, FS!Fail, file, memory, batch, ghosts
  <2>11. ASSUME NEW i \in Inst, Discard(i) PROVE \E S \in SUBSET Inst : FS!Vanish(S)
    BY <2>11 DEF Discard, Vanish, FS!Vanish, file
  <2>12. ASSUME NEW p \in Process, Die(p) PROVE \E S \in SUBSET Inst : FS!Vanish(S)
    <3> DEFINE mine == {i \in Inst : procOf[i] = p}
    <3>1. FS!Vanish(mine)
      BY <2>12 DEF Die, Vanish, FS!Vanish, file
    <3>2. mine \in SUBSET Inst OBVIOUS
    <3> HIDE DEF mine
    <3> QED BY <3>1, <3>2 DEF FS!Vanish
  <2>13. CASE Corrupt
    BY <2>13 DEF Corrupt, FS!Damage, memory, batch, local
  <2>14. CASE Wipe
    BY <2>14, FreshType DEF Wipe, FS!Damage, memory, batch, local
  <2>15. CASE UNCHANGED vars
    BY <2>15 DEF vars, file, memory, batch, local, ghosts
  <2>16. Field \subseteq AllField /\ Rec \in AllField
    BY DEF AllField
  <2> QED BY <2>1, <2>2, <2>3, <2>4, <2>5, <2>6, <2>7, <2>8, <2>9, <2>10, <2>11, <2>12, <2>13,
             <2>14, <2>15, <2>16 DEF Next, Write, InCritical
<1>3. IInv /\ [Next]_vars => IInv' BY NextInd
<1> QED BY InitInd, <1>1, <1>2, <1>3, PTL DEF Spec, FieldStoreSpec, FS!Spec

---------------------------------------------------------------------------
(* The second-writer detector, whatever faults the environment shows.      *)

LEMMA StampNext == ASSUME TypeOK, StampOK, [Next]_vars PROVE StampOK'
<1> USE DEF TypeOK, StampOK, Goto, file, memory, batch, local, ghosts
<1>1. ASSUME NEW i \in Inst, Load(i) \/ Refresh(i) PROVE StampOK'
  BY <1>1 DEF Load, Refresh, Sync, LoadedStamp
<1>2. ASSUME NEW i \in Inst, EnterBlock(i) \/ LeaveBlock(i) \/ Acquire(i) \/ TimesOut(i) PROVE StampOK'
  BY <1>2 DEF EnterBlock, LeaveBlock, Acquire, TimesOut
<1>3. ASSUME NEW i \in Inst, NEW f \in Field, NEW v \in 0 .. MaxValue, Assign(i, f, v) PROVE StampOK'
  BY <1>3 DEF Assign
<1>4. ASSUME NEW i \in Inst, OpenRead(i) PROVE StampOK'
  BY <1>4 DEF OpenRead, LoadedStamp
<1>5. ASSUME NEW i \in Inst, Quarantine(i) PROVE StampOK'
  BY <1>5 DEF Quarantine
<1>6. ASSUME NEW i \in Inst, Publish(i) PROVE StampOK'
  <2>1. \A k \in Inst \ {i} : pc[k] # "new" => k \in overtaken'
    BY <1>6 DEF Publish, Replace
  <2> QED BY <1>6, <2>1 DEF Publish, Replace, Release
<1>7. ASSUME NEW i \in Inst, WriteFails(i) PROVE StampOK'
  BY <1>7 DEF WriteFails, Release, Critical
<1>8. ASSUME NEW i \in Inst, Discard(i) PROVE StampOK'
  BY <1>8 DEF Discard, Vanish
<1>9. ASSUME NEW p \in Process, Die(p) PROVE StampOK'
  BY <1>9 DEF Die, Vanish
<1>10. CASE Corrupt \/ Wipe
  BY <1>10 DEF Corrupt, Wipe
<1>11. CASE UNCHANGED vars
  BY <1>11 DEF vars
<1> QED BY <1>1, <1>2, <1>3, <1>4, <1>5, <1>6, <1>7, <1>8, <1>9, <1>10, <1>11
        DEF Next, Write, InCritical

(* The warning of another writer has a reason, however the instances are   *)
(* spread over processes and nodes: what is on disk under a stamp that is  *)
(* not the baseline's, another instance has published.                     *)
THEOREM DetectorIsSound == Spec => DetectorSound
<1> DEFINE Sound == \A i \in Inst : pc[i] = "publish" /\ Warns(i) /\ Replace(i) => i \in overtaken
<1>1. Init => TypeOK /\ StampOK
  BY TypeInit DEF Init, StampOK
<1>2. TypeOK /\ StampOK /\ [Next]_vars => TypeOK' /\ StampOK'
  BY TypeNext, StampNext
<1>3. StampOK => Sound
  BY DEF StampOK, Warns
<1>4. StampOK /\ [Next]_vars => [Sound]_vars BY <1>3
<1> QED BY <1>1, <1>2, <1>4, PTL DEF Spec, DetectorSound
=============================================================================
