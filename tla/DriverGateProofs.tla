-------------------------- MODULE DriverGateProofs --------------------------
(***************************************************************************)
(* Theorems about DriverGate, for any sets of drivers, hosts and           *)
(* allocations and any mix of kinds.  What is known of the records holds   *)
(* also where two gates overlap, what is known of the drivers only where   *)
(* the environment shows no fault.                                         *)
(***************************************************************************)
EXTENDS DriverGate, TLAPS

(* A live driver has a record, and a young one; who has not claimed, none. *)
RecordOK ==
  \A d \in Driver : /\ Driving(d) => record[d] # "none" /\ d \notin old
                    /\ pc[d] \in {"idle", "enter", "scan"} => record[d] = "none"
                    /\ d \in old => record[d] # "none"

(* Only tmux and onejob drivers outlive their process.                     *)
KindOK ==
  \A d \in Driver : /\ pc[d] = "launched" => kind[d] \in {"tmux", "onejob", "detach"}
                    /\ pc[d] = "running" => kind[d] \in {"tmux", "onejob"}

(* One gate at a time, and it has each live driver still to probe or has   *)
(* been refused already.                                                   *)
OneScan == \A d, e \in Driver : pc[d] = "scan" /\ pc[e] = "scan" => d = e
Seen ==
  \A d, e \in Driver : pc[d] = "scan" /\ Driving(e) =>
    d \in refused \/ \E f \in {"bare", "full"} : <<e, f>> \in todo[d]

(* What is left of an ended allocation is a job whose own id is on record. *)
AllocOK ==
  \A d \in Driver : Present(d) /\ alloc[d] \in ended =>
    kind[d] = "onejob" /\ pc[d] = "running" /\ ~Unseen(d)

(* The drivers of one allocation are on one host.                          *)
SharedOK ==
  \A d, e \in Driver : Present(d) /\ Present(e) /\ alloc[d] = alloc[e] /\ alloc[d] # NoAlloc
    => host[d] = host[e]

(* The records do not depend on one gate excluding another.                *)
RecordFaults == Faults \subseteq {"two_gates"}
RecordInv == TypeOK /\ RecordOK /\ KindOK /\ AllocOK /\ SharedOK

IInv == RecordInv /\ OneDriver /\ OneScan /\ Seen

USE DEF identity, Driving, Process, Present, Pc, AllKinds, Unseen, May, RecordFaults

---------------------------------------------------------------------------
(* The records, one lemma per action.                                      *)

LEMMA EnterRecords ==
  ASSUME RecordFaults, RecordInv, NEW d \in Driver, Enter(d) PROVE RecordInv'
<1> USE GateAssumption DEF RecordInv, TypeOK, Enter, Goto, Sharing
<1>1. TypeOK' OBVIOUS
<1>2. (RecordOK /\ KindOK /\ AllocOK /\ SharedOK)'
  BY <1>1 DEF RecordOK, KindOK, AllocOK, SharedOK
<1> QED BY <1>1, <1>2

LEMMA EnterOverridingRecords ==
  ASSUME RecordFaults, RecordInv, NEW d \in Driver, NEW e \in Driver, EnterOverriding(d, e)
  PROVE  RecordInv'
<1> USE GateAssumption DEF RecordInv, TypeOK, EnterOverriding, Goto, Unlink, Sharing
<1>1. TypeOK' OBVIOUS
<1>2. (RecordOK /\ KindOK /\ AllocOK /\ SharedOK)'
  BY <1>1 DEF RecordOK, KindOK, AllocOK, SharedOK
<1> QED BY <1>1, <1>2

LEMMA ScanRecords ==
  ASSUME RecordFaults, RecordInv, NEW d \in Driver, Scan(d) PROVE RecordInv'
<1> USE GateAssumption DEF RecordInv, TypeOK, Scan, Goto
<1>1. TypeOK' OBVIOUS
<1>2. (RecordOK /\ KindOK /\ AllocOK /\ SharedOK)'
  BY <1>1 DEF RecordOK, KindOK, AllocOK, SharedOK
<1> QED BY <1>1, <1>2

LEMMA ProbeHoldsRecords ==
  ASSUME RecordFaults, RecordInv, NEW d \in Driver, NEW e \in Driver, ProbeHolds(d, e)
  PROVE  RecordInv'
<1> USE GateAssumption DEF RecordInv, TypeOK, ProbeHolds, Blocks
<1>1. TypeOK' OBVIOUS
<1>2. (RecordOK /\ KindOK /\ AllocOK /\ SharedOK)'
  BY <1>1 DEF RecordOK, KindOK, AllocOK, SharedOK
<1> QED BY <1>1, <1>2

LEMMA RefuseRecords ==
  ASSUME RecordFaults, RecordInv, NEW d \in Driver, Refuse(d) PROVE RecordInv'
<1> USE GateAssumption DEF RecordInv, TypeOK, Refuse, Goto
<1>1. TypeOK' OBVIOUS
<1>2. (RecordOK /\ KindOK /\ AllocOK /\ SharedOK)'
  BY <1>1 DEF RecordOK, KindOK, AllocOK, SharedOK
<1> QED BY <1>1, <1>2

LEMMA ClaimRecords ==
  ASSUME RecordFaults, RecordInv, NEW d \in Driver, Claim(d) PROVE RecordInv'
<1> USE GateAssumption DEF RecordInv, TypeOK, Claim, Goto
<1>1. TypeOK' OBVIOUS
<1>2. (RecordOK /\ KindOK /\ AllocOK /\ SharedOK)'
  BY <1>1 DEF RecordOK, KindOK, AllocOK, SharedOK
<1> QED BY <1>1, <1>2

LEMMA FinishRecords ==
  ASSUME RecordFaults, RecordInv, NEW d \in Driver, Finish(d) PROVE RecordInv'
<1> USE GateAssumption DEF RecordInv, TypeOK, Finish, Goto, Unlink
<1>1. TypeOK' OBVIOUS
<1>2. (RecordOK /\ KindOK /\ AllocOK /\ SharedOK)'
  BY <1>1 DEF RecordOK, KindOK, AllocOK, SharedOK
<1> QED BY <1>1, <1>2

LEMMA SubmitFailsRecords ==
  ASSUME RecordFaults, RecordInv, NEW d \in Driver, SubmitFails(d) PROVE RecordInv'
<1> USE GateAssumption DEF RecordInv, TypeOK, SubmitFails, Goto
<1>1. TypeOK' OBVIOUS
<1>2. (RecordOK /\ KindOK /\ AllocOK /\ SharedOK)'
  BY <1>1 DEF RecordOK, KindOK, AllocOK, SharedOK
<1> QED BY <1>1, <1>2

LEMMA FacadeRaisesRecords ==
  ASSUME RecordFaults, RecordInv, NEW d \in Driver, FacadeRaises(d) PROVE RecordInv'
<1> USE GateAssumption DEF RecordInv, TypeOK, FacadeRaises, Goto
<1>1. TypeOK' OBVIOUS
<1>2. (RecordOK /\ KindOK /\ AllocOK /\ SharedOK)'
  BY <1>1 DEF RecordOK, KindOK, AllocOK, SharedOK
<1> QED BY <1>1, <1>2

LEMMA ReenterRecords ==
  ASSUME RecordFaults, RecordInv, NEW d \in Driver, Reenter(d) PROVE RecordInv'
<1> USE GateAssumption DEF RecordInv, TypeOK, Reenter, Goto, Unlink
<1>1. TypeOK' OBVIOUS
<1>2. (RecordOK /\ KindOK /\ AllocOK /\ SharedOK)'
  BY <1>1 DEF RecordOK, KindOK, AllocOK, SharedOK
<1> QED BY <1>1, <1>2

LEMMA LaunchRecords ==
  ASSUME RecordFaults, RecordInv, NEW d \in Driver, Launch(d) PROVE RecordInv'
<1> USE GateAssumption DEF RecordInv, TypeOK, Launch, Goto
<1>1. TypeOK' OBVIOUS
<1>2. (RecordOK /\ KindOK /\ AllocOK /\ SharedOK)'
  BY <1>1 DEF RecordOK, KindOK, AllocOK, SharedOK
<1> QED BY <1>1, <1>2

LEMMA EnrichRecords ==
  ASSUME RecordFaults, RecordInv, NEW d \in Driver, Enrich(d) PROVE RecordInv'
<1> USE GateAssumption DEF RecordInv, TypeOK, Enrich, Goto
<1>1. TypeOK' OBVIOUS
<1>2. (RecordOK /\ KindOK /\ AllocOK /\ SharedOK)'
  BY <1>1 DEF RecordOK, KindOK, AllocOK, SharedOK
<1> QED BY <1>1, <1>2

LEMMA DriverEndsRecords ==
  ASSUME RecordFaults, RecordInv, NEW d \in Driver, DriverEnds(d) PROVE RecordInv'
<1> USE GateAssumption DEF RecordInv, TypeOK, DriverEnds, Goto
<1>1. TypeOK' OBVIOUS
<1>2. (RecordOK /\ KindOK /\ AllocOK /\ SharedOK)'
  BY <1>1 DEF RecordOK, KindOK, AllocOK, SharedOK
<1> QED BY <1>1, <1>2

LEMMA ProcessExitsRecords ==
  ASSUME RecordFaults, RecordInv, NEW d \in Driver, ProcessExits(d) PROVE RecordInv'
<1> USE GateAssumption DEF RecordInv, TypeOK, ProcessExits, Goto
<1>1. TypeOK' OBVIOUS
<1>2. (RecordOK /\ KindOK /\ AllocOK /\ SharedOK)'
  BY <1>1 DEF RecordOK, KindOK, AllocOK, SharedOK
<1> QED BY <1>1, <1>2

LEMMA AgeOutRecords ==
  ASSUME RecordFaults, RecordInv, NEW d \in Driver, AgeOut(d) PROVE RecordInv'
<1> USE GateAssumption DEF RecordInv, TypeOK, AgeOut
<1>1. TypeOK' OBVIOUS
<1>2. (RecordOK /\ KindOK /\ AllocOK /\ SharedOK)'
  BY <1>1 DEF RecordOK, KindOK, AllocOK, SharedOK
<1> QED BY <1>1, <1>2

(* A gate never unlinks the record of a live driver, whatever its mode, its *)
(* host, the allocation it runs in and the moment its record was read.     *)
LEMMA ReclaimSpares ==
  ASSUME RecordFaults, RecordInv, NEW d \in Driver, NEW e \in Driver, ProbeReclaims(d, e)
  PROVE  ~Driving(e)
<1> USE DEF RecordInv
<1> SUFFICES ASSUME Driving(e) PROVE FALSE
  OBVIOUS
<1>1. PICK f \in {"bare", "full"} :
        /\ <<e, f>> \in todo[d]
        /\ \E v \in Verdicts(d, e, f) : ~Blocks(e, v)
  BY DEF ProbeReclaims
<1>2. pc[d] = "scan" BY DEF ProbeReclaims
<1>3. PICK v \in Verdicts(d, e, f) : ~Blocks(e, v) BY <1>1
<1>4. v \notin {"alive", "unknown"} BY <1>3 DEF Blocks, RecordOK
<1>5. CASE kind[e] = "onejob"
  <2>1. v \in ByJobId(e, f) BY <1>3, <1>5 DEF Verdicts
  <2>2. CASE f = "full" BY <1>4, <1>5, <2>1, <2>2 DEF ByJobId, Slurm
  <2>3. CASE f = "bare"
    <3>1. alloc[e] \in ended BY <1>4, <2>1, <2>3 DEF ByJobId, Slurm
    <3> QED BY <1>1, <2>3, <3>1 DEF AllocOK
  <2> QED BY <2>2, <2>3
<1>6. CASE kind[e] = "tmux" /\ host[e] # host[d]
  <2>1. alloc[e] # NoAlloc => alloc[e] # alloc[d]
    BY <1>2, <1>6 DEF SharedOK
  <2>2. v \in ByJobId(e, f) BY <1>3, <1>6, <2>1 DEF Verdicts, FromAfar
  <2>3. alloc[e] \in ended BY <1>4, <1>6, <2>2 DEF ByJobId, Slurm
  <2> QED BY <1>6, <2>3 DEF AllocOK
<1>7. CASE kind[e] # "onejob" /\ kind[e] # "tmux" /\ host[e] # host[d]
  BY <1>3, <1>4, <1>7 DEF Verdicts, FromAfar
<1>8. CASE kind[e] = "tmux" /\ host[e] = host[d]
  BY <1>3, <1>4, <1>8 DEF Verdicts, BySession
<1>9. CASE kind[e] # "onejob" /\ kind[e] # "tmux" /\ host[e] = host[d]
  <2>1. Process(e) BY <1>9 DEF KindOK
  <2> QED BY <1>3, <1>4, <1>9, <2>1 DEF Verdicts, ByPid
<1> QED BY <1>5, <1>6, <1>7, <1>8, <1>9

LEMMA ProbeReclaimsRecords ==
  ASSUME RecordFaults, RecordInv, NEW d \in Driver, NEW e \in Driver, ProbeReclaims(d, e)
  PROVE  RecordInv'
<1> USE DEF RecordInv, TypeOK, ProbeReclaims, Unlink
<1>1. ~Driving(e) BY ReclaimSpares
<1>2. (TypeOK /\ KindOK /\ SharedOK)' BY DEF KindOK, SharedOK
<1>3. RecordOK' BY <1>1 DEF RecordOK
<1>4. AllocOK'
  <2> SUFFICES ASSUME NEW h \in Driver, Present(h), alloc[h] \in ended
               PROVE  kind[h] = "onejob" /\ pc[h] = "running" /\ ~(Unseen(h)')
    BY DEF AllocOK
  <2>1. kind[h] = "onejob" /\ pc[h] = "running" /\ ~Unseen(h) BY DEF AllocOK
  <2>2. h # e BY <1>1, <2>1
  <2> QED BY <2>1, <2>2
<1> QED BY <1>2, <1>3, <1>4

(* The end of an allocation leaves only jobs that answer for themselves.   *)
LEMMA AllocEndsRecords ==
  ASSUME RecordFaults, RecordInv, NEW a \in Alloc, AllocEnds(a) PROVE RecordInv'
<1> USE DEF RecordInv, TypeOK, Survives
<1>1. \A d \in Driver : pc'[d] = (IF alloc[d] = a /\ Survives(d) THEN "running"
                                  ELSE IF alloc[d] = a /\ Present(d) THEN "gone" ELSE pc[d])
  BY DEF AllocEnds
<1>2. UNCHANGED <<kind, host, alloc, record, old, todo, refused>> /\ ended' = ended \cup {a}
  BY DEF AllocEnds
<1>3. \A d \in Driver : alloc[d] = a /\ Survives(d) => ~Unseen(d)
  BY DEF AllocEnds
<1>4. (TypeOK /\ RecordOK /\ KindOK /\ SharedOK)'
  BY <1>1, <1>2 DEF RecordOK, KindOK, SharedOK, AllocEnds
<1>5. AllocOK'
  <2> SUFFICES ASSUME NEW d \in Driver, Present(d)', alloc[d] \in ended'
               PROVE  kind[d] = "onejob" /\ pc'[d] = "running" /\ ~Unseen(d)
    BY <1>2 DEF AllocOK
  <2>1. CASE alloc[d] = a BY <1>1, <1>3, <2>1
  <2>2. CASE alloc[d] # a BY <1>1, <1>2, <2>2 DEF AllocOK
  <2> QED BY <2>1, <2>2
<1> QED BY <1>4, <1>5

LEMMA InitRecords == Init => RecordInv
BY GateAssumption DEF Init, RecordInv, TypeOK, RecordOK, KindOK, AllocOK, SharedOK

LEMMA NextRecords == ASSUME RecordFaults, RecordInv, [Next]_vars PROVE RecordInv'
<1>1. ASSUME NEW d \in Driver, Gate(d) PROVE RecordInv'
  BY <1>1, EnterRecords, EnterOverridingRecords, ScanRecords, ProbeHoldsRecords,
     ProbeReclaimsRecords, RefuseRecords, ClaimRecords DEF Gate
<1>2. ASSUME NEW d \in Driver, Drive(d) PROVE RecordInv'
  BY <1>2, FinishRecords, SubmitFailsRecords, FacadeRaisesRecords, ReenterRecords, LaunchRecords,
     EnrichRecords, DriverEndsRecords, ProcessExitsRecords DEF Drive
<1>3. CASE (\E d \in Driver : AgeOut(d)) \/ (\E a \in Alloc : AllocEnds(a))
  BY <1>3, AgeOutRecords, AllocEndsRecords
<1>4. CASE UNCHANGED vars
  BY <1>4 DEF vars, RecordInv, TypeOK, RecordOK, KindOK, AllocOK, SharedOK
<1> QED BY <1>1, <1>2, <1>3, <1>4 DEF Next

---------------------------------------------------------------------------
(* The drivers, where gates do not overlap.                                *)

(* A step of a driver that has claimed admits nobody.                      *)
LEMMA DriveInd ==
  ASSUME Faults = {}, IInv, NEW d \in Driver, Drive(d) \/ AgeOut(d)
  PROVE  (OneDriver /\ OneScan /\ Seen)'
<1> USE DEF IInv, RecordInv, TypeOK, Goto, Unlink
<1>1. /\ UNCHANGED <<todo, refused>>
      /\ \A e \in Driver : (Driving(e)' => Driving(e)) /\ (pc'[e] = "scan" => pc[e] = "scan")
  BY DEF Drive, Finish, SubmitFails, FacadeRaises, Reenter, Launch, Enrich, DriverEnds,
         ProcessExits, AgeOut
<1> QED BY <1>1 DEF OneDriver, OneScan, Seen

LEMMA EnterInd ==
  ASSUME Faults = {}, IInv, NEW d \in Driver, Enter(d) \/ Refuse(d)
  PROVE  (OneDriver /\ OneScan /\ Seen)'
<1> USE DEF IInv, RecordInv, TypeOK, Goto
<1>1. /\ UNCHANGED todo /\ \A e \in Driver : e \in refused /\ pc'[e] = "scan" => e \in refused'
      /\ \A e \in Driver : (Driving(e)' => Driving(e)) /\ (pc'[e] = "scan" => pc[e] = "scan")
  BY DEF Enter, Refuse
<1> QED BY <1>1 DEF OneDriver, OneScan, Seen

LEMMA EnterOverridingInd ==
  ASSUME Faults = {}, IInv, NEW d \in Driver, NEW e \in Driver, EnterOverriding(d, e)
  PROVE  (OneDriver /\ OneScan /\ Seen)'
<1> USE DEF IInv, RecordInv, TypeOK, EnterOverriding, Goto
<1> QED BY DEF OneDriver, OneScan, Seen

LEMMA ScanInd ==
  ASSUME Faults = {}, IInv, NEW d \in Driver, Scan(d) PROVE (OneDriver /\ OneScan /\ Seen)'
<1> USE DEF IInv, RecordInv, TypeOK, Scan, Goto
<1>1. (OneDriver /\ OneScan)' BY DEF OneDriver, OneScan
  (* Every live driver has a record to be listed.                            *)
<1>2. Seen' BY DEF Seen, RecordOK
<1> QED BY <1>1, <1>2

LEMMA ProbeHoldsInd ==
  ASSUME Faults = {}, IInv, NEW d \in Driver, NEW e \in Driver, ProbeHolds(d, e)
  PROVE  (OneDriver /\ OneScan /\ Seen)'
<1> USE DEF IInv, RecordInv, TypeOK, ProbeHolds
<1> QED BY DEF OneDriver, OneScan, Seen

(* The record that a gate takes from its list is not a live driver's.      *)
LEMMA ProbeReclaimsInd ==
  ASSUME Faults = {}, IInv, NEW d \in Driver, NEW e \in Driver, ProbeReclaims(d, e)
  PROVE  (OneDriver /\ OneScan /\ Seen)'
<1> USE DEF IInv
<1>1. ~Driving(e) BY ReclaimSpares
<1> USE DEF RecordInv, TypeOK, ProbeReclaims
<1>2. (OneDriver /\ OneScan)' BY DEF OneDriver, OneScan
<1>3. Seen'
  <2> SUFFICES ASSUME NEW g \in Driver, NEW h \in Driver, pc[g] = "scan", Driving(h)
               PROVE  (g \in refused \/ \E f \in {"bare", "full"} : <<h, f>> \in todo[g])'
    BY DEF Seen
  <2>1. h # e BY <1>1
  <2> QED BY <2>1 DEF Seen
<1> QED BY <1>2, <1>3

(* Only a gate that has met no live driver claims.                         *)
LEMMA ClaimInd ==
  ASSUME Faults = {}, IInv, NEW d \in Driver, Claim(d) PROVE (OneDriver /\ OneScan /\ Seen)'
<1> USE DEF IInv, RecordInv, TypeOK, Claim, Goto
<1>1. \A e \in Driver : ~Driving(e) BY DEF Seen
<1>2. \A e \in Driver : Driving(e)' => e = d BY <1>1
<1>3. (OneDriver /\ OneScan)' BY <1>2 DEF OneDriver, OneScan
<1>4. Seen' BY <1>2 DEF Seen, OneScan
<1> QED BY <1>3, <1>4

LEMMA AllocEndsInd ==
  ASSUME Faults = {}, IInv, NEW a \in Alloc, AllocEnds(a) PROVE (OneDriver /\ OneScan /\ Seen)'
<1> USE DEF IInv, RecordInv, TypeOK, Survives
<1>1. /\ UNCHANGED <<todo, refused>>
      /\ \A e \in Driver : (Driving(e)' => Driving(e)) /\ (pc'[e] = "scan" => pc[e] = "scan")
  BY DEF AllocEnds
<1> QED BY <1>1 DEF OneDriver, OneScan, Seen

LEMMA InitInd == Init => IInv
BY InitRecords DEF Init, IInv, OneDriver, OneScan, Seen

LEMMA NextInd == ASSUME Faults = {}, IInv, [Next]_vars PROVE IInv'
<1>1. RecordInv' BY NextRecords DEF IInv
<1>2. ASSUME NEW d \in Driver, Gate(d) PROVE (OneDriver /\ OneScan /\ Seen)'
  BY <1>2, EnterInd, EnterOverridingInd, ScanInd, ProbeHoldsInd, ProbeReclaimsInd, ClaimInd DEF Gate
<1>3. ASSUME NEW d \in Driver, Drive(d) \/ AgeOut(d) PROVE (OneDriver /\ OneScan /\ Seen)'
  BY <1>3, DriveInd
<1>4. ASSUME NEW a \in Alloc, AllocEnds(a) PROVE (OneDriver /\ OneScan /\ Seen)'
  BY <1>4, AllocEndsInd
<1>5. CASE UNCHANGED vars
  BY <1>1, <1>5 DEF vars, IInv, OneDriver, OneScan, Seen
<1> QED BY <1>1, <1>2, <1>3, <1>4, <1>5 DEF Next, IInv

---------------------------------------------------------------------------
(* Type correctness, whatever the environment shows.                       *)
THEOREM TypeCorrect == Spec => []TypeOK
<1> USE GateAssumption DEF TypeOK, Goto, Unlink
<1>1. Init => TypeOK BY DEF Init
<1>2. TypeOK /\ [Next]_vars => TypeOK'
  <2> SUFFICES ASSUME TypeOK, [Next]_vars PROVE TypeOK'
    OBVIOUS
  <2>1. ASSUME NEW d \in Driver, Gate(d) PROVE TypeOK'
    <3>1. CASE Enter(d) \/ Refuse(d) \/ Claim(d)
      BY <3>1 DEF Enter, Refuse, Claim
    <3>2. CASE Scan(d) BY <3>2 DEF Scan
    <3>3. ASSUME NEW e \in Driver, EnterOverriding(d, e) PROVE TypeOK'
      BY <3>3 DEF EnterOverriding
    <3>4. ASSUME NEW e \in Driver, ProbeHolds(d, e) PROVE TypeOK'
      BY <3>4 DEF ProbeHolds
    <3>5. ASSUME NEW e \in Driver, ProbeReclaims(d, e) PROVE TypeOK'
      BY <3>5 DEF ProbeReclaims
    <3> QED BY <2>1, <3>1, <3>2, <3>3, <3>4, <3>5 DEF Gate
  <2>2. ASSUME NEW d \in Driver, Drive(d) PROVE TypeOK'
    <3>1. CASE Finish(d) \/ SubmitFails(d) \/ FacadeRaises(d) \/ Reenter(d) \/ Launch(d)
      BY <3>1 DEF Finish, SubmitFails, FacadeRaises, Reenter, Launch
    <3>2. CASE Enrich(d) BY <3>2 DEF Enrich
    <3>3. CASE DriverEnds(d) \/ ProcessExits(d) BY <3>3 DEF DriverEnds, ProcessExits
    <3> QED BY <2>2, <3>1, <3>2, <3>3 DEF Drive
  <2>3. ASSUME NEW d \in Driver, AgeOut(d) PROVE TypeOK'
    BY <2>3 DEF AgeOut
  <2>4. ASSUME NEW a \in Alloc, AllocEnds(a) PROVE TypeOK'
    BY <2>4 DEF AllocEnds, Survives
  <2>5. CASE UNCHANGED vars BY <2>5 DEF vars
  <2> QED BY <2>1, <2>2, <2>3, <2>4, <2>5 DEF Next
<1> QED BY <1>1, <1>2, PTL DEF Spec

---------------------------------------------------------------------------
(* The gate admits one orchestration driver at a time to an analysis tree, *)
(* for any number of drivers, hosts and allocations, in any mix of modes,  *)
(* as long as the environment shows none of FaultKinds.                    *)
THEOREM OneDriverHolds == ASSUME Faults = {} PROVE Spec => []OneDriver
<1>1. IInv /\ [Next]_vars => IInv' BY NextInd
<1>2. IInv => OneDriver BY DEF IInv
<1> QED BY InitInd, <1>1, <1>2, PTL DEF Spec

(* No step takes the record of a live driver away: the record on which the *)
(* next gate's refusal rests.  This needs no exclusion between gates: of   *)
(* two that overlap neither reclaims what a live driver has written.       *)
THEOREM RecordsAreKept == ASSUME RecordFaults PROVE Spec => LiveRecordKept
<1> DEFINE Kept == \A d \in Driver : Driving(d) /\ record[d] # "none"
                                        => record'[d] # "none" \/ ~(Driving(d)')
<1>1. RecordInv /\ [Next]_vars => RecordInv' BY NextRecords
<1>2. ASSUME RecordInv' PROVE Kept
  BY <1>2 DEF RecordInv, RecordOK
<1>3. RecordInv /\ RecordInv' /\ [Next]_vars => [Kept]_vars BY <1>2
<1> QED BY InitRecords, <1>1, <1>3, PTL DEF Spec, LiveRecordKept

(* Every execution of the gate is one of SingleFlight, drivers being the   *)
(* holders and the tree the one resource: claiming begins, anything else   *)
(* ends the work of at most one driver or is a stutter.                    *)
THEOREM Implements == ASSUME Faults = {} PROVE Spec => OneDriverSpec
<1>1. Init => SF!Init
  BY DEF Init, SF!Init, Working
<1>2. ASSUME IInv, [Next]_vars PROVE [SF!Next]_Working
  <2> USE DEF SF!Next, IInv, RecordInv
  <2>1. ASSUME NEW d \in Driver, Claim(d) PROVE SF!Begin(d, "tree")
    <3>1. \A e \in Driver : ~Driving(e)
      BY <1>2, <2>1 DEF Claim, Seen
    <3>2. Driving(d)' /\ \A e \in Driver \ {d} : ~(Driving(e)')
      BY <1>2, <2>1, <3>1 DEF Claim, Goto, TypeOK
    <3> HIDE DEF Driving
    <3>3. Working = {} BY <3>1 DEF Working
    <3>4. Working' = {<<d, "tree">>} BY <3>2 DEF Working
    <3> QED BY <3>3, <3>4 DEF SF!Begin
  <2>2. ASSUME \A d \in Driver : Driving(d)' => Driving(d)
        PROVE  Working' = Working \/ \E d \in Driver : SF!End(d, "tree")
    <3> HIDE DEF Driving
    <3>1. CASE \E d \in Driver : Driving(d) /\ ~(Driving(d)')
      <4>1. PICK d \in Driver : Driving(d) /\ ~(Driving(d)') BY <3>1
      <4>2. \A e \in Driver : Driving(e) => e = d BY <1>2, <4>1 DEF OneDriver
      <4>3. Working = {<<d, "tree">>} BY <4>1, <4>2 DEF Working
      <4>4. Working' = {} BY <2>2, <4>1, <4>2 DEF Working
      <4> QED BY <4>3, <4>4 DEF SF!End
    <3>2. CASE \A d \in Driver : Driving(d)' <=> Driving(d)
      <4>1. ASSUME NEW p \in Driver \X {"tree"}
            PROVE  (Driving(p[1]))' <=> Driving(p[1])
        BY <3>2
      <4> QED BY <4>1 DEF Working
    <3> QED BY <2>2, <3>1, <3>2
  <2>3. ASSUME NEW d \in Driver, Gate(d) \/ Drive(d) \/ AgeOut(d), ~Claim(d)
        PROVE  \A e \in Driver : Driving(e)' => Driving(e)
    BY <1>2, <2>3 DEF Gate, Drive, Enter, EnterOverriding, Scan, ProbeHolds, ProbeReclaims, Refuse,
       Finish, SubmitFails, FacadeRaises, Reenter, Launch, Enrich, DriverEnds, ProcessExits, AgeOut,
       Goto, TypeOK
  <2>4. ASSUME NEW a \in Alloc, AllocEnds(a)
        PROVE  \A e \in Driver : Driving(e)' => Driving(e)
    BY <1>2, <2>4 DEF AllocEnds, Survives, TypeOK
  <2>5. CASE UNCHANGED vars
    BY <2>5, <2>2 DEF vars, SF!End
  <2> QED BY <1>2, <2>1, <2>2, <2>3, <2>4, <2>5 DEF Next
<1>3. IInv /\ [Next]_vars => IInv' BY NextInd
<1> QED BY InitInd, <1>1, <1>2, <1>3, PTL DEF Spec, OneDriverSpec, SF!Spec
=============================================================================
