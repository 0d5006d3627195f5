------------------------------- MODULE RunLog -------------------------------
(***************************************************************************)
(* The processing log: one JSON document per scenario, model, analysis or  *)
(* system (TRITONSWMM_log and its subclasses), written by many short-lived *)
(* processes.  A process may hold several instances of the document (every *)
(* get_log returns a new one), and other processes others; assigning a     *)
(* field of an instance publishes it: under a lock file the document is    *)
(* read again, every field the instance has not changed since it last      *)
(* synchronised takes the value on disk, and the result replaces the file. *)
(*                                                                         *)
(* Values are numbers; 0 is a field's default.  The field Rec is the list  *)
(* recovered_from_unparseable, modelled by its length.                     *)
(***************************************************************************)
EXTENDS Naturals

CONSTANTS
  Inst,      \* instances; one that is dropped may be loaded again
  Process,   \* processes; one that dies is started again
  Placements,\* SUBSET [Inst -> Process]: who may hold which instance
  Node,      \* what the writer stamp is compared on: (hostname, restart_count)
  NodeOf,    \* [Process -> Node]
  Field,     \* the fields callers assign
  Rec,       \* the recovery record
  MaxValue,  \* callers assign 0 .. MaxValue
  MaxCorrupt,\* bound on how often the document is damaged
  NoStamp,   \* no last_writer
  NoInst,    \* the lock is free
  Faults     \* which of FaultKinds the environment may show

(***************************************************************************)
(*   set_back       a field is assigned the value its instance loaded      *)
(*                  while the document holds another one                   *)
(*   torn_recovery  a writer fails or dies between moving a damaged        *)
(*                  document away and replacing it                         *)
(*   lock_left      the lock is a SoftFileLock, and its holder dies        *)
(*   wiped          the document and its quarantined copies are deleted    *)
(*                  while instances of it live                             *)
(***************************************************************************)
FaultKinds == {"set_back", "torn_recovery", "lock_left", "wiped"}

ASSUME LogAssumption ==
  /\ Placements \subseteq [Inst -> Process]
  /\ NodeOf \in [Process -> Node]
  /\ Rec \notin Field
  /\ MaxValue \in Nat /\ MaxCorrupt \in Nat
  /\ NoStamp \notin Node /\ NoInst \notin Inst
  /\ Faults \subseteq FaultKinds

May(f) == f \in Faults
AllField == Field \cup {Rec}

VARIABLES
  procOf,   \* [Inst -> Process], fixed
  there,    \* "absent", "empty", "corrupt" or "doc"
  doc,      \* [AllField -> Nat]: the document, or the last one there was
  stamp,    \* its last_writer
  moved,    \* a damaged document has been moved to *.unreadable
  mem,      \* [Inst -> [AllField -> Nat]]: the instance's fields
  base,     \* [Inst -> [AllField -> Nat]]: its _baseline
  bstamp,   \* [Inst -> the last_writer of its baseline]
  block,    \* the instances inside deferred_writes()
  owed,     \* those of them that have _write_pending
  pc,       \* [Inst -> Pc]
  lock,     \* the holder of the lock file
  found,    \* [Inst -> BOOLEAN]: write() has read a document
  disk,     \* [Inst -> [AllField -> Nat]]: the document it read
  dstamp,   \* [Inst -> its last_writer]
  lost,     \* history: damaged or deleted, and nothing published since
  overtaken,\* history: instances whose document another one has written since
            \* they last synchronised
  dirty,    \* [Inst -> SUBSET AllField], history: the fields assigned since the
            \* instance last synchronised, but to the value the document had
  damages   \* how often the document was damaged, up to MaxCorrupt

file   == <<there, doc, stamp, moved>>
memory == <<mem, base, bstamp>>
batch  == <<block, owed>>
local  == <<found, disk, dstamp>>
ghosts == <<lost, overtaken, dirty, damages>>
vars   == <<procOf, file, memory, batch, pc, lock, local, ghosts>>

(* _writer_stamp, as far as stamps are compared.                           *)
Stamp(i) == NodeOf[procOf[i]]

Pc == {"new",                       \* no such instance
       "idle", "wait",              \* wait: for the lock
       "open", "move", "publish"}   \* in the critical section
Critical(i) == pc[i] \in {"open", "move", "publish"}

TypeOK ==
  /\ procOf \in Placements
  /\ there \in {"absent", "empty", "corrupt", "doc"}
  /\ doc \in [AllField -> Nat]
  /\ stamp \in Node \cup {NoStamp}
  /\ mem \in [Inst -> [AllField -> Nat]]
  /\ base \in [Inst -> [AllField -> Nat]]
  /\ bstamp \in [Inst -> Node \cup {NoStamp}]
  /\ block \subseteq Inst /\ owed \subseteq block /\ overtaken \subseteq Inst
  /\ pc \in [Inst -> Pc]
  /\ lock \in Inst \cup {NoInst}
  /\ found \in [Inst -> BOOLEAN]
  /\ disk \in [Inst -> [AllField -> Nat]]
  /\ dstamp \in [Inst -> Node \cup {NoStamp}]
  /\ dirty \in [Inst -> SUBSET AllField]
  /\ moved \in BOOLEAN /\ lost \in BOOLEAN /\ damages \in Nat

(* An instance of defaults.                                                *)
Fresh == [f \in AllField |-> 0]

Init ==
  /\ procOf \in Placements
  /\ there = "absent" /\ doc = Fresh /\ stamp = NoStamp /\ moved = FALSE
  /\ mem = [i \in Inst |-> Fresh]
  /\ base = [i \in Inst |-> Fresh]
  /\ bstamp = [i \in Inst |-> NoStamp]
  /\ block = {} /\ owed = {}
  /\ pc = [i \in Inst |-> "new"]
  /\ lock = NoInst
  /\ found = [i \in Inst |-> FALSE]
  /\ disk = [i \in Inst |-> Fresh]
  /\ dstamp = [i \in Inst |-> NoStamp]
  /\ lost = FALSE /\ overtaken = {} /\ damages = 0
  /\ dirty = [i \in Inst |-> {}]

Goto(i, p) == pc' = [pc EXCEPT ![i] = p]

---------------------------------------------------------------------------
(* Reading without the lock.                                               *)

(* from_json: an empty document is an absent one; one that does not parse  *)
(* gives defaults with a recovery record.                                  *)
Loaded == CASE there = "doc" -> doc
            [] there = "corrupt" -> [Fresh EXCEPT ![Rec] = 1]
            [] OTHER -> Fresh
LoadedStamp == IF there = "doc" THEN stamp ELSE NoStamp

Sync(i) ==
  /\ mem' = [mem EXCEPT ![i] = Loaded]
  /\ base' = [base EXCEPT ![i] = Loaded]
  /\ bstamp' = [bstamp EXCEPT ![i] = LoadedStamp]
  /\ overtaken' = overtaken \ {i}
  /\ dirty' = [dirty EXCEPT ![i] = {}]

(* get_log and the constructors: from_json, or defaults if there is none.  *)
Load(i) ==
  /\ pc[i] = "new"
  /\ Sync(i)
  /\ Goto(i, "idle")
  /\ UNCHANGED <<procOf, file, batch, lock, local, lost, damages>>

(* Variant of Refresh: the document's stamp is not taken over.             *)
Refresh_OldStamp(i) ==
  /\ pc[i] = "idle" /\ there # "absent"
  /\ mem' = [mem EXCEPT ![i] = Loaded]
  /\ base' = [base EXCEPT ![i] = Loaded]
  /\ overtaken' = overtaken \ {i}
  /\ dirty' = [dirty EXCEPT ![i] = {}]
  /\ UNCHANGED <<procOf, file, bstamp, batch, pc, lock, local, lost, damages>>

(* refresh: without a document the instance keeps what it has.             *)
Refresh(i) ==
  /\ pc[i] = "idle" /\ there # "absent"
  /\ Sync(i)
  /\ UNCHANGED <<procOf, file, batch, pc, lock, local, lost, damages>>

---------------------------------------------------------------------------
(* Assigning a field.                                                      *)

(* LogField.set, clear, LogFieldDict.set and Processing.update: the value, *)
(* then write(), which inside deferred_writes() only notes that it is owed.*)
Assign(i, f, v) ==
  /\ pc[i] = "idle"
  /\ v = base[i][f] /\ v # doc[f] => May("set_back")
  /\ mem' = [mem EXCEPT ![i][f] = v]
  /\ IF i \in block THEN owed' = owed \cup {i} /\ UNCHANGED pc
                    ELSE Goto(i, "wait") /\ UNCHANGED owed
  /\ dirty' = [dirty EXCEPT ![i] = IF v = base[i][f] /\ v = doc[f] THEN @ \ {f} ELSE @ \cup {f}]
  /\ UNCHANGED <<procOf, file, base, bstamp, block, lock, local, lost, overtaken, damages>>

EnterBlock(i) ==
  /\ pc[i] = "idle" /\ i \notin block
  /\ block' = block \cup {i}
  /\ UNCHANGED <<procOf, file, memory, owed, pc, lock, local, ghosts>>

(* The outermost exit of deferred_writes(), by an exception or not.        *)
LeaveBlock(i) ==
  /\ pc[i] = "idle" /\ i \in block
  /\ block' = block \ {i} /\ owed' = owed \ {i}
  /\ IF i \in owed THEN Goto(i, "wait") ELSE UNCHANGED pc
  /\ UNCHANGED <<procOf, file, memory, lock, local, ghosts>>

---------------------------------------------------------------------------
(* write()                                                                 *)

Acquire(i) ==
  /\ pc[i] = "wait" /\ lock = NoInst
  /\ lock' = i
  /\ Goto(i, "open")
  /\ UNCHANGED <<procOf, file, memory, batch, local, ghosts>>

(* Variant of TimesOut: the lock is waited for without a timeout.          *)
TimesOut_Never(i) == FALSE /\ UNCHANGED vars

(* 30 seconds have passed: ProcessingError, the value stays in memory.     *)
TimesOut(i) ==
  /\ pc[i] = "wait" /\ lock # NoInst
  /\ Goto(i, "idle")
  /\ UNCHANGED <<procOf, file, memory, batch, lock, local, ghosts>>

(* os.open with O_CREAT, and the read: the name exists from here on.       *)
OpenRead(i) ==
  /\ pc[i] = "open"
  /\ there' = IF there = "absent" THEN "empty" ELSE there
  /\ Goto(i, IF there = "corrupt" THEN "move" ELSE "publish")
  /\ found' = [found EXCEPT ![i] = there = "doc"]
  /\ disk' = [disk EXCEPT ![i] = IF there = "doc" THEN doc ELSE Fresh]
  /\ dstamp' = [dstamp EXCEPT ![i] = LoadedStamp]
  /\ UNCHANGED <<procOf, doc, stamp, moved, memory, batch, lock, ghosts>>

(* Variant of Quarantine: the recovery is not recorded on the instance.    *)
Quarantine_Silent(i) ==
  /\ pc[i] = "move" /\ there = "corrupt"
  /\ there' = "absent" /\ moved' = TRUE
  /\ Goto(i, "publish")
  /\ UNCHANGED <<procOf, doc, stamp, memory, batch, lock, local, ghosts>>

(* os.replace of a document that does not parse to its quarantine name.    *)
Quarantine(i) ==
  /\ pc[i] = "move" /\ there = "corrupt"
  /\ there' = "absent" /\ moved' = TRUE
  /\ mem' = [mem EXCEPT ![i][Rec] = @ + 1]
  /\ dirty' = [dirty EXCEPT ![i] = @ \cup {Rec}]
  /\ Goto(i, "publish")
  /\ UNCHANGED <<procOf, doc, stamp, base, bstamp, batch, lock, local, lost, overtaken, damages>>

Changed(i) == {f \in AllField : mem[i][f] # base[i][f]}
(* merged = {**mine, **overlay}                                            *)
Merged(i) ==
  [f \in AllField |-> IF found[i] /\ f \notin Changed(i) THEN disk[i][f] ELSE mem[i][f]]

(* The second-writer detector's warning.                                   *)
Warns(i) == found[i] /\ dstamp[i] # NoStamp /\ dstamp[i] # bstamp[i]

Release(i) ==
  /\ lock' = NoInst
  /\ Goto(i, "idle")
  /\ found' = [found EXCEPT ![i] = FALSE]
  /\ disk' = [disk EXCEPT ![i] = Fresh]
  /\ dstamp' = [dstamp EXCEPT ![i] = NoStamp]

Replace(i) ==
  /\ there' = "doc" /\ doc' = Merged(i) /\ stamp' = Stamp(i)
  /\ lost' = FALSE /\ dirty' = [dirty EXCEPT ![i] = {}]
  /\ overtaken' = (overtaken \cup {k \in Inst : pc[k] # "new"}) \ {i}

(* Variant of Publish: the baseline follows the document, memory does not. *)
Publish_NoAbsorb(i) ==
  /\ pc[i] = "publish"
  /\ Replace(i)
  /\ base' = [base EXCEPT ![i] = Merged(i)]
  /\ bstamp' = [bstamp EXCEPT ![i] = Stamp(i)]
  /\ Release(i)
  /\ UNCHANGED <<procOf, moved, mem, batch, damages>>

(* write_json, then _absorb (which takes nothing if the document does not  *)
(* validate), then the new baseline, which is the instance's own memory.   *)
Publish(i) ==
  /\ pc[i] = "publish"
  /\ Replace(i)
  /\ \E mine \in {Merged(i), mem[i]} :
       /\ mem' = [mem EXCEPT ![i] = mine]
       /\ base' = [base EXCEPT ![i] = mine]
  /\ bstamp' = [bstamp EXCEPT ![i] = Stamp(i)]
  /\ Release(i)
  /\ UNCHANGED <<procOf, moved, batch, damages>>

(* The document has been moved away and not been replaced.                 *)
MidRecovery(i) == pc[i] = "publish" /\ there = "absent" /\ moved

(* The open, the read, the move or the replacement raises OSError.         *)
WriteFails(i) ==
  /\ Critical(i)
  /\ MidRecovery(i) => May("torn_recovery")
  /\ Release(i)
  /\ UNCHANGED <<procOf, file, memory, batch, ghosts>>

---------------------------------------------------------------------------
(* The end of instances and processes; what happens to the document.       *)

Vanish(S) ==
  /\ pc' = [i \in Inst |-> IF i \in S THEN "new" ELSE pc[i]]
  /\ mem' = [i \in Inst |-> IF i \in S THEN Fresh ELSE mem[i]]
  /\ base' = [i \in Inst |-> IF i \in S THEN Fresh ELSE base[i]]
  /\ bstamp' = [i \in Inst |-> IF i \in S THEN NoStamp ELSE bstamp[i]]
  /\ found' = [i \in Inst |-> i \notin S /\ found[i]]
  /\ disk' = [i \in Inst |-> IF i \in S THEN Fresh ELSE disk[i]]
  /\ dstamp' = [i \in Inst |-> IF i \in S THEN NoStamp ELSE dstamp[i]]
  /\ dirty' = [i \in Inst |-> IF i \in S THEN {} ELSE dirty[i]]
  /\ block' = block \ S /\ owed' = owed \ S /\ overtaken' = overtaken \ S

Discard(i) ==
  /\ pc[i] = "idle" /\ i \notin block
  /\ Vanish({i})
  /\ UNCHANGED <<procOf, file, lock, lost, damages>>

(* A hard lock is released with its holder, a soft one stays.              *)
Die(p) ==
  LET mine == {i \in Inst : procOf[i] = p} IN
  /\ \E i \in mine : pc[i] # "new"
  /\ (\E i \in mine : MidRecovery(i)) => May("torn_recovery")
  /\ Vanish(mine)
  /\ \/ lock' = IF \E i \in mine : lock = i /\ Critical(i) THEN NoInst ELSE lock
     \/ May("lock_left") /\ lock' = lock
  /\ UNCHANGED <<procOf, file, lost, damages>>

Corrupt ==
  /\ there = "doc" /\ damages < MaxCorrupt
  /\ there' = "corrupt" /\ lost' = TRUE /\ damages' = damages + 1
  /\ UNCHANGED <<procOf, doc, stamp, moved, memory, batch, pc, lock, local, overtaken, dirty>>

(* The document goes, and what has been moved away beside it.              *)
Wipe ==
  /\ May("wiped") /\ there # "absent"
  /\ there' = "absent" /\ doc' = Fresh /\ stamp' = NoStamp
  /\ moved' = FALSE /\ lost' = TRUE
  /\ UNCHANGED <<procOf, memory, batch, pc, lock, local, overtaken, dirty, damages>>

InCritical(i) == OpenRead(i) \/ Quarantine(i) \/ Publish(i) \/ WriteFails(i)
Write(i) == Acquire(i) \/ TimesOut(i) \/ InCritical(i)

Next ==
  \/ \E i \in Inst : Load(i) \/ Refresh(i) \/ EnterBlock(i) \/ LeaveBlock(i)
                       \/ Write(i) \/ Discard(i)
  \/ \E i \in Inst, f \in Field, v \in 0 .. MaxValue : Assign(i, f, v)
  \/ \E p \in Process : Die(p)
  \/ Corrupt \/ Wipe

Spec == Init /\ [][Next]_vars

(* A writer that waits for the lock gets it or times out, and one that has *)
(* it runs on.                                                             *)
Fairness ==
  \A i \in Inst : WF_vars(Acquire(i) \/ TimesOut(i)) /\ WF_vars(InCritical(i))

FairSpec == Spec /\ Fairness

---------------------------------------------------------------------------
(* Lost-update-free: every execution is one of FieldStore.  A write that   *)
(* returns has changed the fields its instance has set since it            *)
(* synchronised and no others, whatever peers have published meanwhile;    *)
(* one that fails keeps them for the next.                                 *)
State == [i \in Inst |-> CASE pc[i] = "new" -> "gone"
                           [] pc[i] = "idle" -> "idle"
                           [] OTHER -> "writing"]
FS == INSTANCE FieldStore WITH
        Client <- Inst, Field <- AllField, Value <- Nat,
        store <- doc, view <- mem, pending <- dirty, state <- State, intact <- ~lost
FieldStoreSpec == FS!Spec

(* Once a damaged document has been moved away, every document there is    *)
(* carries a recovery record, whoever wrote it.                            *)
RecoveryRecorded == moved /\ there = "doc" => doc[Rec] > 0

(* The second-writer warning is given for a reason: another instance has   *)
(* written the document since this one last synchronised with it, however  *)
(* the instances are spread over processes and nodes.                      *)
DetectorSound ==
  [][\A i \in Inst : pc[i] = "publish" /\ Warns(i) /\ Replace(i) => i \in overtaken]_vars

(* An assignment that waits for the lock returns or raises, even when a    *)
(* dead writer has left the lock behind.                                   *)
EverySetEnds == \A i \in Inst : pc[i] = "wait" ~> pc[i] # "wait"
=============================================================================
