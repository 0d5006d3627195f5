----------------------------- MODULE Migration -----------------------------
(***************************************************************************)
(* version_migration: the layout record of one analysis tree               *)
(* (_version.json), the commands that write it (migrate, baseline, and the *)
(* stamp of a facade), and the migrations that rewrite the tree.           *)
(*                                                                         *)
(* A migrate process finds out the tree's version, from the record or from *)
(* the detection ladder, and takes the migrations up to its goal one by    *)
(* one: it plans the operations of one, executes them, and appends it to   *)
(* the record's history.  Any step may be interleaved with another process *)
(* and a process may die between any two.  A run or a reprocess of the     *)
(* build, once the record lets it in, removes and writes stores too.       *)
(*                                                                         *)
(* Of the migrations, the five that rewrite in more than one step or feed  *)
(* the ladder are modelled, renumbered 1..Last: V0001 (sims renamed),      *)
(* V0003 (flat stores consolidated), V0004 (CF attributes), V0021 (the     *)
(* consolidated store demoted into the experiment store) and V0028 (string *)
(* values of the raw EDA store replaced).                                  *)
(***************************************************************************)
EXTENDS Integers, Sequences

CONSTANTS
  Process,    \* command processes; one that ended or died may start again
  NoProcess,  \* the lock is free
  Sims,       \* the legacy entries of sims/
  Starts,     \* the versions the tree may start at
  Goals,      \* the versions migrate is given as --target
  Restated,   \* the versions baseline is given
  Faults      \* what the environment may do, of FaultKinds

(***************************************************************************)
(*   death      a process dies between two of its steps                    *)
(*   lock_left  the lock is a SoftFileLock, and its holder dies            *)
(*   damage     the record stops parsing; an operator may delete it        *)
(***************************************************************************)
FaultKinds == {"death", "lock_left", "damage"}
May(f) == f \in Faults

Last == 5
Versions == 0..Last
Unknown == -1

ASSUME MigrationAssumption ==
  /\ NoProcess \notin Process
  /\ Starts \subseteq Versions /\ Goals \subseteq Versions /\ Restated \subseteq Versions
  /\ Faults \subseteq FaultKinds

VARIABLES
  record,   \* _version.json: [state, version, history]
  lock,     \* the holder of _version.json.lock
  tree,     \* what the migrations rewrite, see Trees
  pc,       \* [Process -> Pc]
  job,      \* [Process -> Jobs]: what its command is doing
  spoilt    \* history, see Spoils
vars == <<record, lock, tree, pc, job, spoilt>>

Ok(v, h) == [state |-> "ok", version |-> v, history |-> h]
Absent   == [state |-> "absent", version |-> 0, history |-> <<>>]
Torn     == [state |-> "torn", version |-> 0, history |-> <<>>]
Written  == [state: {"ok"}, version: Versions, history: Seq(1..Last)]
Records  == {Absent, Torn} \cup Written
Has      == record.state = "ok"

(* A store is the set of what has been written of it; {} is no store.      *)
Parts == {"root", "kids", "attrs", "conventions", "member", "moved", "params", "current"}

(* Flat stores: V0003 reads three of the names the ladder looks for.       *)
(*   other      none of the three                                          *)
(*   summaries  at least one                                               *)
(*   spent      a reprocess has since removed what they were turned into   *)
Flats == {"none", "other", "summaries", "spent"}
Summaries(t) == t.flat \in {"summaries", "spent"}

(* legacy are the sims/ entries under their old names and skips those of   *)
(* them that V0001 leaves alone: the name is not expected, or is taken.    *)
(* ana is analysis_datatree.zarr, exp is experiment_datatree.zarr, raw the *)
(* raw EDA store and tmp its sibling .v0028tmp.                            *)
Trees == [legacy: SUBSET Sims, skips: SUBSET Sims, flat: Flats,
          ana: SUBSET Parts, exp: SUBSET Parts,
          raw: {"none", "old", "lost", "new"}, tmp: BOOLEAN]

Demoted == {"root", "attrs", "conventions", "member", "moved", "params"}
(* What the producer of the current build writes, under the retired name.  *)
Produced == {"root", "kids", "attrs", "conventions", "current"}

(* The tree as version v of the toolkit writes it, or migrations to v left *)
(* it; run: it has been consolidated by the current build.                 *)
TreeAt(v, skips, flat, raw, run) ==
  [legacy |-> IF v = 0 THEN Sims ELSE skips, skips |-> skips, flat |-> flat,
   ana |-> CASE run /\ v = Last -> Produced
             [] flat = "summaries" /\ v = 2 -> {"root", "kids"}
             [] flat = "summaries" /\ v = 3 -> {"root", "kids", "attrs", "conventions"}
             [] OTHER -> {},
   exp |-> IF flat = "summaries" /\ v >= 4 THEN Demoted ELSE {},
   raw |-> IF ~raw THEN "none" ELSE IF v >= 5 THEN "new" ELSE "old",
   tmp |-> FALSE]

(***************************************************************************)
(* The migrations up to v have been applied to t, completely: but for the  *)
(* entries V0001 skips, every old name is gone; the summaries are in a     *)
(* store, or were until a reprocess; what bears the retired name is what   *)
(* the current build produced, and the experiment store is demoted whole.  *)
(***************************************************************************)
Applied(v, t) ==
  /\ v >= 1 => t.legacy \subseteq t.skips
  /\ v >= 2 => (t.flat = "summaries" => t.ana # {} \/ t.exp # {})
  /\ v >= 3 => (t.ana # {} => {"attrs", "conventions"} \subseteq t.ana)
  /\ v >= 4 => (t.ana # {} => Produced \subseteq t.ana) /\ t.exp \in {{}, Demoted}
  /\ v >= 5 => t.raw \in {"none", "new"}

(* The version an operator who inspects the tree finds.                    *)
IsVersion(v, t) == Applied(v, t) /\ (v < Last => ~Applied(v + 1, t))

Pc == {"idle", "check", "stamp", "write", "writing",   \* write: waits for the lock
       "plan", "exec", "record", "recording",
       "produce"}                                      \* a run that was let in
Ops == {"rename", "datatree", "convention", "unify", "mint", "move", "params",
        "move_dir", "replace", "rmroot", "swap"}
Acts == {"apply", "dry", "fresh", "construction", "baseline"}

(* at is the version reached, ops what remains to be executed, new what a  *)
(* stamp or a baseline has decided to write.                               *)
Jobs == [act: Acts, at: Versions, goal: Versions, ops: Seq(Ops), new: Written]
NoJob == [act |-> "dry", at |-> 0, goal |-> 0, ops |-> <<>>, new |-> Ok(0, <<>>)]

(***************************************************************************)
(*   interrupted  a process died inside an operation that is not resumed   *)
(*   overlap      a migrate applied while another one did, while a run     *)
(*                that the record had let in was at work, or while a       *)
(*                baseline was written                                     *)
(*   misstated    baseline wrote a version that is not the tree's: a wrong *)
(*                one, or one a migrate has overtaken                      *)
(***************************************************************************)
Spoils == {"interrupted", "overlap", "misstated"}

TypeOK ==
  /\ record \in Records
  /\ lock \in Process \cup {NoProcess}
  /\ tree \in Trees
  /\ pc \in [Process -> Pc]
  /\ job \in [Process -> Jobs]
  /\ spoilt \subseteq Spoils

Init ==
  /\ \E v \in Starts, skips \in SUBSET Sims, flat \in Flats \ {"spent"}, raw, run \in BOOLEAN :
       /\ raw => flat = "summaries"
       /\ tree = TreeAt(v, skips, flat, raw, run)
       /\ record \in {Absent, Ok(v, <<>>)}
  /\ lock = NoProcess
  /\ pc = [p \in Process |-> "idle"]
  /\ job = [p \in Process |-> NoJob]
  /\ spoilt = {}

(* Variant of Infer: a unified store is taken to be current.               *)
Infer_Current(t) ==
  IF t.legacy # {} THEN 0
  ELSE IF t.exp # {} THEN Last
  ELSE IF t.ana = {} THEN IF t.flat # "none" THEN 1 ELSE Unknown
  ELSE IF "conventions" \in t.ana THEN Unknown ELSE 2

(***************************************************************************)
(* The detection ladder: a tree without a record.  The last two rungs only *)
(* know a lower bound, or nothing.                                         *)
(***************************************************************************)
Infer(t) ==
  IF t.legacy # {} THEN 0
  ELSE IF t.exp # {} THEN 4
  ELSE IF t.ana = {} THEN IF t.flat # "none" THEN 1 ELSE Unknown
  ELSE IF "conventions" \in t.ana THEN Unknown ELSE 2

(* A record that does not parse raises, whoever reads it.                  *)
Current == IF Has THEN record.version
           ELSE IF record = Absent THEN Infer(tree) ELSE Unknown

Content(t) == t.legacy # {} \/ t.exp # {} \/ t.ana # {} \/ t.flat # "none"

(***************************************************************************)
(* Commands.  A command that has ended, well or raising, leaves nothing.   *)
(***************************************************************************)
Goes(p, l) == pc' = [pc EXCEPT ![p] = l] /\ UNCHANGED job
Takes(p, l, j) == pc' = [pc EXCEPT ![p] = l] /\ job' = [job EXCEPT ![p] = j]
Ends(p) == Takes(p, "idle", NoJob)
Applying(p) == job[p].act = "apply"
Runs(p) == job[p].act = "fresh"
SomeApplies == \E q \in Process : Applying(q)
LetIn(p) == Runs(p) /\ Has /\ record.version = job[p].at
Spoil(r, cond) == spoilt' = IF cond THEN spoilt \cup {r} ELSE spoilt

(* migrate [--apply] [--target goal]; an empty plan ends at once.          *)
Migrate(p, act, goal) ==
  /\ pc[p] = "idle"
  /\ Current # Unknown /\ goal > Current
  /\ Takes(p, IF act = "apply" THEN "check" ELSE "plan",
           [NoJob EXCEPT !.act = act, !.at = Current, !.goal = goal])
  /\ Spoil("overlap", act = "apply" /\ (SomeApplies \/ \E q \in Process : pc[q] = "produce"))
  /\ UNCHANGED <<record, lock, tree>>

(* With no record the inferred version is stamped first.                   *)
Check(p) ==
  /\ pc[p] = "check"
  /\ IF record = Torn THEN Ends(p) ELSE Goes(p, IF Has THEN "plan" ELSE "stamp")
  /\ UNCHANGED <<record, lock, tree, spoilt>>

(* run(), submit_workflow(), reprocess() and static_plots() stamp the      *)
(* build's version; the constructor of a system does, on its directory,    *)
(* which holds none of the artifacts.                                      *)
Facade(p, act) ==
  /\ pc[p] = "idle"
  /\ act = "construction" => ~Content(tree)
  /\ Takes(p, "stamp", [NoJob EXCEPT !.act = act, !.at = Last])
  /\ UNCHANGED <<record, lock, tree, spoilt>>

(* What a command does once the record is as it wants it.                  *)
Stamped(p) ==
  CASE Applying(p) -> Takes(p, "plan", [job[p] EXCEPT !.new = NoJob.new])
    [] Runs(p) -> Takes(p, "produce", NoJob)
    [] OTHER -> Ends(p)

(* Variant of Stamp: content is not looked at.                             *)
Stamp_Blind(p) ==
  /\ pc[p] = "stamp"
  /\ CASE record = Absent ->
            Takes(p, "write", [job[p] EXCEPT !.new = Ok(job[p].at, <<>>)])
       [] Has /\ record.version = job[p].at -> Stamped(p)
       [] OTHER -> Ends(p)
  /\ Spoil("overlap", LetIn(p) /\ SomeApplies)
  /\ UNCHANGED <<record, lock, tree>>

(* stamp_new_target up to its write: outside the lock.                     *)
Stamp(p) ==
  /\ pc[p] = "stamp"
  /\ CASE record = Absent /\ (job[p].act = "fresh" => ~Content(tree)) ->
            Takes(p, "write", [job[p] EXCEPT !.new = Ok(job[p].at, <<>>)])
       [] Has /\ record.version = job[p].at -> Stamped(p)
       [] OTHER -> Ends(p)
  /\ Spoil("overlap", LetIn(p) /\ SomeApplies)
  /\ UNCHANGED <<record, lock, tree>>

(* baseline v [--force].  A lower version than the record's drops the      *)
(* history.                                                                *)
Baseline(p, v, force) ==
  /\ pc[p] = "idle"
  /\ record # Torn
  /\ Has => record.version = v \/ force
  /\ LET j == [NoJob EXCEPT !.act = "baseline", !.at = v]
     IN  IF record = Absent THEN Takes(p, "stamp", j)
         ELSE Takes(p, "write",
                [j EXCEPT !.new = Ok(v, IF v < record.version THEN <<>> ELSE record.history)])
  /\ UNCHANGED <<record, lock, tree, spoilt>>

(***************************************************************************)
(* The lock of the record.                                                 *)
(***************************************************************************)
Acquire(p) ==
  /\ pc[p] \in {"write", "record"}
  /\ lock = NoProcess
  /\ lock' = p
  /\ Goes(p, IF pc[p] = "write" THEN "writing" ELSE "recording")
  /\ UNCHANGED <<record, tree, spoilt>>

TimesOut(p) ==
  /\ pc[p] \in {"write", "record"}
  /\ lock # NoProcess
  /\ Ends(p)
  /\ UNCHANGED <<record, lock, tree, spoilt>>

(* write_version_file: what its caller decided before it had the lock.     *)
Write(p) ==
  /\ pc[p] = "writing"
  /\ record' = job[p].new
  /\ lock' = NoProcess
  /\ Stamped(p)
  /\ spoilt' = spoilt
       \cup {r \in {"misstated"} : job[p].act = "baseline" /\ ~IsVersion(job[p].at, tree)}
       \cup {r \in {"overlap"} : (Runs(p) \/ job[p].act = "baseline") /\ SomeApplies}
  /\ UNCHANGED tree

Advances(p) ==
  IF job[p].at + 1 = job[p].goal THEN Ends(p)
  ELSE Takes(p, "plan", [job[p] EXCEPT !.at = @ + 1])

(* Variant of Record: the version on disk is not compared.                 *)
Record_Unchecked(p) ==
  /\ pc[p] = "recording"
  /\ lock' = NoProcess
  /\ IF Has
     THEN record' = Ok(job[p].at + 1, Append(record.history, job[p].at + 1)) /\ Advances(p)
     ELSE Ends(p) /\ UNCHANGED record
  /\ UNCHANGED <<tree, spoilt>>

(* record_migration: the record is read again under the lock.              *)
Record(p) ==
  /\ pc[p] = "recording"
  /\ lock' = NoProcess
  /\ IF Has /\ record.version = job[p].at
     THEN record' = Ok(job[p].at + 1, Append(record.history, job[p].at + 1)) /\ Advances(p)
     ELSE Ends(p) /\ UNCHANGED record
  /\ UNCHANGED <<tree, spoilt>>

(***************************************************************************)
(* Planning: upgrade() reads the tree.  V0004's also appends the variables' *)
(* attributes to the store itself, dry run or not.                         *)
(***************************************************************************)
PlanOf(v, t) ==
  CASE v = 1 -> <<"rename">>
    [] v = 2 -> IF Summaries(t) /\ t.ana = {} THEN <<"datatree">> ELSE <<>>
    [] v = 3 -> IF t.ana # {} THEN <<"convention">> ELSE <<>>
    [] v = 4 -> IF t.ana # {} THEN <<"unify", "move_dir">> ELSE <<>>
    [] v = 5 -> IF t.raw = "old" THEN <<"replace">> ELSE <<>>

Backfilled(v, t) == IF v = 3 /\ t.ana # {} THEN [t EXCEPT !.ana = @ \cup {"attrs"}] ELSE t

Plan(p) ==
  LET v == job[p].at + 1
  IN  /\ pc[p] = "plan"
      /\ tree' = Backfilled(v, tree)
      /\ IF Applying(p) THEN Takes(p, "exec", [job[p] EXCEPT !.ops = PlanOf(v, tree)])
         ELSE Advances(p)
      /\ UNCHANGED <<record, lock, spoilt>>

(* upgrade() raises: two entries of one name, no configuration to take the *)
(* expected names from, a store that cannot be read.                       *)
PlanFails(p) == pc[p] = "plan" /\ Ends(p) /\ UNCHANGED <<record, lock, tree, spoilt>>

(***************************************************************************)
(* Execution: ctx.execute() takes the planned operations in order.  They   *)
(* hold no lock, each looks at the tree again, and one that raises ends    *)
(* the command.  The recorded operations are split where a death between   *)
(* two changes to the tree would show.                                     *)
(***************************************************************************)
Doing(p, op) == pc[p] = "exec" /\ job[p].ops # <<>> /\ Head(job[p].ops) = op
Rest(p) == Tail(job[p].ops)
Does(p, t, ops) ==
  /\ tree' = t
  /\ Takes(p, "exec", [job[p] EXCEPT !.ops = ops])
  /\ UNCHANGED <<record, lock, spoilt>>
Raises(p) == Ends(p) /\ UNCHANGED <<record, lock, tree, spoilt>>

(* One entry of sims/ after the other, but those that are skipped.         *)
RenameDir(p) ==
  /\ Doing(p, "rename")
  /\ IF tree.legacy \subseteq tree.skips THEN Does(p, tree, Rest(p))
     ELSE \E s \in tree.legacy \ tree.skips :
            Does(p, [tree EXCEPT !.legacy = @ \ {s}], job[p].ops)

(* The flat stores remain; the new one is published whole, by a rename.    *)
FlatToDatatree(p) ==
  /\ Doing(p, "datatree")
  /\ Does(p, IF tree.ana # {} THEN tree ELSE [tree EXCEPT !.ana = {"root", "kids"}], Rest(p))

(* zarr.open creates a store that is gone.                                 *)
SetConvention(p) ==
  /\ Doing(p, "convention")
  /\ Does(p, [tree EXCEPT !.ana = @ \cup {"root", "conventions"}], Rest(p))

(* zarr_unify_to_experiment_tree: a store whose member group exists is     *)
(* taken to be demoted.                                                    *)
Unify(p) ==
  /\ Doing(p, "unify")
  /\ Does(p, tree, IF "kids" \in tree.ana /\ "member" \notin tree.ana
                   THEN <<"mint", "move", "params">> \o Rest(p) ELSE Rest(p))

(* open_group(dest, mode="w"): an existing group is emptied.  The store no *)
(* longer has the shape the producer gives it.                             *)
Mint(p) ==
  /\ Doing(p, "mint")
  /\ Does(p, [tree EXCEPT !.ana = (@ \ {"moved", "current"}) \cup {"member"}], Rest(p))

MoveGroups(p) ==
  /\ Doing(p, "move")
  /\ IF "kids" \in tree.ana
     THEN Does(p, [tree EXCEPT !.ana = (@ \ {"kids"}) \cup {"member", "moved"}], Rest(p))
     ELSE Raises(p)

AppendParameters(p) ==
  /\ Doing(p, "params")
  /\ Does(p, [tree EXCEPT !.ana = @ \cup {"root", "params"}], Rest(p))

MoveDir(p) ==
  /\ Doing(p, "move_dir")
  /\ IF tree.ana # {} /\ tree.exp # {} THEN Raises(p)
     ELSE Does(p, IF tree.ana = {} THEN tree
                  ELSE [tree EXCEPT !.exp = tree.ana, !.ana = {}], Rest(p))

(* zarr_replace_string_values: a copy is written beside the store, the     *)
(* store removed, the copy renamed.                                        *)
ReplaceValues(p) ==
  /\ Doing(p, "replace")
  /\ CASE tree.raw = "old" -> Does(p, [tree EXCEPT !.tmp = TRUE], <<"rmroot", "swap">> \o Rest(p))
       [] tree.raw = "new" -> Does(p, tree, Rest(p))
       [] OTHER -> Raises(p)

RemoveStore(p) ==
  /\ Doing(p, "rmroot")
  /\ IF tree.raw \in {"old", "new"}
     THEN Does(p, [tree EXCEPT !.raw = "lost"], Rest(p)) ELSE Raises(p)

SwapStore(p) ==
  /\ Doing(p, "swap")
  /\ IF tree.tmp /\ tree.raw = "lost"
     THEN Does(p, [tree EXCEPT !.raw = "new", !.tmp = FALSE], Rest(p)) ELSE Raises(p)

Executed(p) ==
  /\ pc[p] = "exec" /\ job[p].ops = <<>>
  /\ Goes(p, "record")
  /\ UNCHANGED <<record, lock, tree, spoilt>>

Execute(p) ==
  \/ RenameDir(p) \/ FlatToDatatree(p) \/ SetConvention(p) \/ Unify(p) \/ Mint(p)
  \/ MoveGroups(p) \/ AppendParameters(p) \/ MoveDir(p)
  \/ ReplaceValues(p) \/ RemoveStore(p) \/ SwapStore(p) \/ Executed(p)

(***************************************************************************)
(* A run or a reprocess that the record has let in.                        *)
(***************************************************************************)
Produces(p, t) ==
  /\ pc[p] = "produce"
  /\ tree' = t
  /\ UNCHANGED <<record, lock, spoilt>>

(* The delete rule of a reprocess, one store after the other.              *)
ClearStores(p) ==
  LET flat == IF tree.flat = "summaries" THEN "spent" ELSE tree.flat IN
  /\ tree.exp # {} \/ tree.ana # {}
  /\ Produces(p, IF tree.exp # {} THEN [tree EXCEPT !.exp = {}, !.flat = flat]
                                  ELSE [tree EXCEPT !.ana = {}, !.flat = flat])
  /\ UNCHANGED <<pc, job>>

(* consolidate_to_datatree publishes under the retired name.               *)
Consolidate(p) == Produces(p, [tree EXCEPT !.ana = Produced]) /\ Ends(p)

(* static_plots() and failures.                                            *)
ProducesNothing(p) ==
  pc[p] = "produce" /\ Ends(p) /\ UNCHANGED <<record, lock, tree, spoilt>>

(***************************************************************************)
(* The environment.                                                        *)
(***************************************************************************)
MidOperation(p) ==
  pc[p] = "exec" /\ job[p].ops # <<>> /\ Head(job[p].ops) \in {"move", "params", "swap"}

Die(p) ==
  /\ May("death") /\ pc[p] # "idle"
  /\ Ends(p)
  /\ \/ lock' = IF lock = p THEN NoProcess ELSE lock
     \/ May("lock_left") /\ UNCHANGED lock
  /\ Spoil("interrupted", MidOperation(p))
  /\ UNCHANGED <<record, tree>>

Damage ==
  /\ May("damage") /\ Has
  /\ record' = Torn
  /\ UNCHANGED <<lock, tree, pc, job, spoilt>>

Discard ==
  /\ May("damage") /\ record = Torn
  /\ record' = Absent
  /\ UNCHANGED <<lock, tree, pc, job, spoilt>>

Next ==
  \/ \E p \in Process :
       \/ \E act \in {"apply", "dry"}, goal \in Goals : Migrate(p, act, goal)
       \/ \E act \in {"fresh", "construction"} : Facade(p, act)
       \/ \E v \in Restated, force \in BOOLEAN : Baseline(p, v, force)
       \/ Check(p) \/ Stamp(p) \/ Acquire(p) \/ TimesOut(p) \/ Write(p) \/ Record(p)
       \/ Plan(p) \/ PlanFails(p) \/ Execute(p) \/ Die(p)
       \/ ClearStores(p) \/ Consolidate(p) \/ ProducesNothing(p)
  \/ Damage \/ Discard

Spec == Init /\ [][Next]_vars

(***************************************************************************)
(* Properties.                                                             *)
(***************************************************************************)
(* Unless spoilt, a tree whose record says v has been through every        *)
(* migration up to v, completely: whichever goals were set, wherever a     *)
(* process died, whatever was skipped, produced or removed meanwhile, and  *)
(* whichever stamp was decided on a record that is no longer there.        *)
Truthful == Has => Applied(record.version, tree)
RecordTruthful == spoilt = {} => Truthful

(* The ladder never overstates: what it infers has been applied, at every  *)
(* point at which a record may be lost.                                    *)
LadderSound == spoilt = {} /\ Infer(tree) # Unknown => Applied(Infer(tree), tree)

(* The history is a strictly increasing list of migrations that ends at or *)
(* below the recorded version, whatever runs, dies and races.              *)
Chain(r) ==
  /\ \A i \in 1..Len(r.history) : r.history[i] <= r.version
  /\ \A i, j \in 1..Len(r.history) : i < j => r.history[i] < r.history[j]
HistoryIsChain == Chain(record)

(* Refuted.  A migrate that died is run again and completes what it left:  *)
(* every operation is idempotent.                                          *)
RerunCompletes == spoilt \subseteq {"interrupted"} => Truthful
=============================================================================
