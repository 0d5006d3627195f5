----------------------------- MODULE FieldStore -----------------------------
(***************************************************************************)
(* What the processing log promises: a document of fields that several     *)
(* clients write.  A client sees values (its view), sets fields, and       *)
(* writes: when a write returns, the fields the client has set since it    *)
(* last synchronised, and no others, have taken its values, and it reads   *)
(* back what it set.  A write that fails changes nothing.  A document that *)
(* was damaged or deleted may be rebuilt by the next write from whatever   *)
(* its client sees.                                                        *)
(***************************************************************************)
CONSTANTS Client, Field, Value

VARIABLES
  store,    \* [Field -> Value]
  view,     \* [Client -> [Field -> Value]]
  pending,  \* [Client -> SUBSET Field]: set and not yet written
  state,    \* [Client -> {"gone", "idle", "writing"}]
  intact    \* FALSE: the store is damaged

vars == <<store, view, pending, state, intact>>

Init ==
  /\ store \in [Field -> Value]
  /\ view = [c \in Client |-> store]
  /\ pending = [c \in Client |-> {}]
  /\ state = [c \in Client |-> "gone"]
  /\ intact = TRUE

OthersKeep(C) ==
  \A c \in Client \ C :
    view'[c] = view[c] /\ pending'[c] = pending[c] /\ state'[c] = state[c]

Keep == UNCHANGED <<store, intact>>

(* Setting a field to what the store holds need not be written.            *)
Set(c, f) ==
  /\ state[c] # "gone" /\ state'[c] \in {state[c], "writing"}
  /\ \A g \in Field \ {f} : view'[c][g] = view[c][g]
  /\ \/ pending'[c] = pending[c] \cup {f}
     \/ pending'[c] = pending[c] \ {f} /\ view'[c][f] = store[f]
  /\ OthersKeep({c}) /\ Keep

Request(c) ==
  /\ state[c] = "idle" /\ state'[c] = "writing"
  /\ UNCHANGED <<view, pending>> /\ OthersKeep({c}) /\ Keep

Publish(c) ==
  /\ state[c] = "writing" /\ state'[c] = "idle"
  /\ intact => \A f \in Field \ pending[c] : store'[f] = store[f]
  /\ \A f \in pending[c] : store'[f] = view[c][f] /\ view'[c][f] = view[c][f]
  /\ pending'[c] = {}
  /\ intact' = TRUE
  /\ OthersKeep({c})

Fail(c) ==
  /\ state[c] = "writing" /\ state'[c] = "idle"
  /\ UNCHANGED <<view, pending>> /\ OthersKeep({c}) /\ Keep

(* A client appears, or synchronises with the store on purpose.            *)
Reload(c) ==
  /\ state[c] # "writing" /\ state'[c] = "idle"
  /\ pending'[c] = {}
  /\ OthersKeep({c}) /\ Keep

Vanish(C) ==
  /\ \A c \in C : state'[c] = "gone" /\ pending'[c] = {}
  /\ OthersKeep(C) /\ Keep

Damage ==
  /\ intact' = FALSE /\ store' \in [Field -> Value]
  /\ UNCHANGED <<view, pending, state>>

Next ==
  \/ \E c \in Client, f \in Field : Set(c, f)
  \/ \E c \in Client : Request(c) \/ Publish(c) \/ Fail(c) \/ Reload(c)
  \/ \E C \in SUBSET Client : Vanish(C)
  \/ Damage

Spec == Init /\ [][Next]_vars
=============================================================================
