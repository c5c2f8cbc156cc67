------------------------------- MODULE KeySet -------------------------------
(***************************************************************************)
(* What a user of the chained hash map of hashtable.cpp relies on: it is a *)
(* set of keys.  An operation is called, takes effect at one instant on    *)
(* that set, and returns.  Nothing here knows of tables, of buckets or of  *)
(* a migration in progress; HashMap.tla is shown to implement this module. *)
(***************************************************************************)
CONSTANT Key

VARIABLES
  keys,     \* the set of keys stored
  phase,    \* where the one caller is: "idle", "called" or "done"
  op,       \* the operation called
  key,      \* its argument
  reply     \* the nodes it handed to its caller

vars == <<keys, phase, op, key, reply>>

Op == {"lookup", "upsert", "pop", "scan", "destroy"}

Init ==
  /\ keys = {}
  /\ phase = "idle"
  /\ op \in Op /\ key \in Key
  /\ reply = {}

Call(o, k) ==
  /\ phase = "idle"
  /\ phase' = "called"
  /\ op' = o /\ key' = k
  /\ UNCHANGED <<keys, reply>>

Lookup  == op = "lookup"  /\ reply' = keys \cap {key} /\ UNCHANGED keys
Upsert  == op = "upsert"  /\ reply' = keys \cap {key}
                          /\ keys' = keys \cup {key}
Pop     == op = "pop"     /\ reply' = keys \cap {key}
                          /\ keys' = keys \ {key}
Scan    == op = "scan"    /\ reply' = keys /\ UNCHANGED keys
Destroy == op = "destroy" /\ keys' = {} /\ reply' = {}

Effect ==
  /\ phase = "called"
  /\ phase' = "done"
  /\ Lookup \/ Upsert \/ Pop \/ Scan \/ Destroy
  /\ UNCHANGED <<op, key>>

Return ==
  /\ phase = "done"
  /\ phase' = "idle"
  /\ UNCHANGED <<keys, op, key, reply>>

Next ==
  \/ \E o \in Op, k \in Key : Call(o, k)
  \/ Effect
  \/ Return

SafeSpec == Init /\ [][Next]_vars

\* A call that was made takes effect and returns.
Spec == SafeSpec /\ WF_vars(Effect) /\ WF_vars(Return)
=============================================================================
