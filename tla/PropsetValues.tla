--------------------------- MODULE PropsetValues ---------------------------
(***************************************************************************)
(* What get_propset promises to scripts: every object has its own values   *)
(* of every propset.  They begin with the default, change when the script  *)
(* writes them for this object, and go with the object.                    *)
(***************************************************************************)
CONSTANTS Propset, Value, Default

VARIABLE values     \* for each object there is, its value of each propset

Init == values = [h \in {} |-> [p \in Propset |-> Default]]

New == DOMAIN values' \ DOMAIN values
Gone == DOMAIN values \ DOMAIN values'
Create ==
  \E h \in New :
    values' = [g \in DOMAIN values \cup {h} |->
                 IF g = h THEN [p \in Propset |-> Default] ELSE values[g]]

Retire == \E h \in Gone : values' = [g \in DOMAIN values \ {h} |-> values[g]]

Write == \E h \in DOMAIN values, p \in Propset, v \in Value : values' = [values EXCEPT ![h][p] = v]

(* The values of an object are cleared before the object is gone. *)
Clear == \E h \in DOMAIN values : values' = [values EXCEPT ![h] = [p \in Propset |-> Default]]

Next == Create \/ Retire \/ Write \/ Clear

Spec == Init /\ [][Next]_values
=============================================================================
