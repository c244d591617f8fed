--------------------------- MODULE ObjectRegistry ---------------------------
(***************************************************************************)
(* What the object manager promises to the holders of handles.  A handle   *)
(* is issued once: when its object is gone it never names another one.  An *)
(* object can be found by a tag from when it is published until it is      *)
(* withdrawn, and it is withdrawn before it is gone.                       *)
(***************************************************************************)
CONSTANT Tag

VARIABLES
  issued,     \* the handles that have been given to objects
  live,       \* those whose objects exist
  published   \* for each tag the objects that are found by it

vars == <<issued, live, published>>

Init ==
  /\ issued = {}
  /\ live = {}
  /\ published = [t \in Tag |-> {}]

Issue ==
  /\ \E h \in live' \ live : h \notin issued /\ live' = live \cup {h} /\ issued' = issued \cup {h}
  /\ UNCHANGED published

Retire ==
  /\ \E h \in live \ live' : live' = live \ {h} /\ \A t \in Tag : h \notin published[t]
  /\ UNCHANGED <<issued, published>>

Publish(t) ==
  /\ \E h \in published'[t] \ published[t] :
       /\ h \in live /\ \A u \in Tag : h \notin published[u]
       /\ published' = [published EXCEPT ![t] = @ \cup {h}]
  /\ UNCHANGED <<issued, live>>

Withdraw(t) ==
  /\ \E h \in published[t] \ published'[t] : published' = [published EXCEPT ![t] = @ \ {h}]
  /\ UNCHANGED <<issued, live>>

Next == Issue \/ Retire \/ \E t \in Tag : Publish(t) \/ Withdraw(t)

Spec == Init /\ [][Next]_vars
=============================================================================
