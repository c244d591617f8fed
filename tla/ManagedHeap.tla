----------------------------- MODULE ManagedHeap -----------------------------
(***************************************************************************)
(* What the script heap promises to scripts: a graph of records that only  *)
(* the script changes.  Records appear when the script allocates and go    *)
(* when it can no longer reach them, at a moment it cannot see.            *)
(***************************************************************************)
EXTENDS FiniteSets, Functions

CONSTANTS Obj, Field, Slot, Null

VARIABLES
  heap,   \* the record at each address in use
  root    \* the pointer in each root slot

vars == <<heap, root>>

Empty == [f \in Field |-> Null]

TypeOK ==
  /\ DOMAIN heap \subseteq Obj
  /\ \A o \in DOMAIN heap : heap[o] \in [Field -> Obj \cup {Null}]
  /\ root \in [Slot -> Obj \cup {Null}]

Roots == {root[s] : s \in Slot} \ {Null}
Targets(o) == {heap[o][f] : f \in Field} \ {Null}

(* The least set that holds the roots and is closed under pointers *)
Closed(S) == Roots \subseteq S /\ \A o \in S \cap DOMAIN heap : Targets(o) \subseteq S
Reachable == {o \in Obj : \A S \in SUBSET Obj : Closed(S) => o \in S}

Init ==
  /\ heap = [o \in {} |-> Empty]
  /\ root = [s \in Slot |-> Null]

(* The script sets a root slot, to nothing or to what it can reach. *)
Assign(s, v) ==
  /\ UNCHANGED heap
  /\ root' = [root EXCEPT ![s] = v]
  /\ v \in Reachable \cup {Null}

(* The script writes a field of a record it can reach. *)
Write(o, f, v) ==
  /\ UNCHANGED root
  /\ o \in DOMAIN heap
  /\ heap' = [heap EXCEPT ![o][f] = v]
  /\ {o, v} \subseteq Reachable \cup {Null}

(* The script gets a new record, at an address nothing is at: its pointers  *)
(* are null or, when it wraps another, all to what the script can reach.    *)
New(s, o, v) ==
  /\ o \in Obj \ DOMAIN heap
  /\ heap' = [x \in DOMAIN heap \cup {o} |-> IF x = o THEN [f \in Field |-> v] ELSE heap[x]]
  /\ root' = [root EXCEPT ![s] = o]
  /\ v \in Reachable \cup {Null}

(* Some records that cannot be reached are reclaimed, the others are as they were. *)
Reclaim(S) ==
  /\ UNCHANGED root
  /\ heap' = Restrict(heap, DOMAIN heap \ S)
  /\ S \cap Reachable = {}

Next ==
  \/ \E S \in SUBSET DOMAIN heap : Reclaim(S)
  \/ \E s \in Slot, v \in Obj \cup {Null} : Assign(s, v)
  \/ \E o \in Obj, f \in Field, v \in Obj \cup {Null} : Write(o, f, v)
  \/ \E s \in Slot, o \in Obj, v \in Obj \cup {Null} : New(s, o, v)

Spec == Init /\ [][Next]_vars
==============================================================================
