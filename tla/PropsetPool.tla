---------------------------- MODULE PropsetPool ----------------------------
(***************************************************************************)
(* The propsets of objects: a pool for each propset type with one row for  *)
(* each object id, and a cache of the rows used last.  Scripts get a       *)
(* reference to the row of an object and read and write its fields through *)
(* it.  Objects come and go as ObjectManager has it: ids are used again    *)
(* with another version, and scripts run between the destroy callback,     *)
(* which frees the rows of an object, and the end of the object.           *)
(***************************************************************************)
EXTENDS Integers, FiniteSets

CONSTANTS
  Propset,      \* the propset types
  For(_),       \* the object type a propset is for, or "any"
  Type,         \* the types of object that are used
  Value,        \* the values of the fields of a row
  Default,      \* the value of a new row
  Line(_, _),   \* propset_cache_index: the cache line of a propset and an object id
  None,         \* an empty cache line, a row that is not alive
  KeepRefs,     \* whether scripts use a reference after the end of its object
  MaxId,        \* bound: ids of objects
  MaxVersion    \* bound: versions of an id

ASSUME PoolAssumption ==
  /\ Default \in Value
  /\ MaxId \in Nat /\ MaxVersion \in Nat
  /\ KeepRefs \in BOOLEAN
  /\ \A p \in Propset, i \in 0 .. MaxId : Line(p, i) \in Nat

VARIABLES
  live,         \* the handles of the objects there are
  dying,        \* those whose destroy callback has run
  version,      \* for each array the version of each id
  rows,         \* for each propset and id the owner and value of the row, or None
  cache,        \* for each line a propset, an id and a version, or None
  refs          \* the references scripts have: a propset and the object it was got for

vars == <<live, dying, version, rows, cache, refs>>

Array == {"object", "player"}
ArrayOf(type) == IF type = "player" THEN "player" ELSE "object"
Id == 0 .. MaxId
Handle == [type : Type, id : Id, version : 0 .. MaxVersion]
Row == [owner : Handle, value : Value]
Key == [propset : Propset, id : Id, version : 0 .. MaxVersion]
ASSUME NoneAssumption == None \notin Row \cup Key
Lines == {Line(p, i) : p \in Propset, i \in Id}

Alive(p, i) == rows[p][i] # None

(* Mutant of Accepts: any object gets any propset. *)
AcceptsAll(p, type) == TRUE

(* propset_accepts_object_type *)
Accepts(p, type) == For(p) \in {"any", type} \/ (For(p) = "creature" /\ type = "player")

(***************************************************************************)
(* Objects                                                                 *)
(***************************************************************************)
Make ==
  /\ \E type \in Type, i \in Id :
       LET a == ArrayOf(type)
       IN  /\ \A h \in live : ~(h.id = i /\ ArrayOf(h.type) = a)
           /\ version[a][i] <= MaxVersion
           /\ live' = live \cup {[type |-> type, id |-> i, version |-> version[a][i]]}
  /\ UNCHANGED <<dying, version, rows, cache, refs>>

(* free_object_propsets: the cache forgets the id, the rows of h are freed. *)
FreeRows(h) ==
  /\ cache' = [l \in Lines |-> IF cache[l] # None /\ cache[l].id = h.id THEN None ELSE cache[l]]
  /\ rows' = [p \in Propset |-> [i \in Id |->
                IF i = h.id /\ Alive(p, i) /\ rows[p][i].owner = h THEN None ELSE rows[p][i]]]

(* ObjectManager::destroy up to the destroy callback, which is the last *)
(* time that anybody frees the rows.                                     *)
DestroyCallback ==
  /\ \E h \in live : FreeRows(h) /\ dying' = dying \cup {h}
  /\ UNCHANGED <<live, version, refs>>

(* ObjectArray::destroy *)
Release ==
  /\ \E h \in dying :
       /\ live' = live \ {h}
       /\ dying' = dying \ {h}
       /\ version' = [version EXCEPT ![ArrayOf(h.type)][h.id] = @ + 1]
       /\ refs' = IF KeepRefs THEN refs ELSE {r \in refs : r[2] # h}
  /\ UNCHANGED <<rows, cache>>

(***************************************************************************)
(* Scripts                                                                 *)
(***************************************************************************)
(* Mutant of Hit: the version is not compared. *)
HitAnyVersion(p, h) ==
  /\ cache[Line(p, h.id)] # None
  /\ cache[Line(p, h.id)].propset = p /\ cache[Line(p, h.id)].id = h.id

(* propset_cache_hit *)
Hit(p, h) == cache[Line(p, h.id)] = [propset |-> p, id |-> h.id, version |-> h.version]

Cached(p, h) == [cache EXCEPT ![Line(p, h.id)] = [propset |-> p, id |-> h.id, version |-> h.version]]

(* Mutant of Owned: a row that is alive is taken as it is. *)
OwnedAlive(p, h) == Alive(p, h.id)

Owned(p, h) == Alive(p, h.id) /\ rows[p][h.id].owner = h

(* get_or_create: what the cache has is not looked at again. *)
FromCache(p, h) ==
  /\ Hit(p, h) /\ Alive(p, h.id)
  /\ UNCHANGED <<rows, cache>>

(* The row of another object is taken over. *)
FromPool(p, h) ==
  /\ ~(Hit(p, h) /\ Alive(p, h.id))
  /\ Accepts(p, h.type)
  /\ cache' = Cached(p, h)
  /\ rows' = IF Owned(p, h) THEN rows
             ELSE [rows EXCEPT ![p][h.id] = [owner |-> h, value |-> Default]]

GetOrCreate ==
  /\ \E p \in Propset, h \in live :
       /\ FromCache(p, h) \/ FromPool(p, h)
       /\ refs' = refs \cup {<<p, h>>}
  /\ UNCHANGED <<live, dying, version>>

Find ==
  /\ \E p \in Propset, h \in live :
       /\ Owned(p, h)
       /\ Hit(p, h) \/ Accepts(p, h.type)
       /\ cache' = Cached(p, h)
       /\ refs' = refs \cup {<<p, h>>}
  /\ UNCHANGED <<live, dying, version, rows>>

(* write_field: a row that is not alive is a dangling reference. *)
WriteField ==
  /\ \E r \in refs, v \in Value :
       /\ Alive(r[1], r[2].id)
       /\ rows' = [rows EXCEPT ![r[1]][r[2].id].value = v]
  /\ UNCHANGED <<live, dying, version, cache, refs>>

Init ==
  /\ live = {}
  /\ dying = {}
  /\ version = [a \in Array |-> [i \in Id |-> 0]]
  /\ rows = [p \in Propset |-> [i \in Id |-> None]]
  /\ cache = [l \in Lines |-> None]
  /\ refs = {}

Next == Make \/ DestroyCallback \/ Release \/ GetOrCreate \/ Find \/ WriteField

Spec == Init /\ [][Next]_vars

(***************************************************************************)
(* Properties                                                              *)
(***************************************************************************)
(* Every row is at the id of its owner, and no object has a row of a propset *)
(* for another type: the cache, which does not look at types, answers only  *)
(* for objects that were accepted before.                                   *)
TypeOK ==
  /\ live \subseteq Handle /\ dying \subseteq live
  /\ version \in [Array -> [Id -> 0 .. MaxVersion + 1]]
  /\ rows \in [Propset -> [Id -> Row \cup {None}]]
  /\ cache \in [Lines -> Key \cup {None}]
  /\ refs \subseteq Propset \X Handle
  /\ \A p \in Propset, i \in Id : Alive(p, i) =>
       /\ rows[p][i].owner.id = i
       /\ For(p) \in {"any", rows[p][i].owner.type} \/ <<For(p), rows[p][i].owner.type>> = <<"creature", "player">>

(* Where the cache answers for an object, the row is the object's own: no   *)
(* version used before, no row taken over since.                           *)
CacheOwns ==
  \A p \in Propset, h \in live : Hit(p, h) /\ Alive(p, h.id) => rows[p][h.id].owner = h

(* A reference to a row that is alive is to the row of the object it was   *)
(* got for: docs/conventions.md has the rows keyed by handle and propset   *)
(* type, and read_field and write_field refuse a dangling reference.       *)
RefsOwn ==
  \A r \in refs : Alive(r[1], r[2].id) => rows[r[1]][r[2].id].owner = r[2]

(* Objects have values of their own, whatever happens to rows and cache. *)
ValuesOf(h) == [p \in Propset |-> IF Owned(p, h) THEN rows[p][h.id].value ELSE Default]
Values == [h \in live |-> ValuesOf(h)]
Abstract == INSTANCE PropsetValues WITH values <- Values
ImplementsValues == Abstract!Spec
=============================================================================
