------------------------- MODULE PropsetPool_proofs -------------------------
(***************************************************************************)
(* Theorems about PropsetPool, for any number of propsets, objects and     *)
(* versions, any values, and any cache whose lines are chosen by propset   *)
(* and id.                                                                 *)
(***************************************************************************)
EXTENDS PropsetPool, TLAPS

(* No player is among the objects, and no script uses a reference after the *)
(* end of its object: without either the pool does not keep objects apart.  *)
Disciplined == "player" \notin Type /\ ~KeepRefs

(* Objects have the current version of their id, which no two share. *)
Versions ==
  /\ \A h \in live : h.version = version[ArrayOf(h.type)][h.id]
  /\ \A g, h \in live : ArrayOf(g.type) = ArrayOf(h.type) /\ g.id = h.id => g = h

(* The owner of a row lives, or its version is used up. *)
OwnersIssued ==
  \A p \in Propset, i \in Id : Alive(p, i) =>
    \/ rows[p][i].owner \in live
    \/ rows[p][i].owner.version < version[ArrayOf(rows[p][i].owner.type)][rows[p][i].owner.id]

(* What the cache has of a row has the version of the owner of the row. *)
CacheFresh ==
  \A p \in Propset, i \in Id, c \in Key :
    c = cache[Line(p, i)] /\ Alive(p, i) /\ c.propset = p /\ c.id = i => c.version = rows[p][i].owner.version

RefsLive == \A r \in refs : r[2] \in live

(* TypeOK alone is not inductive: that no version is counted up twice needs *)
(* Versions.  CacheOwns needs to know which versions are used up, and that  *)
(* every change of the owner of a row goes into the cache.                  *)
IInv == TypeOK /\ Versions /\ OwnersIssued /\ CacheFresh
Kept == RefsLive /\ RefsOwn

LEMMA Initially == Init => IInv /\ Kept
<1> SUFFICES ASSUME Init PROVE IInv /\ Kept
  OBVIOUS
<1> USE DEF Init, Alive
<1>1. TypeOK
  BY PoolAssumption DEF TypeOK, Handle, Lines, Array
<1>2. Versions /\ OwnersIssued /\ RefsLive /\ RefsOwn
  BY DEF Versions, OwnersIssued, RefsLive, RefsOwn
<1>3. CacheFresh
  BY DEF CacheFresh
<1> QED
  BY <1>1, <1>2, <1>3 DEF IInv, Kept

(* The cache is right where only one array of objects is in use. *)
LEMMA CacheRight ==
  ASSUME IInv, "player" \notin Type
  PROVE  CacheOwns
<1> SUFFICES ASSUME NEW p \in Propset, NEW h \in live, Hit(p, h), Alive(p, h.id)
             PROVE  rows[p][h.id].owner = h
  BY DEF CacheOwns
<1> DEFINE g == rows[p][h.id].owner
           c == [propset |-> p, id |-> h.id, version |-> h.version]
<1>1. h \in Handle /\ h.id \in Id
  BY DEF IInv, TypeOK, Handle
<1>2. rows[p][h.id] \in Row /\ g \in Handle /\ g.id = h.id
  BY <1>1 DEF IInv, TypeOK, Alive, Row
<1>3. c \in Key /\ c = cache[Line(p, h.id)]
  BY <1>1 DEF Hit, Key, Handle
<1>4. g.version = h.version
  BY <1>1, <1>3 DEF IInv, CacheFresh
<1>5. ArrayOf(g.type) = "object" /\ ArrayOf(h.type) = "object"
  BY <1>1, <1>2 DEF ArrayOf, Handle
<1>6. ~(g.version < version[ArrayOf(g.type)][g.id])
  BY <1>1, <1>2, <1>4, <1>5, SMTT(40) DEF IInv, Versions, Handle, Id
<1>7. g \in live
  BY <1>1, <1>6 DEF IInv, OwnersIssued
<1> QED
  BY <1>2, <1>5, <1>7 DEF IInv, Versions

LEMMA MakeKeeps ==
  ASSUME IInv, Make
  PROVE  IInv' /\ (Kept => Kept')
<1> PICK type \in Type, i \in Id :
      LET a == ArrayOf(type)
      IN  /\ \A h \in live : ~(h.id = i /\ ArrayOf(h.type) = a)
          /\ version[a][i] <= MaxVersion
          /\ live' = live \cup {[type |-> type, id |-> i, version |-> version[a][i]]}
  BY DEF Make
<1> DEFINE h == [type |-> type, id |-> i, version |-> version[ArrayOf(type)][i]]
<1>1. live' = live \cup {h} /\ UNCHANGED <<dying, version, rows, cache, refs>>
  BY DEF Make
<1>2. version[ArrayOf(type)][i] \in 0 .. MaxVersion
  BY PoolAssumption DEF IInv, TypeOK, ArrayOf, Array
<1>3. h \in Handle
  BY <1>2 DEF Handle
<1>4. TypeOK'
  BY <1>1, <1>3 DEF IInv, TypeOK, Alive
<1>5. Versions'
  BY <1>1 DEF IInv, Versions
<1>6. OwnersIssued' /\ CacheFresh'
  BY <1>1 DEF IInv, OwnersIssued, CacheFresh, Alive
<1>7. Kept => Kept'
  BY <1>1 DEF Kept, RefsLive, RefsOwn, Alive
<1> QED
  BY <1>4, <1>5, <1>6, <1>7 DEF IInv

(* Freeing rows only takes away. *)
LEMMA FreeKeeps ==
  ASSUME IInv, NEW h \in live, FreeRows(h), UNCHANGED <<live, version, refs>>, dying' \subseteq live
  PROVE  IInv' /\ (Kept => Kept')
<1>1. \A p \in Propset, i \in Id : rows'[p][i] \in {rows[p][i], None}
  BY DEF FreeRows
<1>2. rows' \in [Propset -> [Id -> Row \cup {None}]]
  BY <1>1 DEF FreeRows, IInv, TypeOK
<1>3. \A l \in Lines : cache'[l] \in {cache[l], None}
  BY DEF FreeRows
<1>4. cache' \in [Lines -> Key \cup {None}]
  BY DEF FreeRows, IInv, TypeOK
<1>5. \A p \in Propset, i \in Id : Alive(p, i)' => Alive(p, i) /\ rows'[p][i] = rows[p][i]
  BY <1>1 DEF Alive
<1>6. TypeOK'
  BY <1>2, <1>4, <1>5 DEF IInv, TypeOK
<1>7. Versions'
  BY DEF IInv, Versions
<1>8. OwnersIssued'
  BY <1>5 DEF IInv, OwnersIssued
<1>9. CacheFresh'
  <2>1. \A p \in Propset, i \in Id : Line(p, i) \in Lines
    BY DEF Lines
  <2> QED
    BY <1>3, <1>5, <2>1, NoneAssumption DEF IInv, CacheFresh
<1>10. ASSUME Kept PROVE Kept'
  <2>1. RefsLive'
    BY <1>10 DEF Kept, RefsLive
  <2>2. \A r \in refs : r[1] \in Propset /\ r[2].id \in Id
    BY DEF IInv, TypeOK, Handle
  <2>3. RefsOwn'
    BY <1>5, <1>10, <2>2 DEF Kept, RefsOwn
  <2> QED
    BY <2>1, <2>3 DEF Kept
<1> QED
  BY <1>6, <1>7, <1>8, <1>9, <1>10 DEF IInv

LEMMA ReleaseKeeps ==
  ASSUME IInv, Release
  PROVE  IInv' /\ (Kept /\ ~KeepRefs => Kept')
<1> PICK h \in dying :
       /\ live' = live \ {h}
       /\ dying' = dying \ {h}
       /\ version' = [version EXCEPT ![ArrayOf(h.type)][h.id] = @ + 1]
       /\ refs' = IF KeepRefs THEN refs ELSE {r \in refs : r[2] # h}
  BY DEF Release
<1> USE DEF IInv
<1>1. h \in live /\ h \in Handle /\ h.id \in Id /\ ArrayOf(h.type) \in Array
  BY DEF TypeOK, Handle, ArrayOf, Array
<1>2. UNCHANGED <<rows, cache>>
  BY DEF Release
<1>3. version[ArrayOf(h.type)][h.id] = h.version /\ h.version \in 0 .. MaxVersion
  BY <1>1 DEF Versions, Handle
<1>4. version' \in [Array -> [Id -> 0 .. MaxVersion + 1]]
  BY <1>1, <1>3, PoolAssumption DEF TypeOK
<1>5. \A a \in Array, i \in Id :
        /\ version'[a][i] >= version[a][i]
        /\ <<a, i>> # <<ArrayOf(h.type), h.id>> => version'[a][i] = version[a][i]
        /\ <<a, i>> = <<ArrayOf(h.type), h.id>> => version'[a][i] = h.version + 1
  BY <1>1, <1>3, PoolAssumption DEF TypeOK
<1>6. TypeOK'
  BY <1>2, <1>4 DEF TypeOK, Alive
<1>7. Versions'
  <2>1. \A g \in live : g.id \in Id /\ ArrayOf(g.type) \in Array
    BY DEF TypeOK, Handle, ArrayOf, Array
  <2> QED
    BY <1>1, <1>5, <2>1 DEF Versions
<1>8. OwnersIssued'
  <2> SUFFICES ASSUME NEW p \in Propset, NEW i \in Id, Alive(p, i), rows[p][i].owner \notin live'
               PROVE  rows[p][i].owner.version
                        < version'[ArrayOf(rows[p][i].owner.type)][rows[p][i].owner.id]
    BY <1>2 DEF OwnersIssued, Alive
  <2> DEFINE g == rows[p][i].owner
  <2>1. g \in Handle /\ g.id \in Id /\ ArrayOf(g.type) \in Array /\ g.version \in 0 .. MaxVersion
    BY DEF TypeOK, Alive, Row, Handle, ArrayOf, Array
  <2>2. CASE g = h
    BY <1>1, <1>3, <1>5, <2>1, <2>2
  <2>3. CASE g # h
    <3>1. g.version < version[ArrayOf(g.type)][g.id]
      BY <2>3 DEF OwnersIssued
    <3> QED
      BY <1>4, <1>5, <2>1, <3>1, PoolAssumption DEF TypeOK
  <2> QED
    BY <2>2, <2>3
<1>9. CacheFresh'
  BY <1>2 DEF CacheFresh, Alive
<1>10. Kept /\ ~KeepRefs => Kept'
  BY <1>2 DEF Kept, RefsLive, RefsOwn, Alive
<1> QED
  BY <1>6, <1>7, <1>8, <1>9, <1>10

(* What the pool does for a get or a find that the cache does not answer: *)
(* the row is the one h has, or becomes its row, and the cache has it.     *)
LEMMA TakeKeeps ==
  ASSUME IInv, NEW p \in Propset, NEW h \in live, cache' = Cached(p, h), UNCHANGED <<live, dying, version>>,
         refs' = refs \cup {<<p, h>>},
         \/ Owned(p, h) /\ rows' = rows
         \/ Accepts(p, h.type) /\ rows' = [rows EXCEPT ![p][h.id] = [owner |-> h, value |-> Default]]
  PROVE  /\ IInv'
         /\ Kept /\ "player" \notin Type => Kept'
<1> DEFINE k == [propset |-> p, id |-> h.id, version |-> h.version]
<1> USE DEF IInv
<1>1. h \in Handle /\ h.id \in Id
  BY DEF TypeOK, Handle
<1>2. k \in Key /\ Line(p, h.id) \in Lines
  BY <1>1 DEF Key, Handle, Lines
<1>3. cache' = [cache EXCEPT ![Line(p, h.id)] = k] /\ cache \in [Lines -> Key \cup {None}]
  BY DEF Cached, TypeOK
<1>4. [owner |-> h, value |-> Default] \in Row
  BY <1>1, PoolAssumption DEF Row
<1>5. rows' \in [Propset -> [Id -> Row \cup {None}]]
  BY <1>1, <1>4 DEF TypeOK
<1>6. /\ Alive(p, h.id)' /\ rows'[p][h.id].owner = h
      /\ \A q \in Propset, i \in Id : <<q, i>> # <<p, h.id>> => rows'[q][i] = rows[q][i]
  BY <1>1, <1>4, NoneAssumption DEF TypeOK, Owned, Alive
<1>7. TypeOK'
  <2>1. \A q \in Propset, i \in Id : Alive(q, i)' =>
          /\ rows'[q][i].owner.id = i
          /\ \/ For(q) \in {"any", rows'[q][i].owner.type}
             \/ <<For(q), rows'[q][i].owner.type>> = <<"creature", "player">>
    <3> SUFFICES ASSUME NEW q \in Propset, NEW i \in Id, Alive(q, i)'
                 PROVE  /\ rows'[q][i].owner.id = i
                        /\ \/ For(q) \in {"any", rows'[q][i].owner.type}
                           \/ <<For(q), rows'[q][i].owner.type>> = <<"creature", "player">>
      OBVIOUS
    <3>1. CASE <<q, i>> # <<p, h.id>>
      BY <1>6, <3>1 DEF TypeOK, Alive
    <3>2. CASE <<q, i>> = <<p, h.id>>
      BY <1>1, <1>6, <3>2 DEF TypeOK, Accepts, Owned
    <3> QED
      BY <3>1, <3>2
  <2>2. cache' \in [Lines -> Key \cup {None}]
    BY <1>2, <1>3
  <2>3. refs' \subseteq Propset \X Handle
    BY <1>1 DEF TypeOK
  <2> QED
    BY <1>5, <2>1, <2>2, <2>3 DEF TypeOK
<1>8. Versions'
  BY DEF Versions
<1>9. OwnersIssued'
  BY <1>6 DEF OwnersIssued, Alive
<1>10. CacheFresh'
  <2> SUFFICES ASSUME NEW q \in Propset, NEW i \in Id, NEW c \in Key,
                      c = cache'[Line(q, i)], Alive(q, i)', c.propset = q, c.id = i
               PROVE  c.version = rows'[q][i].owner.version
    BY DEF CacheFresh
  <2>1. CASE <<q, i>> = <<p, h.id>>
    BY <1>2, <1>3, <1>6, <2>1
  <2>2. CASE <<q, i>> # <<p, h.id>>
    <3>1. c # k
      BY <2>2
    <3>2. Line(q, i) \in Lines
      BY DEF Lines
    <3>3. c = cache[Line(q, i)]
      BY <1>2, <1>3, <3>1, <3>2
    <3> QED
      BY <1>6, <2>2, <3>3 DEF CacheFresh, Alive
  <2> QED
    BY <2>1, <2>2
<1>11. ASSUME Kept, "player" \notin Type PROVE Kept'
  <2>1. RefsLive'
    BY <1>11 DEF Kept, RefsLive
  <2>2. ASSUME NEW r \in refs', Alive(r[1], r[2].id)' PROVE rows'[r[1]][r[2].id].owner = r[2]
    <3>1. r[1] \in Propset /\ r[2] \in live /\ r[2].id \in Id
      BY <1>7, <2>1, <2>2 DEF TypeOK, RefsLive, Handle
    <3>2. CASE <<r[1], r[2].id>> # <<p, h.id>>
      BY <1>6, <1>11, <2>2, <3>1, <3>2 DEF Kept, RefsOwn, Alive
    <3>3. CASE r = <<p, h>>
      BY <1>6, <3>3
    <3>4. CASE r \in refs /\ r[1] = p /\ r[2].id = h.id
      <4>1. ArrayOf(r[2].type) = ArrayOf(h.type)
        BY <1>1, <1>11, <3>1 DEF TypeOK, Handle, ArrayOf
      <4> QED
        BY <1>6, <3>1, <3>4, <4>1 DEF Versions
    <3> QED
      BY <2>2, <3>2, <3>3, <3>4
  <2> QED
    BY <2>1, <2>2 DEF Kept, RefsOwn
<1> QED
  BY <1>7, <1>8, <1>9, <1>10, <1>11

LEMMA GetKeeps ==
  ASSUME IInv, GetOrCreate
  PROVE  IInv' /\ (Kept /\ Disciplined => Kept')
<1> PICK p \in Propset, h \in live :
      /\ FromCache(p, h) \/ FromPool(p, h)
      /\ refs' = refs \cup {<<p, h>>}
  BY DEF GetOrCreate
<1>1. UNCHANGED <<live, dying, version>>
  BY DEF GetOrCreate
<1>2. h \in Handle /\ h.id \in Id
  BY DEF IInv, TypeOK, Handle
<1>3. CASE FromCache(p, h)
  <2>1. TypeOK'
    BY <1>1, <1>2, <1>3 DEF IInv, TypeOK, FromCache, Alive
  <2>2. Versions' /\ OwnersIssued' /\ CacheFresh'
    BY <1>1, <1>3 DEF IInv, Versions, OwnersIssued, CacheFresh, FromCache, Alive
  <2>3. ASSUME Kept, Disciplined PROVE Kept'
    <3>1. rows[p][h.id].owner = h
      BY <1>3, <2>3, CacheRight DEF CacheOwns, FromCache, Disciplined
    <3> QED
      BY <1>1, <1>3, <2>3, <3>1 DEF Kept, RefsLive, RefsOwn, FromCache, Alive
  <2> QED
    BY <2>1, <2>2, <2>3 DEF IInv
<1>4. CASE FromPool(p, h)
  <2>1. \/ Owned(p, h) /\ rows' = rows
        \/ Accepts(p, h.type) /\ rows' = [rows EXCEPT ![p][h.id] = [owner |-> h, value |-> Default]]
    BY <1>4 DEF FromPool
  <2> QED
    BY <1>1, <1>4, <2>1, TakeKeeps DEF FromPool, Disciplined
<1> QED
  BY <1>3, <1>4

LEMMA FindKeeps ==
  ASSUME IInv, Find
  PROVE  IInv' /\ (Kept /\ Disciplined => Kept')
BY TakeKeeps DEF Find, Disciplined

LEMMA WriteKeeps ==
  ASSUME IInv, WriteField
  PROVE  IInv' /\ (Kept => Kept')
<1>0. PICK r \in refs, v \in Value :
      /\ Alive(r[1], r[2].id)
      /\ rows' = [rows EXCEPT ![r[1]][r[2].id].value = v]
  BY DEF WriteField
<1> USE DEF IInv
<1>1. UNCHANGED <<live, dying, version, cache, refs>>
  BY DEF WriteField
<1>2. r[1] \in Propset /\ r[2].id \in Id
  BY DEF TypeOK, Handle
<1>3. rows[r[1]][r[2].id] \in Row
  BY <1>0, <1>2, SMTT(40) DEF TypeOK, Alive
<1>4. /\ rows' \in [Propset -> [Id -> Row \cup {None}]]
      /\ \A p \in Propset, i \in Id :
           Alive(p, i)' => Alive(p, i) /\ rows'[p][i].owner = rows[p][i].owner
  <2>1. [rows[r[1]][r[2].id] EXCEPT !.value = v] \in Row
    BY <1>3 DEF Row
  <2>2. [rows[r[1]][r[2].id] EXCEPT !.value = v].owner = rows[r[1]][r[2].id].owner
    BY <1>3 DEF Row
  <2> QED
    BY <1>0, <1>2, <2>1, <2>2, NoneAssumption DEF TypeOK, Alive
<1>5. TypeOK'
  BY <1>1, <1>4 DEF TypeOK, Alive
<1>6. Versions' /\ OwnersIssued' /\ CacheFresh'
  <2>1. Versions'
    BY <1>1 DEF Versions
  <2>2. OwnersIssued'
    BY <1>1, <1>4 DEF OwnersIssued, Alive
  <2>3. CacheFresh'
    BY <1>1, <1>4 DEF CacheFresh, Alive
  <2> QED
    BY <2>1, <2>2, <2>3
<1>7. ASSUME Kept PROVE Kept'
  <2>1. \A s \in refs : s[1] \in Propset /\ s[2].id \in Id
    BY DEF TypeOK, Handle
  <2> QED
    BY <1>1, <1>4, <1>7, <2>1 DEF Kept, RefsLive, RefsOwn
<1> QED
  BY <1>5, <1>6, <1>7

LEMMA StepKeeps ==
  ASSUME IInv, [Next]_vars
  PROVE  IInv' /\ (Kept /\ Disciplined => Kept')
<1>1. CASE UNCHANGED vars
  BY <1>1 DEF vars, IInv, TypeOK, Versions, OwnersIssued, CacheFresh, Kept, RefsLive, RefsOwn, Alive
<1>2. CASE Make
  BY <1>2, MakeKeeps
<1>3. CASE DestroyCallback
  <2> PICK h \in live : FreeRows(h) /\ dying' = dying \cup {h}
    BY <1>3 DEF DestroyCallback
  <2>1. dying' \subseteq live
    BY DEF IInv, TypeOK
  <2> QED
    BY <1>3, <2>1, FreeKeeps DEF DestroyCallback
<1>4. CASE Release
  BY <1>4, ReleaseKeeps DEF Disciplined
<1>5. CASE GetOrCreate
  BY <1>5, GetKeeps
<1>6. CASE Find
  BY <1>6, FindKeeps
<1>7. CASE WriteField
  BY <1>7, WriteKeeps
<1> QED
  BY <1>1, <1>2, <1>3, <1>4, <1>5, <1>6, <1>7 DEF Next

(* Every row is the row of an object that the propset is for, whatever the *)
(* cache answers, with players or without.                                  *)
THEOREM TypeCorrect == Spec => []TypeOK
<1>1. Init => IInv
  BY Initially
<1>2. IInv /\ [Next]_vars => IInv'
  BY StepKeeps
<1>3. IInv => TypeOK
  BY DEF IInv
<1> QED
  BY <1>1, <1>2, <1>3, PTL DEF Spec

(* Without players the cache never answers with the row of another object, *)
(* however ids, versions and cache lines are used again.                    *)
THEOREM CacheIsRight == "player" \notin Type /\ Spec => []CacheOwns
<1> SUFFICES ASSUME "player" \notin Type PROVE Spec => []CacheOwns
  OBVIOUS
<1>1. Init => IInv
  BY Initially
<1>2. IInv /\ [Next]_vars => IInv'
  BY StepKeeps
<1>3. IInv => CacheOwns
  BY CacheRight
<1> QED
  BY <1>1, <1>2, <1>3, PTL DEF Spec

(* A reference that scripts use while its object lives is to the row of the *)
(* object, also when the row was freed and made again, or the id was used    *)
(* before.                                                                  *)
THEOREM RefsAreRight == Disciplined /\ Spec => []RefsOwn
<1> SUFFICES ASSUME Disciplined PROVE Spec => []RefsOwn
  OBVIOUS
<1>1. Init => IInv /\ Kept
  BY Initially
<1>2. IInv /\ Kept /\ [Next]_vars => (IInv /\ Kept)'
  BY StepKeeps
<1>3. Kept => RefsOwn
  BY DEF Kept
<1> QED
  BY <1>1, <1>2, <1>3, PTL DEF Spec

(***************************************************************************)
(* The refinement of PropsetValues                                         *)
(***************************************************************************)
(* The values of an object are the same when it owns the same rows and *)
(* their values are the same.                                          *)
LEMMA ValuesSame ==
  ASSUME NEW g,
         \A p \in Propset : Owned(p, g)' <=> Owned(p, g),
         \A p \in Propset : Owned(p, g) => rows'[p][g.id].value = rows[p][g.id].value
  PROVE  ValuesOf(g)' = ValuesOf(g)
<1>1. ValuesOf(g)' = [p \in Propset |-> IF Owned(p, g)' THEN rows'[p][g.id].value ELSE Default]
  BY DEF ValuesOf
<1>2. ValuesOf(g) = [p \in Propset |-> IF Owned(p, g) THEN rows[p][g.id].value ELSE Default]
  BY DEF ValuesOf
<1> QED
  BY <1>1, <1>2

LEMMA MakeCreates ==
  ASSUME IInv, Make
  PROVE  Abstract!Create
<1>0. PICK type \in Type, i \in Id :
      LET a == ArrayOf(type)
      IN  /\ \A h \in live : ~(h.id = i /\ ArrayOf(h.type) = a)
          /\ version[a][i] <= MaxVersion
          /\ live' = live \cup {[type |-> type, id |-> i, version |-> version[a][i]]}
  BY DEF Make
<1>h. PICK h : h = [type |-> type, id |-> i, version |-> version[ArrayOf(type)][i]]
  OBVIOUS
<1>1. live' = live \cup {h} /\ h \notin live /\ rows' = rows
  BY <1>0, <1>h DEF Make
<1>2. version[ArrayOf(type)][i] \in Int
  BY PoolAssumption DEF IInv, TypeOK, ArrayOf, Array
<1>3. \A p \in Propset : ~Owned(p, h)
  BY <1>h, <1>1, <1>2 DEF Owned, IInv, OwnersIssued
<1>4. \A p \in Propset : ~Owned(p, h)'
  BY <1>1, <1>3 DEF Owned, Alive
<1>5. ValuesOf(h)' = [p \in Propset |-> Default]
  <2>1. ValuesOf(h)' = [p \in Propset |-> IF Owned(p, h)' THEN rows'[p][h.id].value ELSE Default]
    BY DEF ValuesOf
  <2> QED
    BY <1>4, <2>1
<1>6. ASSUME NEW g \in live PROVE ValuesOf(g)' = ValuesOf(g)
  <2>1. \A p \in Propset : Owned(p, g)' <=> Owned(p, g)
    BY <1>1 DEF Owned, Alive
  <2> QED
    BY <1>1, <2>1, ValuesSame
<1>7. DOMAIN Values = live /\ DOMAIN Values' = live'
  BY DEF Values
<1>8. Values' = [g \in live' |-> ValuesOf(g)'] /\ \A g \in live : Values[g] = ValuesOf(g)
  BY DEF Values
<1>9. Values' = [g \in live \cup {h} |->
                   IF g = h THEN [p \in Propset |-> Default] ELSE Values[g]]
  <2>1. \A g \in live \cup {h} :
          ValuesOf(g)' = IF g = h THEN [p \in Propset |-> Default] ELSE Values[g]
    BY <1>5, <1>6, <1>8
  <2> QED
    BY <1>1, <1>8, <2>1
<1> QED
  BY <1>1, <1>7, <1>9 DEF Abstract!Create, Abstract!New

LEMMA ReleaseRetires ==
  ASSUME IInv, Release
  PROVE  Abstract!Retire
<1>0. PICK h \in dying : live' = live \ {h}
  BY DEF Release
<1>1. h \in live /\ rows' = rows
  BY DEF Release, IInv, TypeOK
<1>2. ASSUME NEW g \in live PROVE ValuesOf(g)' = ValuesOf(g)
  <2>1. \A p \in Propset : Owned(p, g)' <=> Owned(p, g)
    BY <1>1 DEF Owned, Alive
  <2> QED
    BY <1>1, <2>1, ValuesSame
<1>3. DOMAIN Values = live /\ DOMAIN Values' = live'
  BY DEF Values
<1>4. Values' = [g \in live' |-> ValuesOf(g)'] /\ \A g \in live : Values[g] = ValuesOf(g)
  BY DEF Values
<1>5. Values' = [g \in DOMAIN Values \ {h} |-> Values[g]]
  BY <1>0, <1>2, <1>3, <1>4
<1> QED
  BY <1>0, <1>1, <1>3, <1>5 DEF Abstract!Retire, Abstract!Gone

LEMMA FreeClears ==
  ASSUME IInv, NEW h \in live, FreeRows(h), live' = live
  PROVE  Abstract!Clear
<1>1. rows' = [p \in Propset |-> [i \in Id |->
                IF i = h.id /\ Alive(p, i) /\ rows[p][i].owner = h THEN None ELSE rows[p][i]]]
  BY DEF FreeRows
<1>2. \A g \in live : g.id \in Id
  BY DEF IInv, TypeOK, Handle
<1>3. ValuesOf(h)' = [p \in Propset |-> Default]
  <2>1. \A p \in Propset : ~Owned(p, h)'
    BY <1>1, <1>2 DEF Owned, Alive
  <2>2. ValuesOf(h)' = [p \in Propset |-> IF Owned(p, h)' THEN rows'[p][h.id].value ELSE Default]
    BY DEF ValuesOf
  <2> QED
    BY <2>1, <2>2
<1>4. ASSUME NEW g \in live, g # h PROVE ValuesOf(g)' = ValuesOf(g)
  <2>1. \A p \in Propset : Owned(p, g)' <=> Owned(p, g)
    BY <1>1, <1>2, <1>4 DEF Owned, Alive
  <2>2. \A p \in Propset : Owned(p, g) => rows'[p][g.id].value = rows[p][g.id].value
    BY <1>1, <1>2, <1>4 DEF Owned, Alive
  <2> QED
    BY <2>1, <2>2, ValuesSame
<1>5. Values' = [g \in live |-> ValuesOf(g)'] /\ Values = [g \in live |-> ValuesOf(g)]
  BY DEF Values
<1>6. Values' = [Values EXCEPT ![h] = [p \in Propset |-> Default]]
  BY <1>3, <1>4, <1>5
<1> QED
  BY <1>5, <1>6 DEF Abstract!Clear

LEMMA SameForAll ==
  ASSUME live' = live, \A g \in live : ValuesOf(g)' = ValuesOf(g)
  PROVE  Values' = Values
<1>1. Values' = [g \in live |-> ValuesOf(g)'] /\ Values = [g \in live |-> ValuesOf(g)]
  BY DEF Values
<1> QED
  BY <1>1

(* A row that is taken over has the owner of a version used before, whose *)
(* values nobody can ask for.                                             *)
LEMMA GetKeepsValues ==
  ASSUME IInv, "player" \notin Type, GetOrCreate
  PROVE  Values' = Values
<1>0. PICK p \in Propset, h \in live : FromCache(p, h) \/ FromPool(p, h)
  BY DEF GetOrCreate
<1>1. live' = live
  BY DEF GetOrCreate
<1>2. \A g \in live : g.id \in Id /\ (g.id = h.id => g = h)
  BY DEF IInv, TypeOK, Handle, Versions, ArrayOf
<1>3. CASE rows' = rows
  <2>1. ASSUME NEW g \in live PROVE ValuesOf(g)' = ValuesOf(g)
    <3>1. \A q \in Propset : Owned(q, g)' <=> Owned(q, g)
      BY <1>3 DEF Owned, Alive
    <3> QED
      BY <1>3, <3>1, ValuesSame
  <2> QED
    BY <1>1, <2>1, SameForAll
<1>4. CASE ~Owned(p, h) /\ rows' = [rows EXCEPT ![p][h.id] = [owner |-> h, value |-> Default]]
  <2>1. \A q \in Propset, i \in Id : rows'[q][i] = IF q = p /\ i = h.id THEN [owner |-> h, value |-> Default]
                                                ELSE rows[q][i]
    BY <1>2, <1>4 DEF IInv, TypeOK
  <2>2. ASSUME NEW g \in live, g # h PROVE ValuesOf(g)' = ValuesOf(g)
    <3>1. \A q \in Propset : rows'[q][g.id] = rows[q][g.id]
      BY <1>2, <2>1, <2>2
    <3>2. \A q \in Propset : Owned(q, g)' <=> Owned(q, g)
      BY <3>1 DEF Owned, Alive
    <3> QED
      BY <3>1, <3>2, ValuesSame
  <2>3. ValuesOf(h)' = ValuesOf(h)
    <3>1. ValuesOf(h)' = [q \in Propset |-> IF Owned(q, h)' THEN rows'[q][h.id].value ELSE Default]
      BY DEF ValuesOf
    <3>2. ValuesOf(h) = [q \in Propset |-> IF Owned(q, h) THEN rows[q][h.id].value ELSE Default]
      BY DEF ValuesOf
    <3>3. ASSUME NEW q \in Propset, q # p
          PROVE  rows'[q][h.id] = rows[q][h.id] /\ (Owned(q, h)' <=> Owned(q, h))
      BY <1>2, <2>1, <3>3 DEF Owned, Alive
    <3>4. rows'[p][h.id].value = Default
      BY <1>2, <2>1
    <3> QED
      BY <1>4, <3>1, <3>2, <3>3, <3>4
  <2> QED
    BY <1>1, <2>2, <2>3, SameForAll
<1> QED
  BY <1>0, <1>3, <1>4 DEF FromCache, FromPool

LEMMA FindKeepsValues ==
  ASSUME IInv, Find
  PROVE  Values' = Values
<1>1. live' = live /\ rows' = rows
  BY DEF Find
<1>2. ASSUME NEW g \in live PROVE ValuesOf(g)' = ValuesOf(g)
  <2>1. \A q \in Propset : Owned(q, g)' <=> Owned(q, g)
    BY <1>1 DEF Owned, Alive
  <2> QED
    BY <1>1, <2>1, ValuesSame
<1> QED
  BY <1>1, <1>2, SameForAll

(* The row that a reference writes is the row of its object. *)
LEMMA WriteWrites ==
  ASSUME IInv, Kept, WriteField
  PROVE  Abstract!Write
<1>0. PICK r \in refs, v \in Value :
        /\ Alive(r[1], r[2].id)
        /\ rows' = [rows EXCEPT ![r[1]][r[2].id].value = v]
  BY DEF WriteField
<1>1. PICK p, h : p = r[1] /\ h = r[2]
  OBVIOUS
<1>2. p \in Propset /\ h \in live /\ h.id \in Id /\ live' = live
  BY <1>1 DEF WriteField, IInv, TypeOK, Handle, Kept, RefsLive
<1>3. Owned(p, h)
  BY <1>0, <1>1 DEF Kept, RefsOwn, Owned
<1>4. rows[p][h.id] \in Row
  BY <1>2, <1>3, SMTT(40) DEF IInv, TypeOK, Owned, Alive
<1>5. /\ rows'[p][h.id] = [owner |-> h, value |-> v]
      /\ \A q \in Propset, i \in Id : q # p \/ i # h.id => rows'[q][i] = rows[q][i]
  BY <1>0, <1>1, <1>2, <1>3, <1>4, ZenonT(60) DEF IInv, TypeOK, Row, Owned
<1>6. rows'[p][h.id] # None
  BY <1>2, <1>5, NoneAssumption DEF Row, IInv, TypeOK
<1>7. ASSUME NEW g \in live, g # h PROVE ValuesOf(g)' = ValuesOf(g)
  <2>1. \A q \in Propset : Owned(q, g)' <=> Owned(q, g)
    BY <1>2, <1>3, <1>5, <1>7 DEF Owned, Alive, IInv, TypeOK, Handle
  <2>2. \A q \in Propset : Owned(q, g) => rows'[q][g.id].value = rows[q][g.id].value
    BY <1>2, <1>3, <1>5, <1>7 DEF Owned, Alive, IInv, TypeOK, Handle
  <2> QED
    BY <2>1, <2>2, ValuesSame
<1>8. ValuesOf(h)' = [ValuesOf(h) EXCEPT ![p] = v]
  <2>1. ValuesOf(h)' = [q \in Propset |-> IF Owned(q, h)' THEN rows'[q][h.id].value ELSE Default]
    BY DEF ValuesOf
  <2>2. ValuesOf(h) = [q \in Propset |-> IF Owned(q, h) THEN rows[q][h.id].value ELSE Default]
    BY DEF ValuesOf
  <2>3. Owned(p, h)'
    BY <1>5, <1>6 DEF Owned, Alive
  <2>4. ASSUME NEW q \in Propset, q # p
        PROVE  rows'[q][h.id] = rows[q][h.id] /\ (Owned(q, h)' <=> Owned(q, h))
    BY <1>2, <1>5, <2>4 DEF Owned, Alive
  <2> QED
    BY <1>2, <1>5, <2>1, <2>2, <2>3, <2>4
<1>9. Values' = [g \in live |-> ValuesOf(g)'] /\ Values = [g \in live |-> ValuesOf(g)]
  BY <1>2 DEF Values
<1>10. Values' = [Values EXCEPT ![h][p] = v]
  BY <1>2, <1>7, <1>8, <1>9
<1> QED
  BY <1>2, <1>9, <1>10 DEF Abstract!Write

(* With one array of objects, and scripts that drop their references with *)
(* the object, the rows and the cache implement values of objects' own.   *)
THEOREM ValuesAreOwn == Disciplined /\ Spec => ImplementsValues
<1> SUFFICES ASSUME Disciplined PROVE Spec => ImplementsValues
  OBVIOUS
<1>1. Init => IInv /\ Kept
  BY Initially
<1>2. IInv /\ Kept /\ [Next]_vars => (IInv /\ Kept)'
  BY StepKeeps
<1>3. Init => Abstract!Init
  BY DEF Init, Abstract!Init, Values
<1>4. ASSUME IInv, Kept, [Next]_vars PROVE [Abstract!Next]_Values
  <2>1. CASE Make
    BY <1>4, <2>1, MakeCreates DEF Abstract!Next
  <2>2. CASE DestroyCallback
    BY <1>4, <2>2, FreeClears DEF DestroyCallback, Abstract!Next
  <2>3. CASE Release
    BY <1>4, <2>3, ReleaseRetires DEF Abstract!Next
  <2>4. CASE GetOrCreate
    BY <1>4, <2>4, GetKeepsValues DEF Disciplined
  <2>5. CASE Find
    BY <1>4, <2>5, FindKeepsValues
  <2>6. CASE WriteField
    BY <1>4, <2>6, WriteWrites DEF Abstract!Next
  <2>7. CASE UNCHANGED vars
    <3>1. live' = live /\ rows' = rows
      BY <2>7 DEF vars
    <3>2. ASSUME NEW g \in live PROVE ValuesOf(g)' = ValuesOf(g)
      <4>1. \A q \in Propset : Owned(q, g)' <=> Owned(q, g)
        BY <3>1 DEF Owned, Alive
      <4> QED
        BY <3>1, <4>1, ValuesSame
    <3> QED
      BY <3>1, <3>2, SameForAll
  <2> QED
    BY <1>4, <2>1, <2>2, <2>3, <2>4, <2>5, <2>6, <2>7 DEF Next
<1> QED
  BY <1>1, <1>2, <1>3, <1>4, PTL DEF Spec, ImplementsValues, Abstract!Spec
=============================================================================
