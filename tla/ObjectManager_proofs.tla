------------------------ MODULE ObjectManager_proofs ------------------------
(***************************************************************************)
(* Theorems about ObjectManager, for any types and tags, any number of     *)
(* slots and versions, and any nesting of loads and destroys.              *)
(***************************************************************************)
EXTENDS ObjectManager, SequenceTheorems, TLAPS

(* A handle that was given to an object: the object is there, or the       *)
(* version of its slot has moved on.  Valid looks at the array only, so a  *)
(* handle must also have the type of the object.                           *)
Known(h) ==
  /\ h.id <= Len(slots[ArrayOf(h.type)])
  /\ \/ h.version < SlotOf(h).version
     \/ h.version = SlotOf(h).version /\ SlotOf(h).obj # NoObject /\ SlotOf(h).obj.type = h.type

TagOf(h) == SlotOf(h).obj.tag

Slot == [obj : Object \cup {NoObject}, version : 0 .. MaxVersion]

(* ObjectArray is in order. *)
SlotsOK ==
  /\ slots \in [Array -> Seq(Slot)]
  /\ free \in [Array -> Seq(Nat \ {0})]
  /\ SlotsExact

LEMMA Arrays ==
  ASSUME NEW h \in Handle
  PROVE  ArrayOf(h.type) \in Array /\ h.id \in Nat \ {0} /\ h.version \in 0 .. MaxVersion /\ h.type \in Type
BY DEF Handle, ArrayOf, Array

LEMMA SlotTypes ==
  ASSUME SlotsOK, NEW a \in Array
  PROVE  /\ slots[a] \in Seq(Slot) /\ Len(slots[a]) \in Nat /\ DOMAIN slots[a] = 1 .. Len(slots[a])
         /\ \A id \in DOMAIN slots[a] :
              /\ slots[a][id] \in Slot /\ slots[a][id].version \in 0 .. MaxVersion
              /\ slots[a][id].obj \in Object \cup {NoObject}
         /\ free[a] \in Seq(Nat \ {0})
<1>1. slots[a] \in Seq(Slot) /\ free[a] \in Seq(Nat \ {0})
  BY DEF SlotsOK
<1>2. \A s \in Slot : s.version \in 0 .. MaxVersion /\ s.obj \in Object \cup {NoObject}
  BY DEF Slot
<1>3. \A id \in DOMAIN slots[a] : slots[a][id] \in Slot
  BY <1>1
<1> QED
  BY <1>1, <1>2, <1>3

LEMMA FreeFacts ==
  ASSUME SlotsOK, NEW a \in Array
  PROVE  /\ \A i, j \in DOMAIN free[a] : free[a][i] = free[a][j] => i = j
         /\ \A id : (\E i \in DOMAIN free[a] : free[a][i] = id) <=>
              id \in DOMAIN slots[a] /\ slots[a][id].obj = NoObject /\ slots[a][id].version < MaxVersion
         /\ \A id \in DOMAIN slots[a] : slots[a][id].obj # NoObject => slots[a][id].version < MaxVersion
<1>1. \A id : id \in ToSet(free[a]) <=> \E i \in DOMAIN free[a] : free[a][i] = id
  BY DEF ToSet
<1> QED
  BY <1>1 DEF SlotsOK, SlotsExact

(* The slot and the version of the next object *)
LEMMA NewSlot ==
  ASSUME SlotsOK, NEW type \in Type
  PROVE  LET h == NewHandle(type)
             a == ArrayOf(type)
         IN  /\ a \in Array /\ h.type = type
             /\ free[a] = << >> => h.id = Len(slots[a]) + 1 /\ h.version = 0
             /\ free[a] # << >> => /\ h.id = Head(free[a]) /\ h.id \in DOMAIN slots[a]
                                   /\ h.version = slots[a][h.id].version
                                   /\ slots[a][h.id].obj = NoObject /\ h.version < MaxVersion
             /\ h \in Handle
<1> DEFINE h == NewHandle(type)
           a == ArrayOf(type)
<1>1. a \in Array /\ h.type = type
  BY DEF ArrayOf, Array, NewHandle
<1> HIDE DEF a
<1>2. CASE free[a] = << >>
  <2>1. h.id = Len(slots[a]) + 1 /\ h.version = 0
    BY <1>2 DEF NewHandle, a
  <2>2. h = [id |-> Len(slots[a]) + 1, type |-> type, version |-> 0]
    BY <1>2 DEF NewHandle, a
  <2>3. Len(slots[a]) + 1 \in Nat \ {0} /\ 0 \in 0 .. MaxVersion
    BY <1>1, SlotTypes, ObjectAssumption
  <2> QED
    BY <1>1, <1>2, <2>1, <2>2, <2>3 DEF Handle, a
<1>3. CASE free[a] # << >>
  <2>1. h.id = Head(free[a]) /\ h.version = slots[a][h.id].version % (MaxVersion + 1)
    BY <1>3 DEF NewHandle, a
  <2>2. Head(free[a]) = free[a][1] /\ 1 \in DOMAIN free[a]
    BY <1>1, <1>3, SlotTypes
  <2>3. h.id \in DOMAIN slots[a] /\ slots[a][h.id].obj = NoObject /\ slots[a][h.id].version < MaxVersion
    BY <1>1, <2>1, <2>2, FreeFacts
  <2>4. slots[a][h.id].version \in 0 .. MaxVersion
    BY <1>1, <2>3, SlotTypes
  <2>5. \A x \in 0 .. MaxVersion : x % (MaxVersion + 1) = x
    BY ObjectAssumption
  <2>6. h.version = slots[a][h.id].version
    BY <2>1, <2>4, <2>5
  <2>7. h.id \in Nat \ {0}
    BY <1>1, <2>3, SlotTypes
  <2>8. h = [id |-> h.id, type |-> type, version |-> h.version]
    BY <1>3 DEF NewHandle, a
  <2>9. h \in Handle
    BY <2>4, <2>6, <2>7, <2>8 DEF Handle
  <2> QED
    BY <1>1, <1>3, <2>1, <2>3, <2>6, <2>9 DEF a
<1> QED
  BY <1>2, <1>3 DEF a

LEMMA NewUnknown ==
  ASSUME SlotsOK, NEW type \in Type
  PROVE  ~Known(NewHandle(type))
<1> DEFINE h == NewHandle(type)
           a == ArrayOf(type)
<1>1. /\ a \in Array /\ h.type = type
      /\ free[a] = << >> => h.id = Len(slots[a]) + 1
      /\ free[a] # << >> => slots[a][h.id].obj = NoObject /\ h.version = slots[a][h.id].version
      /\ h \in Handle
  BY NewSlot
<1>2. Len(slots[a]) \in Nat
  BY <1>1, SlotTypes
<1>3. h.version \in 0 .. MaxVersion
  BY <1>1, Arrays
<1> HIDE DEF h, a
<1>4. ArrayOf(h.type) = a
  BY <1>1 DEF a
<1> QED
  BY <1>1, <1>2, <1>3, <1>4, ObjectAssumption DEF Known, SlotOf, h

(* The slot of the new object changes, and no other. *)
Allocated(a, h, o) ==
  /\ a \in Array /\ slots' = [slots EXCEPT ![a] = slots'[a]] /\ slots'[a] \in Seq(Slot)
  /\ Len(slots[a]) <= Len(slots'[a]) /\ h.id \in 1 .. Len(slots'[a])
  /\ slots'[a][h.id] = [obj |-> o, version |-> h.version]
  /\ \A id \in 1 .. Len(slots'[a]) : id # h.id => id \in 1 .. Len(slots[a]) /\ slots'[a][id] = slots[a][id]
  /\ free' \in [Array -> Seq(Nat \ {0})]
  /\ \A b \in Array : b # a => free'[b] = free[b] /\ slots'[b] = slots[b]
  /\ \A i, j \in DOMAIN free'[a] : free'[a][i] = free'[a][j] => i = j
  /\ \A id : id \in ToSet(free'[a]) <=> id \in ToSet(free[a]) /\ id # h.id

LEMMA AllocSlots ==
  ASSUME SlotsOK, NEW type \in Type, NEW h \in Handle, h = NewHandle(type), Alloc(type)
  PROVE  Allocated(ArrayOf(type), h, [type |-> type, tag |-> NoTag])
<1> DEFINE a == ArrayOf(type)
           o == [type |-> type, tag |-> NoTag]
           n == Len(slots[a])
<1>1. /\ a \in Array /\ h.type = type /\ h \in Handle
      /\ free[a] = << >> => h.id = n + 1 /\ h.version = 0
      /\ free[a] # << >> => /\ h.id = Head(free[a]) /\ h.id \in DOMAIN slots[a]
                            /\ h.version = slots[a][h.id].version
                            /\ slots[a][h.id].obj = NoObject /\ h.version < MaxVersion
  BY NewSlot
<1>2. /\ slots[a] \in Seq(Slot) /\ n \in Nat /\ DOMAIN slots[a] = 1 .. n
      /\ free[a] \in Seq(Nat \ {0})
  BY <1>1, SlotTypes
<1>3. o \in Object /\ o # NoObject /\ [obj |-> o, version |-> h.version] \in Slot /\ h.version \in 0 .. MaxVersion
  <2>1. o \in Object /\ h.version \in 0 .. MaxVersion
    BY <1>1, Arrays DEF Object
  <2> QED
    BY <2>1, NoObjectAssumption DEF Slot
<1> DEFINE s == slots'[a]
           new == [obj |-> o, version |-> h.version]
<1> HIDE DEF a, o
<1>4. /\ slots' = [slots EXCEPT ![a] = s] /\ s \in Seq(Slot)
      /\ n <= Len(s) /\ h.id \in 1 .. Len(s) /\ DOMAIN s = 1 .. Len(s)
      /\ s[h.id] = new
      /\ \A id \in 1 .. Len(s) : id # h.id => id \in 1 .. n /\ s[id] = slots[a][id]
      /\ free' \in [Array -> Seq(Nat \ {0})]
      /\ \A b \in Array : b # a => free'[b] = free[b] /\ slots'[b] = slots[b]
      /\ \A i, j \in DOMAIN free'[a] : free'[a][i] = free'[a][j] => i = j
      /\ \A id : id \in ToSet(free'[a]) <=> id \in ToSet(free[a]) /\ id # h.id
  <2>1. CASE free[a] = << >>
    <3>1. slots' = [slots EXCEPT ![a] = Append(@, [obj |-> o, version |-> 0])] /\ free' = free
      BY <2>1 DEF Alloc, a, o
    <3>2. s = Append(slots[a], new)
      BY <1>1, <2>1, <3>1 DEF SlotsOK
    <3>3. s \in Seq(Slot) /\ Len(s) = n + 1 /\ s[n + 1] = new /\ \A id \in 1 .. n : s[id] = slots[a][id]
      BY <1>2, <1>3, <3>2
    <3>4. n <= Len(s) /\ h.id \in 1 .. Len(s) /\ DOMAIN s = 1 .. Len(s)
          /\ \A id \in 1 .. Len(s) : id # h.id => id \in 1 .. n
      BY <1>1, <1>2, <2>1, <3>3
    <3>5. ToSet(free[a]) = {}
      BY <2>1 DEF ToSet
    <3>6. \A i, j \in DOMAIN free'[a] : free'[a][i] = free'[a][j] => i = j
      BY <1>1, <3>1, FreeFacts
    <3> HIDE DEF s, new
    <3> QED
      BY <1>1, <2>1, <3>1, <3>2, <3>3, <3>4, <3>5, <3>6 DEF SlotsOK, s
  <2>2. CASE free[a] # << >>
    <3>1. slots' = [slots EXCEPT ![a][Head(free[a])].obj = o] /\ free' = [free EXCEPT ![a] = Tail(@)]
      BY <2>2 DEF Alloc, a, o
    <3>2. s = [slots[a] EXCEPT ![h.id].obj = o]
      BY <1>1, <2>2, <3>1 DEF SlotsOK
    <3>3. [slots[a][h.id] EXCEPT !.obj = o] = new
      <4>1. slots[a][h.id] \in Slot
        BY <1>1, <2>2, SlotTypes
      <4> QED
        BY <1>1, <2>2, <4>1 DEF Slot
    <3>4. s = [slots[a] EXCEPT ![h.id] = new]
      BY <3>2, <3>3
    <3>5. /\ s \in Seq(Slot) /\ Len(s) = n /\ DOMAIN s = 1 .. n /\ s[h.id] = new
          /\ h.id \in 1 .. n
          /\ \A id \in 1 .. n : id # h.id => s[id] = slots[a][id]
      <4> HIDE DEF s, new
      <4> QED
        BY <1>1, <1>2, <1>3, <2>2, <3>4 DEF new
    <3>6. /\ Tail(free[a]) \in Seq(Nat \ {0}) /\ Len(Tail(free[a])) = Len(free[a]) - 1
          /\ Len(free[a]) \in Nat \ {0}
          /\ \A i \in 1 .. Len(free[a]) - 1 : Tail(free[a])[i] = free[a][i + 1]
          /\ DOMAIN free[a] = 1 .. Len(free[a]) /\ DOMAIN Tail(free[a]) = 1 .. Len(free[a]) - 1
      BY <1>2, <2>2
    <3>7. free'[a] = Tail(free[a]) /\ \A b \in Array : b # a => free'[b] = free[b]
      BY <1>1, <3>1 DEF SlotsOK
    <3>8. \A i, j \in DOMAIN free[a] : free[a][i] = free[a][j] => i = j
      BY <1>1, FreeFacts
    <3>9. \A i, j \in 1 .. Len(free[a]) - 1 : Tail(free[a])[i] = Tail(free[a])[j] => i = j
      <4>1. \A i \in 1 .. Len(free[a]) - 1 : i + 1 \in DOMAIN free[a]
        BY <3>6
      <4> SUFFICES ASSUME NEW i \in 1 .. Len(free[a]) - 1, NEW j \in 1 .. Len(free[a]) - 1,
                          Tail(free[a])[i] = Tail(free[a])[j]
                   PROVE  i = j
        OBVIOUS
      <4>2. free[a][i + 1] = free[a][j + 1] /\ i + 1 \in DOMAIN free[a] /\ j + 1 \in DOMAIN free[a]
        BY <3>6, <4>1
      <4>3. i + 1 = j + 1
        BY <3>8, <4>2
      <4> QED
        BY <3>6, <4>3
    <3>10. free[a][1] = h.id
      BY <1>1, <1>2, <2>2
    <3>11. ASSUME NEW id PROVE id \in ToSet(Tail(free[a])) <=> id \in ToSet(free[a]) /\ id # h.id
      <4>1. ASSUME NEW i \in 1 .. Len(free[a]) - 1, id = Tail(free[a])[i]
            PROVE  id \in ToSet(free[a]) /\ id # h.id
        <5>1. i + 1 \in DOMAIN free[a] /\ i + 1 # 1 /\ id = free[a][i + 1] /\ 1 \in DOMAIN free[a]
          BY <3>6, <4>1
        <5> QED
          BY <3>8, <3>10, <5>1 DEF ToSet
      <4>2. ASSUME NEW i \in DOMAIN free[a], id = free[a][i], id # h.id
            PROVE  id \in ToSet(Tail(free[a]))
        <5>0. i # 1 /\ i \in 1 .. Len(free[a]) /\ Len(free[a]) \in Nat
          BY <3>6, <3>10, <4>2
        <5>1. i - 1 \in 1 .. Len(free[a]) - 1
          BY <5>0
        <5>2. Tail(free[a])[i - 1] = free[a][i]
          BY <3>6, <5>1
        <5> QED
          BY <3>6, <4>2, <5>1, <5>2 DEF ToSet
      <4> QED
        BY <3>6, <4>1, <4>2 DEF ToSet
    <3>12. free' \in [Array -> Seq(Nat \ {0})]
      BY <3>1, <3>6, <1>1 DEF SlotsOK
    <3>13. slots' = [slots EXCEPT ![a] = s] /\ \A b \in Array : b # a => slots'[b] = slots[b]
      BY <1>1, <3>1 DEF SlotsOK
    <3>14. \A i, j \in DOMAIN free'[a] : free'[a][i] = free'[a][j] => i = j
      BY <3>6, <3>7, <3>9
    <3>15. \A id : id \in ToSet(free'[a]) <=> id \in ToSet(free[a]) /\ id # h.id
      <4>1. ToSet(free'[a]) = ToSet(Tail(free[a]))
        BY <3>7
      <4> QED
        BY <3>11, <4>1
    <3> HIDE DEF s, new
    <3>16. /\ s \in Seq(Slot) /\ n <= Len(s) /\ h.id \in 1 .. Len(s) /\ DOMAIN s = 1 .. Len(s)
           /\ s[h.id] = new
           /\ \A id \in 1 .. Len(s) : id # h.id => id \in 1 .. n /\ s[id] = slots[a][id]
      BY <1>2, <3>5
    <3> HIDE DEF n
    <3> QED
      BY <3>7, <3>12, <3>13, <3>14, <3>15, <3>16
  <2> QED
    BY <2>1, <2>2
<1> HIDE DEF s, n
<1> QED
  BY <1>1, <1>4 DEF s, n, a, o, Allocated

LEMMA AllocFacts ==
  ASSUME SlotsOK, NEW type \in Type, NEW h \in Handle, h = NewHandle(type), Alloc(type)
  PROVE  /\ SlotsOK'
         /\ Known(h)' /\ Valid(h)' /\ TagOf(h)' = NoTag
         /\ \A g \in Handle : Known(g) =>
              /\ Known(g)' /\ (Valid(g)' <=> Valid(g))
              /\ Valid(g) => SlotOf(g)' = SlotOf(g)
<1> DEFINE a == ArrayOf(type)
           o == [type |-> type, tag |-> NoTag]
           n == Len(slots[a])
<1>1. /\ a \in Array /\ h.type = type /\ h \in Handle
      /\ free[a] = << >> => h.id = n + 1 /\ h.version = 0
      /\ free[a] # << >> => /\ h.id = Head(free[a]) /\ h.id \in DOMAIN slots[a]
                            /\ h.version = slots[a][h.id].version
                            /\ slots[a][h.id].obj = NoObject /\ h.version < MaxVersion
  BY NewSlot
<1>2. /\ slots[a] \in Seq(Slot) /\ n \in Nat /\ DOMAIN slots[a] = 1 .. n
      /\ free[a] \in Seq(Nat \ {0})
  BY <1>1, SlotTypes
<1>3. o \in Object /\ o # NoObject /\ [obj |-> o, version |-> h.version] \in Slot /\ h.version \in 0 .. MaxVersion
  <2>1. o \in Object /\ h.version \in 0 .. MaxVersion
    BY <1>1, Arrays DEF Object
  <2> QED
    BY <2>1, NoObjectAssumption DEF Slot
<1> DEFINE s == slots'[a]
           new == [obj |-> o, version |-> h.version]
<1>4. /\ slots' = [slots EXCEPT ![a] = s] /\ s \in Seq(Slot)
      /\ n <= Len(s) /\ h.id \in 1 .. Len(s) /\ DOMAIN s = 1 .. Len(s)
      /\ s[h.id] = new
      /\ \A id \in 1 .. Len(s) : id # h.id => id \in 1 .. n /\ s[id] = slots[a][id]
      /\ free' \in [Array -> Seq(Nat \ {0})]
      /\ \A b \in Array : b # a => free'[b] = free[b] /\ slots'[b] = slots[b]
      /\ \A i, j \in DOMAIN free'[a] : free'[a][i] = free'[a][j] => i = j
      /\ \A id : id \in ToSet(free'[a]) <=> id \in ToSet(free[a]) /\ id # h.id
  <2>1. Allocated(a, h, o)
    BY AllocSlots
  <2> HIDE DEF a, o
  <2>2. slots' = [slots EXCEPT ![a] = s] /\ s \in Seq(Slot)
    BY <2>1 DEF Allocated
  <2>3. s[h.id] = new
    BY <2>1 DEF Allocated
  <2>4. /\ n <= Len(s) /\ h.id \in 1 .. Len(s)
        /\ \A id \in 1 .. Len(s) : id # h.id => id \in 1 .. n /\ s[id] = slots[a][id]
    BY <2>1 DEF Allocated
  <2>5. /\ free' \in [Array -> Seq(Nat \ {0})]
        /\ \A b \in Array : b # a => free'[b] = free[b] /\ slots'[b] = slots[b]
        /\ \A i, j \in DOMAIN free'[a] : free'[a][i] = free'[a][j] => i = j
        /\ \A id : id \in ToSet(free'[a]) <=> id \in ToSet(free[a]) /\ id # h.id
    BY <2>1 DEF Allocated
  <2> HIDE DEF s, n, new
  <2>6. DOMAIN s = 1 .. Len(s)
    BY <2>2
  <2> QED
    BY <2>2, <2>3, <2>4, <2>5, <2>6
<1> HIDE DEF a, o
<1> HIDE DEF s, n
<1>5. slots'[a] = s
  BY DEF s
<1>6. slots' \in [Array -> Seq(Slot)]
  BY <1>1, <1>4 DEF SlotsOK
<1>7. SlotsExact'
  <2> SUFFICES ASSUME NEW b \in Array
               PROVE  /\ \A i, j \in DOMAIN free'[b] : free'[b][i] = free'[b][j] => i = j
                      /\ ToSet(free'[b]) = {id \in DOMAIN slots'[b] :
                           slots'[b][id].obj = NoObject /\ slots'[b][id].version < MaxVersion}
                      /\ \A id \in DOMAIN slots'[b] :
                           slots'[b][id].obj # NoObject => slots'[b][id].version < MaxVersion
    BY DEF SlotsExact
  <2>1. CASE b # a
    BY <1>4, <2>1 DEF SlotsOK, SlotsExact
  <2>2. CASE b = a
    <3>1. new.obj = o /\ new.version = h.version /\ h.version < MaxVersion
      BY <1>1, ObjectAssumption
    <3>2. ToSet(free[a]) = {id \in 1 .. n : slots[a][id].obj = NoObject /\ slots[a][id].version < MaxVersion}
      BY <1>1, <1>2 DEF SlotsOK, SlotsExact
    <3>3. \A id \in 1 .. n : slots[a][id].obj # NoObject => slots[a][id].version < MaxVersion
      BY <1>1, <1>2, FreeFacts
    <3>4. \A id \in 1 .. n : id \in 1 .. Len(s)
      BY <1>2, <1>4
    <3> HIDE DEF new
    <3>5. ASSUME NEW id
          PROVE  id \in ToSet(free'[a]) <=>
                   id \in DOMAIN s /\ s[id].obj = NoObject /\ s[id].version < MaxVersion
      BY <1>3, <1>4, <3>1, <3>2, <3>4
    <3>6. \A id \in DOMAIN s : s[id].obj # NoObject => s[id].version < MaxVersion
      BY <1>4, <3>1, <3>3
    <3>7. ToSet(free'[a]) = {id \in DOMAIN s : s[id].obj = NoObject /\ s[id].version < MaxVersion}
      BY <3>5
    <3> QED
      BY <1>4, <1>5, <2>2, <3>6, <3>7
  <2> QED
    BY <2>1, <2>2
<1>8. Known(h)' /\ Valid(h)' /\ TagOf(h)' = NoTag
  <2>0. ArrayOf(h.type) = a
    BY <1>1 DEF a
  <2>a. h.id \in Nat /\ Len(s) \in Nat /\ h.id <= Len(s)
    <3>1. h.id \in Nat
      BY <1>1, Arrays
    <3>2. Len(s) \in Nat
      BY <1>4
    <3> QED
      BY <1>4, <3>1, <3>2
  <2>1. ArrayOf(h.type) = a /\ SlotOf(h)' = new /\ h.id <= Len(s)
    BY <1>4, <1>5, <2>0, <2>a DEF SlotOf
  <2>2. new.obj = o /\ new.version = h.version /\ o.type = h.type /\ o.tag = NoTag
    BY <1>1 DEF o
  <2> HIDE DEF new
  <2>3. SlotOf(h)'.obj = o /\ SlotOf(h)'.version = h.version /\ h.id <= Len(slots'[ArrayOf(h.type)])
    BY <1>5, <2>1, <2>2
  <2> QED
    BY <1>3, <2>2, <2>3 DEF Known, Valid, TagOf
<1>9. ASSUME NEW g \in Handle, Known(g)
      PROVE  /\ Known(g)' /\ (Valid(g)' <=> Valid(g))
             /\ Valid(g) => SlotOf(g)' = SlotOf(g)
  <2>1. ArrayOf(g.type) \in Array /\ g.id \in Nat \ {0} /\ g.version \in 0 .. MaxVersion
    BY Arrays
  <2>2. CASE ArrayOf(g.type) # a
    <3>1. slots'[ArrayOf(g.type)] = slots[ArrayOf(g.type)]
      BY <1>4, <2>1, <2>2
    <3> QED
      BY <1>9, <3>1 DEF Known, Valid, SlotOf
  <2>3. CASE ArrayOf(g.type) = a
    <3>1. g.id <= n /\ g.id \in 1 .. n /\ g.id <= Len(s) /\ g.id \in 1 .. Len(s)
      BY <1>2, <1>4, <1>9, <2>1, <2>3 DEF Known, n
    <3>2. CASE g.id # h.id
      <4>1. SlotOf(g)' = SlotOf(g)
        BY <1>4, <1>5, <2>3, <3>1, <3>2 DEF SlotOf
      <4> QED
        BY <1>5, <1>9, <2>3, <3>1, <4>1 DEF Known, Valid, n
    <3>3. CASE g.id = h.id
      <4>1. free[a] # << >>
        BY <1>1, <1>2, <3>1, <3>3
      <4>2. SlotOf(g) = slots[a][h.id] /\ SlotOf(g).obj = NoObject /\ SlotOf(g).version = h.version
        BY <1>1, <2>3, <3>3, <4>1 DEF SlotOf
      <4>3. g.version < h.version
        BY <1>9, <4>2 DEF Known
      <4>4. SlotOf(g)' = new /\ new.version = h.version
        BY <1>4, <1>5, <2>3, <3>3 DEF SlotOf
      <4>5. ~Valid(g) /\ ~Valid(g)' /\ Known(g)'
        BY <1>3, <1>5, <2>1, <2>3, <3>1, <4>2, <4>3, <4>4 DEF Known, Valid
      <4> QED
        BY <4>5
    <3> QED
      BY <3>2, <3>3
  <2> QED
    BY <2>2, <2>3
<1>10. SlotsOK'
  BY <1>4, <1>6, <1>7 DEF SlotsOK
<1> QED
  BY <1>8, <1>9, <1>10

(***************************************************************************)
(* The inductive invariant                                                 *)
(***************************************************************************)
Under(h, t) == \E i \in DOMAIN byTag[t] : byTag[t][i] = h
Listed(h) == \E t \in Tag : Under(h, t)

\* TagsExact, for the handles instead of the indices
TagsOK ==
  /\ byTag \in [Tag -> Seq(Handle)]
  /\ \A t \in Tag : \A i, j \in DOMAIN byTag[t] : byTag[t][i] = byTag[t][j] => i = j
  /\ \A t \in Tag : \A h \in Handle : Under(h, t) => Known(h) /\ Valid(h) /\ TagOf(h) = t

ContentsOK ==
  /\ contents \subseteq Handle \X Handle
  /\ \A p \in contents : Known(p[1]) /\ Known(p[2])

(* What holds of a call by itself: an object is in the tag index once      *)
(* load has read it and before destroy has begun.                          *)
CallOK(c) ==
  /\ Known(c.obj) /\ \A i \in c.items : Known(i)
  /\ c.op # "destroy" \/ c.step = "effects" => Valid(c.obj)
  /\ c.op # "destroy" => \A p \in contents : p[2] # c.obj
  /\ c.op # "load" \/ c.step = "reading" => ~Listed(c.obj)

(* An object that is being loaded belongs to its load alone. *)
LoadsApart ==
  \A k, j \in DOMAIN calls : calls[k].op # "destroy" =>
    /\ j # k => calls[j].obj # calls[k].obj
    /\ calls[k].obj \notin calls[j].items

EffectsLast == \A k \in DOMAIN calls : calls[k].step = "effects" => k = Len(calls)

Called(c) == \E k \in DOMAIN calls : calls[k] = c

CallsOK ==
  /\ calls \in Seq(Calls)
  /\ \A c \in Calls : Called(c) => CallOK(c)
  /\ LoadsApart
  /\ EffectsLast

IInv == SlotsOK /\ TagsOK /\ ContentsOK /\ CallsOK

(* What every step leaves alone: objects keep their slots. *)
Stable ==
  \A g \in Handle : Known(g) =>
    /\ Known(g)' /\ (Valid(g)' <=> Valid(g))
    /\ Valid(g) => SlotOf(g)' = SlotOf(g)

LEMMA StableSame ==
  ASSUME UNCHANGED slots
  PROVE  Stable /\ \A g \in Handle : SlotOf(g)' = SlotOf(g)
BY DEF Stable, Known, Valid, SlotOf

LEMMA ValidVersion ==
  ASSUME SlotsOK, NEW h \in Handle, Valid(h)
  PROVE  LET a == ArrayOf(h.type)
         IN  /\ a \in Array /\ h.id \in DOMAIN slots[a] /\ SlotOf(h) = slots[a][h.id]
             /\ SlotOf(h) \in Slot /\ SlotOf(h).obj \in Object
             /\ h.version < MaxVersion
<1> DEFINE a == ArrayOf(h.type)
<1>1. a \in Array /\ h.id \in Nat \ {0}
  BY Arrays
<1>2. h.id <= Len(slots[a]) /\ SlotOf(h).version = h.version /\ SlotOf(h).obj # NoObject
  BY DEF Valid
<1> HIDE DEF a
<1>3. Len(slots[a]) \in Nat /\ DOMAIN slots[a] = 1 .. Len(slots[a])
  BY <1>1, SlotTypes
<1>4. h.id \in DOMAIN slots[a]
  BY <1>1, <1>2, <1>3
<1>5. slots[a][h.id] \in Slot /\ slots[a][h.id].obj \in Object \cup {NoObject}
      /\ (slots[a][h.id].obj # NoObject => slots[a][h.id].version < MaxVersion)
  BY <1>1, <1>4, SlotTypes, FreeFacts
<1>6. SlotOf(h) = slots[a][h.id]
  BY DEF SlotOf, a
<1> QED
  BY <1>1, <1>2, <1>4, <1>5, <1>6 DEF a

(* One slot changes: what that means for the handles that do not name it *)
LEMMA SlotChange ==
  ASSUME SlotsOK, NEW h \in Handle, Valid(h), NEW new \in Slot,
         slots' = [slots EXCEPT ![ArrayOf(h.type)][h.id] = new]
  PROVE  /\ slots' \in [Array -> Seq(Slot)]
         /\ \A a \in Array : Len(slots'[a]) = Len(slots[a]) /\ DOMAIN slots'[a] = DOMAIN slots[a]
         /\ \A a \in Array : \A id \in DOMAIN slots[a] :
              slots'[a][id] = IF a = ArrayOf(h.type) /\ id = h.id THEN new ELSE slots[a][id]
<1> DEFINE b == ArrayOf(h.type)
<1>1. b \in Array /\ h.id \in DOMAIN slots[b]
  BY ValidVersion
<1> HIDE DEF b
<1>2. slots' = [slots EXCEPT ![b] = [slots[b] EXCEPT ![h.id] = new]]
  BY DEF b
<1>3. slots \in [Array -> Seq(Slot)]
  BY DEF SlotsOK
<1>4. slots[b] \in Seq(Slot) /\ DOMAIN slots[b] = 1 .. Len(slots[b]) /\ Len(slots[b]) \in Nat
  BY <1>1, SlotTypes
<1> DEFINE s == [slots[b] EXCEPT ![h.id] = new]
<1>5. s \in Seq(Slot) /\ Len(s) = Len(slots[b]) /\ DOMAIN s = DOMAIN slots[b]
      /\ \A id \in DOMAIN slots[b] : s[id] = IF id = h.id THEN new ELSE slots[b][id]
  BY <1>1, <1>4
<1>6. slots' = [slots EXCEPT ![b] = s]
  BY <1>2
<1> HIDE DEF s
<1>7. slots'[b] = s /\ \A a \in Array : a # b => slots'[a] = slots[a]
  BY <1>1, <1>3, <1>6
<1>8. slots' \in [Array -> Seq(Slot)]
  BY <1>1, <1>3, <1>5, <1>6
<1> QED
  BY <1>1, <1>5, <1>7, <1>8 DEF b

LEMMA ReleaseFacts ==
  ASSUME SlotsOK, NEW h \in Handle, Known(h), Valid(h), Release(h)
  PROVE  /\ SlotsOK' /\ ~Valid(h)'
         /\ \A g \in Handle : Known(g) =>
              /\ Known(g)' /\ (Valid(g)' <=> Valid(g) /\ g # h)
              /\ Valid(g)' => SlotOf(g)' = SlotOf(g)
<1> DEFINE a == ArrayOf(h.type)
           version == SlotOf(h).version + 1
           new == [obj |-> NoObject, version |-> version]
<1>1. /\ a \in Array /\ h.id \in DOMAIN slots[a] /\ SlotOf(h) = slots[a][h.id]
      /\ SlotOf(h).obj \in Object /\ h.version < MaxVersion
      /\ SlotOf(h).version = h.version /\ SlotOf(h).obj # NoObject
  BY ValidVersion DEF Valid
<1>2. h.version \in 0 .. MaxVersion /\ h.id \in Nat \ {0}
  BY Arrays
<1>3. version \in 0 .. MaxVersion /\ version = h.version + 1 /\ new \in Slot
  BY <1>1, <1>2, ObjectAssumption DEF Slot
<1>4. /\ slots' = [slots EXCEPT ![a][h.id] = new]
      /\ free' = IF version < MaxVersion THEN [free EXCEPT ![a] = <<h.id>> \o @] ELSE free
  BY DEF Release, Reusable
<1>5. new.obj = NoObject /\ new.version = version
  OBVIOUS
<1> HIDE DEF new, version
<1>6. /\ slots' \in [Array -> Seq(Slot)]
      /\ \A b \in Array : Len(slots'[b]) = Len(slots[b]) /\ DOMAIN slots'[b] = DOMAIN slots[b]
      /\ \A b \in Array : \A id \in DOMAIN slots[b] :
           slots'[b][id] = IF b = a /\ id = h.id THEN new ELSE slots[b][id]
  BY <1>3, <1>4, SlotChange
<1> HIDE DEF a
<1>7. free[a] \in Seq(Nat \ {0}) /\ free \in [Array -> Seq(Nat \ {0})]
  BY <1>1 DEF SlotsOK
<1>8. ~\E i \in DOMAIN free[a] : free[a][i] = h.id
  BY <1>1, FreeFacts
<1> DEFINE f == <<h.id>> \o free[a]
<1>9. /\ f \in Seq(Nat \ {0})
      /\ \A i, j \in DOMAIN f : f[i] = f[j] => i = j
      /\ \A id : id \in ToSet(f) <=> id \in ToSet(free[a]) \/ id = h.id
  <2> DEFINE n == Len(free[a])
  <2>1. n \in Nat /\ DOMAIN free[a] = 1 .. n
    BY <1>7
  <2>2. f \in Seq(Nat \ {0}) /\ DOMAIN f = 1 .. n + 1 /\ f[1] = h.id
        /\ \A i \in 2 .. n + 1 : f[i] = free[a][i - 1]
    BY <1>2, <1>7
  <2>3. \A i \in 2 .. n + 1 : i - 1 \in DOMAIN free[a]
    BY <2>1
  <2>4. \A i \in DOMAIN f : i = 1 \/ i \in 2 .. n + 1
    BY <2>1, <2>2
  <2>5. \A i \in DOMAIN free[a] : i + 1 \in 2 .. n + 1 /\ f[i + 1] = free[a][i]
    <3> SUFFICES ASSUME NEW i \in DOMAIN free[a] PROVE i + 1 \in 2 .. n + 1 /\ f[i + 1] = free[a][i]
      OBVIOUS
    <3>1. i + 1 \in 2 .. n + 1 /\ i + 1 - 1 = i
      BY <2>1
    <3> HIDE DEF f
    <3>2. f[i + 1] = free[a][i + 1 - 1]
      BY <2>2, <3>1, SMTT(40)
    <3> QED
      BY <3>1, <3>2
  <2>6. \A i, j \in DOMAIN free[a] : free[a][i] = free[a][j] => i = j
    BY <1>1, FreeFacts
  <2> HIDE DEF f, n
  <2>7. \A i, j \in DOMAIN f : f[i] = f[j] => i = j
    <3> SUFFICES ASSUME NEW i \in DOMAIN f, NEW j \in DOMAIN f, f[i] = f[j] PROVE i = j
      OBVIOUS
    <3>1. CASE i = 1 \/ j = 1
      BY <1>8, <2>2, <2>3, <2>4, <3>1
    <3>2. CASE i # 1 /\ j # 1
      <4>1. i \in 2 .. n + 1 /\ j \in 2 .. n + 1
        BY <2>4, <3>2
      <4>2. free[a][i - 1] = free[a][j - 1] /\ i - 1 \in DOMAIN free[a] /\ j - 1 \in DOMAIN free[a]
        BY <2>2, <2>3, <4>1
      <4>3. i - 1 = j - 1
        BY <2>6, <4>2
      <4> QED
        BY <2>1, <4>1, <4>3
    <3> QED
      BY <3>1, <3>2
  <2>8. ASSUME NEW id PROVE id \in ToSet(f) <=> id \in ToSet(free[a]) \/ id = h.id
    <3>1. 1 \in DOMAIN f /\ \A i \in 2 .. n + 1 : i \in DOMAIN f
      BY <2>1, <2>2
    <3>2. id \in ToSet(f) <=> \E i \in DOMAIN f : f[i] = id
      BY DEF ToSet
    <3>3. id \in ToSet(free[a]) <=> \E i \in DOMAIN free[a] : free[a][i] = id
      BY DEF ToSet
    <3>4. ASSUME NEW i \in DOMAIN free[a], free[a][i] = id PROVE \E k \in DOMAIN f : f[k] = id
      <4>1. i + 1 \in 2 .. n + 1 /\ f[i + 1] = free[a][i]
        BY <2>5
      <4> QED
        BY <3>1, <3>4, <4>1
    <3>5. ASSUME NEW i \in DOMAIN f, f[i] = id
          PROVE  id = h.id \/ \E k \in DOMAIN free[a] : free[a][k] = id
      BY <2>2, <2>3, <2>4, <3>5
    <3> QED
      BY <2>2, <3>1, <3>2, <3>3, <3>4, <3>5
  <2> QED
    BY <2>2, <2>7, <2>8
<1> HIDE DEF f
<1>10. /\ free' \in [Array -> Seq(Nat \ {0})]
       /\ \A b \in Array : b # a => free'[b] = free[b]
       /\ free'[a] = IF version < MaxVersion THEN f ELSE free[a]
  <2>1. CASE version < MaxVersion
    <3>1. free' = [free EXCEPT ![a] = f]
      BY <1>4, <2>1 DEF f
    <3> QED
      BY <1>1, <1>7, <1>9, <2>1, <3>1
  <2>2. CASE ~(version < MaxVersion)
    BY <1>4, <1>7, <2>2
  <2> QED
    BY <2>1, <2>2
<1>11. SlotsExact'
  <2> SUFFICES ASSUME NEW b \in Array
               PROVE  /\ \A i, j \in DOMAIN free'[b] : free'[b][i] = free'[b][j] => i = j
                      /\ ToSet(free'[b]) = {id \in DOMAIN slots'[b] :
                           slots'[b][id].obj = NoObject /\ slots'[b][id].version < MaxVersion}
                      /\ \A id \in DOMAIN slots'[b] :
                           slots'[b][id].obj # NoObject => slots'[b][id].version < MaxVersion
    BY DEF SlotsExact
  <2>1. /\ \A i, j \in DOMAIN free[b] : free[b][i] = free[b][j] => i = j
        /\ ToSet(free[b]) = {id \in DOMAIN slots[b] :
             slots[b][id].obj = NoObject /\ slots[b][id].version < MaxVersion}
        /\ \A id \in DOMAIN slots[b] :
             slots[b][id].obj # NoObject => slots[b][id].version < MaxVersion
    BY DEF SlotsOK, SlotsExact
  <2>2. CASE b # a
    <3>1. free'[b] = free[b] /\ DOMAIN slots'[b] = DOMAIN slots[b]
          /\ \A id \in DOMAIN slots[b] : slots'[b][id] = slots[b][id]
      BY <1>6, <1>10, <2>2
    <3> QED
      BY <2>1, <3>1
  <2>3. CASE b = a
    <3>1. \A i, j \in DOMAIN free'[a] : free'[a][i] = free'[a][j] => i = j
      BY <1>9, <1>10, <2>1, <2>3
    <3>2. ASSUME NEW id
          PROVE  id \in ToSet(free'[a]) <=> /\ id \in DOMAIN slots'[a]
                                            /\ slots'[a][id].obj = NoObject
                                            /\ slots'[a][id].version < MaxVersion
      <4>1. id \in ToSet(free[a]) <=> /\ id \in DOMAIN slots[a]
                                      /\ slots[a][id].obj = NoObject
                                      /\ slots[a][id].version < MaxVersion
        BY <2>1, <2>3
      <4>2. CASE id = h.id
        BY <1>1, <1>5, <1>6, <1>9, <1>10, <4>1, <4>2
      <4>3. CASE id # h.id
        BY <1>1, <1>6, <1>9, <1>10, <4>1, <4>3
      <4> QED
        BY <4>2, <4>3
    <3>3. \A id \in DOMAIN slots'[a] : slots'[a][id].obj # NoObject => slots'[a][id].version < MaxVersion
      BY <1>1, <1>5, <1>6, <2>1, <2>3
    <3> QED
      BY <2>3, <3>1, <3>2, <3>3
  <2> QED
    BY <2>2, <2>3
<1>12. ASSUME NEW g \in Handle, Known(g)
       PROVE  /\ Known(g)' /\ (Valid(g)' <=> Valid(g) /\ g # h)
              /\ Valid(g)' => SlotOf(g)' = SlotOf(g)
  <2>1. ArrayOf(g.type) \in Array /\ g.id \in Nat \ {0} /\ g.version \in 0 .. MaxVersion
    BY Arrays
  <2> DEFINE b == ArrayOf(g.type)
  <2>2. g.id \in DOMAIN slots[b] /\ Len(slots'[b]) = Len(slots[b]) /\ SlotOf(g) = slots[b][g.id]
        /\ SlotOf(g)' = slots'[b][g.id] /\ g.id <= Len(slots'[b])
    <3>1. g.id <= Len(slots[b]) /\ Len(slots[b]) \in Nat /\ DOMAIN slots[b] = 1 .. Len(slots[b])
      BY <1>12, <2>1, SlotTypes DEF Known
    <3> QED
      BY <1>6, <2>1, <3>1 DEF SlotOf
  <2>3. CASE b # a \/ g.id # h.id
    <3>1. SlotOf(g)' = SlotOf(g) /\ g # h
      BY <1>6, <2>1, <2>2, <2>3 DEF a
    <3> QED
      BY <1>12, <2>2, <3>1 DEF Known, Valid
  <2>4. CASE b = a /\ g.id = h.id
    <3>1. SlotOf(g) = SlotOf(h) /\ SlotOf(g)' = new
      BY <1>1, <1>6, <2>2, <2>4
    <3>2. ~Valid(g)'
      BY <1>5, <3>1 DEF Valid
    <3>3. g.version <= h.version
      BY <1>1, <1>12, <3>1, <1>2, <2>1 DEF Known
    <3>4. Known(g)'
      BY <1>2, <1>3, <1>5, <2>1, <2>2, <3>1, <3>3 DEF Known
    <3>5. Valid(g) => g = h
      <4> SUFFICES ASSUME Valid(g) PROVE g = h
        OBVIOUS
      <4>1. g.version = h.version
        BY <1>1, <3>1 DEF Valid
      <4>2. g.type = SlotOf(g).obj.type /\ h.type = SlotOf(h).obj.type
        BY <1>1, <1>2, <1>12, <2>1, <3>1, <4>1 DEF Known
      <4> QED
        BY <2>4, <3>1, <4>1, <4>2 DEF Handle
    <3> QED
      BY <3>2, <3>4, <3>5
  <2> QED
    BY <2>3, <2>4
<1>13. ~Valid(h)'
  BY <1>12, SMTT(40)
<1> QED
  BY <1>6, <1>10, <1>11, <1>12, <1>13 DEF SlotsOK

(* deserialize sets the tag of the object that is being loaded. *)
LEMMA TagFacts ==
  ASSUME SlotsOK, NEW h \in Handle, Valid(h), Known(h), NEW tag \in Tag \cup {NoTag},
         slots' = [slots EXCEPT ![ArrayOf(h.type)][h.id].obj.tag = tag], UNCHANGED free
  PROVE  /\ SlotsOK' /\ TagOf(h)' = tag
         /\ \A g \in Handle : Known(g) =>
              /\ Known(g)' /\ (Valid(g)' <=> Valid(g))
              /\ Valid(g) /\ g # h => SlotOf(g)' = SlotOf(g)
         /\ \A b \in Array : /\ Len(slots'[b]) = Len(slots[b]) /\ DOMAIN slots'[b] = DOMAIN slots[b]
                            /\ \A id \in DOMAIN slots[b] :
                                 /\ slots'[b][id].version = slots[b][id].version
                                 /\ slots'[b][id].obj = NoObject <=> slots[b][id].obj = NoObject
<1> DEFINE a == ArrayOf(h.type)
           new == [obj |-> [type |-> SlotOf(h).obj.type, tag |-> tag], version |-> h.version]
<1>1. /\ a \in Array /\ h.id \in DOMAIN slots[a] /\ SlotOf(h) = slots[a][h.id]
      /\ SlotOf(h) \in Slot /\ SlotOf(h).obj \in Object /\ h.version < MaxVersion
      /\ SlotOf(h).version = h.version /\ SlotOf(h).obj # NoObject
  BY ValidVersion DEF Valid
<1>2. h.version \in 0 .. MaxVersion /\ h.id \in Nat \ {0}
  BY Arrays
<1>3. [SlotOf(h) EXCEPT !.obj.tag = tag] = new
  BY <1>1 DEF Slot, Object
<1>4. new.obj \in Object /\ new \in Slot /\ new.version = h.version
      /\ new.obj.type = SlotOf(h).obj.type /\ new.obj.tag = tag
  BY <1>1, <1>2, SMTT(40) DEF Slot, Object
<1>5. slots' = [slots EXCEPT ![a][h.id] = new]
  BY <1>1, <1>3
<1>6. new.obj # NoObject
  BY <1>4, NoObjectAssumption
<1> HIDE DEF new
<1>7. /\ slots' \in [Array -> Seq(Slot)]
      /\ \A b \in Array : Len(slots'[b]) = Len(slots[b]) /\ DOMAIN slots'[b] = DOMAIN slots[b]
      /\ \A b \in Array : \A id \in DOMAIN slots[b] :
           slots'[b][id] = IF b = a /\ id = h.id THEN new ELSE slots[b][id]
  BY <1>4, <1>5, SlotChange, ZenonT(60)
<1>8. \A b \in Array : \A id \in DOMAIN slots[b] :
        /\ slots'[b][id].version = slots[b][id].version
        /\ slots'[b][id].obj = NoObject <=> slots[b][id].obj = NoObject
        /\ slots'[b][id].obj # NoObject => slots'[b][id].obj.type = slots[b][id].obj.type
  BY <1>1, <1>4, <1>6, <1>7
<1>9. SlotsExact'
  <2> SUFFICES ASSUME NEW b \in Array
               PROVE  /\ \A i, j \in DOMAIN free[b] : free[b][i] = free[b][j] => i = j
                      /\ ToSet(free[b]) = {id \in DOMAIN slots'[b] :
                           slots'[b][id].obj = NoObject /\ slots'[b][id].version < MaxVersion}
                      /\ \A id \in DOMAIN slots'[b] :
                           slots'[b][id].obj # NoObject => slots'[b][id].version < MaxVersion
    BY DEF SlotsExact
  <2>1. /\ \A i, j \in DOMAIN free[b] : free[b][i] = free[b][j] => i = j
        /\ ToSet(free[b]) = {id \in DOMAIN slots[b] :
             slots[b][id].obj = NoObject /\ slots[b][id].version < MaxVersion}
        /\ \A id \in DOMAIN slots[b] :
             slots[b][id].obj # NoObject => slots[b][id].version < MaxVersion
    BY DEF SlotsOK, SlotsExact
  <2> QED
    BY <1>7, <1>8, <2>1, ZenonT(60)
<1>10. SlotOf(h)' = new
  BY <1>1, <1>7 DEF SlotOf
<1>11. TagOf(h)' = tag
  BY <1>4, <1>10 DEF TagOf
<1>12. ASSUME NEW g \in Handle, Known(g)
       PROVE  /\ Known(g)' /\ (Valid(g)' <=> Valid(g))
              /\ Valid(g) /\ g # h => SlotOf(g)' = SlotOf(g)
  <2> DEFINE b == ArrayOf(g.type)
  <2>1. b \in Array /\ g.id \in Nat \ {0} /\ g.version \in 0 .. MaxVersion
    BY Arrays
  <2>2. g.id \in DOMAIN slots[b] /\ Len(slots'[b]) = Len(slots[b]) /\ SlotOf(g) = slots[b][g.id]
        /\ SlotOf(g)' = slots'[b][g.id] /\ g.id <= Len(slots'[b])
    <3>1. g.id <= Len(slots[b]) /\ Len(slots[b]) \in Nat /\ DOMAIN slots[b] = 1 .. Len(slots[b])
      BY <1>12, <2>1, SlotTypes, SMTT(40) DEF Known
    <3> QED
      BY <1>7, <2>1, <3>1 DEF SlotOf
  <2>a. /\ SlotOf(g)'.version = SlotOf(g).version
        /\ SlotOf(g)'.obj = NoObject <=> SlotOf(g).obj = NoObject
        /\ SlotOf(g)'.obj # NoObject => SlotOf(g)'.obj.type = SlotOf(g).obj.type
    BY <1>8, <2>1, <2>2
  <2>b. g.id <= Len(slots[b])
    BY <1>12, SMTT(40) DEF Known
  <2>c. g.id <= Len(slots'[b])
    BY <2>2
  <2>3. Known(g)' /\ (Valid(g)' <=> Valid(g))
    <3>1. Known(g)'
      BY <1>12, <2>a, <2>c, SMTT(60) DEF Known
    <3>2. Valid(g)' <=> Valid(g)
      BY <2>a, <2>b, <2>c, SMTT(60) DEF Valid
    <3> QED
      BY <3>1, <3>2
  <2>4. ASSUME Valid(g), g # h PROVE SlotOf(g)' = SlotOf(g)
    <3>1. CASE b = a /\ g.id = h.id
      <4>1. SlotOf(g) = SlotOf(h)
        BY <1>1, <2>2, <3>1
      <4>2. g.version = h.version
        BY <1>1, <2>4, <4>1 DEF Valid
      <4>3. g.type = SlotOf(g).obj.type /\ h.type = SlotOf(h).obj.type
        BY <1>1, <1>2, <1>12, <2>1, <4>1, <4>2 DEF Known
      <4> QED
        BY <2>4, <3>1, <4>1, <4>2, <4>3 DEF Handle
    <3>2. CASE ~(b = a /\ g.id = h.id)
      BY <1>7, <2>1, <2>2, <3>2
    <3> QED
      BY <3>1, <3>2
  <2> QED
    BY <2>3, <2>4
<1> QED
  BY <1>7, <1>8, <1>9, <1>11, <1>12 DEF SlotsOK

(***************************************************************************)
(* The tag index                                                           *)
(***************************************************************************)
LEMMA RemoveAtFacts ==
  ASSUME NEW S, NEW s \in Seq(S), NEW n \in 1 .. Len(s)
  PROVE  LET r == RemoveAt(s, n)
         IN  /\ r \in Seq(S) /\ Len(r) = Len(s) - 1
             /\ \A i \in 1 .. Len(s) - 1 : r[i] = IF i < n THEN s[i] ELSE s[i + 1]
<1> DEFINE left == SubSeq(s, 1, n - 1)
           right == SubSeq(s, n + 1, Len(s))
<1>1. Len(s) \in Nat /\ n \in Nat /\ 1 <= n /\ n <= Len(s) /\ \A i \in 1 .. Len(s) : s[i] \in S
  OBVIOUS
<1>2. left \in Seq(S) /\ Len(left) = n - 1 /\ \A i \in 1 .. n - 1 : left[i] = s[i]
  <2>1. \A i \in 1 .. n - 1 : s[i] \in S
    BY <1>1
  <2> QED
    BY <1>1, <2>1, SubSeqProperties
<1>3. right \in Seq(S) /\ Len(right) = Len(s) - n /\ \A i \in 1 .. Len(s) - n : right[i] = s[n + i]
  <2>1. \A i \in n + 1 .. Len(s) : s[i] \in S
    BY <1>1
  <2>2. /\ right \in Seq(S) /\ Len(right) = IF n + 1 <= Len(s) THEN Len(s) - (n + 1) + 1 ELSE 0
        /\ \A i \in 1 .. Len(s) - (n + 1) + 1 : right[i] = s[n + 1 + i - 1]
    BY <1>1, <2>1, SubSeqProperties
  <2> QED
    BY <1>1, <2>2
<1> HIDE DEF left, right
<1>4. /\ left \o right \in Seq(S) /\ Len(left \o right) = Len(s) - 1
      /\ \A i \in 1 .. Len(s) - 1 : (left \o right)[i] = IF i <= n - 1 THEN left[i] ELSE right[i - (n - 1)]
  BY <1>1, <1>2, <1>3, ConcatProperties
<1>5. ASSUME NEW i \in 1 .. Len(s) - 1
      PROVE  (left \o right)[i] = IF i < n THEN s[i] ELSE s[i + 1]
  <2>1. CASE i < n
    BY <1>1, <1>2, <1>4, <2>1
  <2>2. CASE ~(i < n)
    <3>1. (left \o right)[i] = right[i - (n - 1)] /\ i - (n - 1) \in 1 .. Len(s) - n
      BY <1>1, <1>4, <2>2
    <3>2. right[i - (n - 1)] = s[n + (i - (n - 1))] /\ n + (i - (n - 1)) = i + 1
      BY <1>1, <1>3, <3>1
    <3> QED
      BY <2>2, <3>1, <3>2
  <2> QED
    BY <2>1, <2>2
<1> QED
  BY <1>4, <1>5 DEF RemoveAt, left, right

LEMMA TagsOfExact ==
  ASSUME TagsOK
  PROVE  TagsExact
<1>1. \A t \in Tag : \A i \in DOMAIN byTag[t] : byTag[t][i] \in Handle /\ Under(byTag[t][i], t)
  BY DEF TagsOK, Under
<1> QED
  BY <1>1 DEF TagsOK, TagsExact, TagOf

LEMMA TagsKept ==
  ASSUME TagsOK, UNCHANGED byTag,
         \A g \in Handle : Known(g) /\ Listed(g) /\ Valid(g) => Known(g)' /\ Valid(g)' /\ TagOf(g)' = TagOf(g)
  PROVE  TagsOK' /\ \A g : Listed(g)' <=> Listed(g)
<1>1. \A g : Listed(g)' <=> Listed(g)
  BY DEF Listed, Under
<1>2. ASSUME NEW t \in Tag, NEW h \in Handle, Under(h, t)'
      PROVE  Known(h)' /\ Valid(h)' /\ TagOf(h)' = t
  <2>1. Under(h, t)
    BY <1>2 DEF Under
  <2>2. Known(h) /\ Listed(h) /\ Valid(h) /\ TagOf(h) = t
    BY <2>1 DEF TagsOK, Listed
  <2> QED
    BY <2>2
<1>3. byTag' \in [Tag -> Seq(Handle)]
      /\ \A t \in Tag : \A i, j \in DOMAIN byTag'[t] : byTag'[t][i] = byTag'[t][j] => i = j
  BY DEF TagsOK
<1> QED
  BY <1>1, <1>2, <1>3 DEF TagsOK

(* destroy takes the object out of the index, and no other. *)
LEMMA EraseFacts ==
  ASSUME TagsOK, NEW h \in Handle, TagOf(h) \in Tag \cup {NoTag}, UNCHANGED slots, byTag' = Erase(TagOf(h), h)
  PROVE  /\ TagsOK' /\ ~Listed(h)'
         /\ \A t \in Tag : \A g : /\ Under(g, t)' => Under(g, t)
                                  /\ Under(g, t) => Under(g, t)' \/ g = h
<1>1. byTag \in [Tag -> Seq(Handle)]
  BY DEF TagsOK
<1>2. \A g : (Known(g)' <=> Known(g)) /\ (Valid(g)' <=> Valid(g)) /\ TagOf(g)' = TagOf(g)
  BY DEF Known, Valid, SlotOf, TagOf
<1>3. \A t \in Tag : Under(h, t) => TagOf(h) = t
  BY DEF TagsOK
<1>4. CASE ~\E t \in Tag : t = TagOf(h) /\ Under(h, t)
  <2>1. byTag' = byTag
    <3>1. CASE TagOf(h) = NoTag
      BY <3>1 DEF Erase
    <3>2. CASE TagOf(h) \in Tag
      <4>1. ~Under(h, TagOf(h))
        BY <1>4, <3>2
      <4> QED
        BY <4>1 DEF Erase, Under
    <3> QED
      BY <3>1, <3>2
  <2> QED
    BY <1>2, <1>3, <1>4, <2>1, TagsKept DEF Listed, Under
<1>5. CASE \E t \in Tag : t = TagOf(h) /\ Under(h, t)
  <2>1. PICK t \in Tag : t = TagOf(h) /\ Under(h, t)
    BY <1>5
  <2>2. t # NoTag
    BY ObjectAssumption
  <2> DEFINE s == byTag[t]
             n == CHOOSE i \in DOMAIN s : s[i] = h
             r == RemoveAt(s, n)
  <2>3. n \in DOMAIN s /\ s[n] = h
    BY <2>1 DEF Under
  <2>4. s \in Seq(Handle) /\ Len(s) \in Nat /\ DOMAIN s = 1 .. Len(s)
    BY <1>1
  <2>5. byTag' = [byTag EXCEPT ![t] = r]
    BY <1>1, <2>1, <2>2 DEF Erase, Under
  <2> HIDE DEF n
  <2>6. /\ r \in Seq(Handle) /\ Len(r) = Len(s) - 1
        /\ \A i \in 1 .. Len(s) - 1 : r[i] = IF i < n THEN s[i] ELSE s[i + 1]
    BY <2>3, <2>4, RemoveAtFacts
  <2>12. \A i, j \in DOMAIN s : s[i] = s[j] => i = j
    BY DEF TagsOK
  <2> HIDE DEF r
  <2>11. byTag'[t] = r /\ byTag' \in [Tag -> Seq(Handle)] /\ \A u \in Tag : u # t => byTag'[u] = byTag[u]
    BY <1>1, <2>5, <2>6
  <2>s. s = byTag[t]
    OBVIOUS
  <2> HIDE DEF s
  <2>7. DOMAIN r = 1 .. Len(s) - 1
    BY <2>4, <2>6
  <2> DEFINE at(i) == IF i < n THEN i ELSE i + 1
  <2>8. ASSUME NEW i \in DOMAIN r
        PROVE  at(i) \in DOMAIN s /\ at(i) # n /\ r[i] = s[at(i)]
    BY <2>3, <2>4, <2>6, <2>7
  <2>9. ASSUME NEW i \in DOMAIN r, NEW j \in DOMAIN r, at(i) = at(j) PROVE i = j
    BY <2>3, <2>4, <2>7, <2>9
  <2>10. ASSUME NEW i \in DOMAIN s, i # n PROVE \E j \in DOMAIN r : r[j] = s[i]
    <3>1. CASE i < n
      <4>1. i \in 1 .. Len(s) - 1
        BY <2>3, <2>4, <3>1
      <4> QED
        BY <2>6, <2>7, <3>1, <4>1
    <3>2. CASE ~(i < n)
      <4>1. i - 1 \in 1 .. Len(s) - 1 /\ ~(i - 1 < n) /\ i - 1 + 1 = i
        BY <2>3, <2>4, <2>10, <3>2
      <4> QED
        BY <2>6, <2>7, <4>1
    <3> QED
      BY <3>1, <3>2
  <2> HIDE DEF at
  <2>13. \A i, j \in DOMAIN r : r[i] = r[j] => i = j
    BY <2>8, <2>9, <2>12
  <2>14. \A i \in DOMAIN r : r[i] # h /\ \E j \in DOMAIN s : s[j] = r[i]
    BY <2>3, <2>8, <2>12
  <2>15. \A g : (Under(g, t)' => Under(g, t) /\ g # h) /\ (Under(g, t) => Under(g, t)' \/ g = h)
    BY <2>3, <2>10, <2>11, <2>14, <2>s DEF Under
  <2>16. \A u \in Tag : u # t => \A g : Under(g, u)' <=> Under(g, u)
    BY <2>11 DEF Under
  <2>17. ASSUME NEW u \in Tag PROVE \A i, j \in DOMAIN byTag'[u] : byTag'[u][i] = byTag'[u][j] => i = j
    <3>1. CASE u = t
      BY <2>11, <2>13, <3>1
    <3>2. CASE u # t
      <4>1. byTag'[u] = byTag[u]
        BY <2>11, <3>2
      <4> QED
        BY <4>1 DEF TagsOK
    <3> QED
      BY <3>1, <3>2
  <2>18. ~Listed(h)'
    <3>1. \A u \in Tag : ~Under(h, u)'
      BY <1>3, <2>1, <2>15, <2>16
    <3> QED
      BY <3>1 DEF Listed
  <2>19. ASSUME NEW u \in Tag, NEW g \in Handle, Under(g, u)'
         PROVE  Known(g)' /\ Valid(g)' /\ TagOf(g)' = u
    BY <1>2, <2>15, <2>16, <2>19 DEF TagsOK
  <2>20. TagsOK'
    BY <2>11, <2>17, <2>19 DEF TagsOK
  <2> QED
    BY <2>15, <2>16, <2>18, <2>20
<1> QED
  BY <1>4, <1>5

(* load and load_instance put an object in the index, once. *)
LEMMA InsertFacts ==
  ASSUME TagsOK, NEW h \in Handle, Known(h)', Valid(h)', ~Listed(h),
         NEW tag \in Tag \cup {NoTag}, TagOf(h)' = tag, byTag' = Insert(tag, h),
         \A g \in Handle : Known(g) /\ Listed(g) /\ Valid(g) => Known(g)' /\ Valid(g)' /\ TagOf(g)' = TagOf(g)
  PROVE  /\ TagsOK'
         /\ \A t \in Tag : \A g : (Under(g, t)' => Under(g, t) \/ g = h) /\ (Under(g, t) => Under(g, t)')
         /\ tag \in Tag => Under(h, tag)'
<1>1. CASE tag = NoTag
  <2>1. byTag' = byTag
    BY <1>1 DEF Insert
  <2> QED
    BY <1>1, <2>1, TagsKept, ObjectAssumption DEF Under
<1>2. CASE tag # NoTag
  <2>1. tag \in Tag /\ byTag' = [byTag EXCEPT ![tag] = Append(@, h)]
    BY <1>2 DEF Insert
  <2>2. byTag \in [Tag -> Seq(Handle)]
    BY DEF TagsOK
  <2> DEFINE s == byTag[tag]
             r == Append(s, h)
  <2>3. s \in Seq(Handle) /\ Len(s) \in Nat /\ DOMAIN s = 1 .. Len(s)
    BY <2>1, <2>2
  <2>4. r \in Seq(Handle) /\ DOMAIN r = 1 .. Len(s) + 1 /\ r[Len(s) + 1] = h
        /\ \A i \in DOMAIN s : i \in DOMAIN r /\ r[i] = s[i]
    BY <2>3
  <2>5. \A i \in DOMAIN r : i \in DOMAIN s \/ i = Len(s) + 1
    BY <2>3, <2>4
  <2>6. Len(s) + 1 \in DOMAIN r
    BY <2>3, <2>4
  <2>7. byTag' = [byTag EXCEPT ![tag] = r]
    BY <2>1
  <2> HIDE DEF r
  <2>8. byTag'[tag] = r /\ byTag' \in [Tag -> Seq(Handle)] /\ \A u \in Tag : u # tag => byTag'[u] = byTag[u]
    BY <2>1, <2>2, <2>4, <2>7
  <2>9. \A i \in DOMAIN s : s[i] # h
    BY <2>1 DEF Listed, Under
  <2>10. \A i, j \in DOMAIN s : s[i] = s[j] => i = j
    BY <2>1 DEF TagsOK
  <2>11. \A g : Under(g, tag)' <=> Under(g, tag) \/ g = h
    <3>1. \A g : Under(g, tag)' <=> \E i \in DOMAIN r : r[i] = g
      BY <2>8 DEF Under
    <3>2. \A g : Under(g, tag) <=> \E i \in DOMAIN s : s[i] = g
      BY DEF Under
    <3> HIDE DEF s
    <3> QED
      BY <2>4, <2>5, <2>6, <3>1, <3>2
  <2>12. \A u \in Tag : u # tag => \A g : Under(g, u)' <=> Under(g, u)
    BY <2>8 DEF Under
  <2>13. \A i, j \in DOMAIN r : r[i] = r[j] => i = j
    <3> HIDE DEF s
    <3> QED
      BY <2>4, <2>5, <2>9, <2>10
  <2>14. ASSUME NEW u \in Tag PROVE \A i, j \in DOMAIN byTag'[u] : byTag'[u][i] = byTag'[u][j] => i = j
    <3>1. CASE u = tag
      BY <2>8, <2>13, <3>1
    <3>2. CASE u # tag
      <4>1. byTag'[u] = byTag[u]
        BY <2>8, <3>2
      <4> QED
        BY <4>1 DEF TagsOK
    <3> QED
      BY <3>1, <3>2
  <2>15. ASSUME NEW u \in Tag, NEW g \in Handle, Under(g, u)'
         PROVE  Known(g)' /\ Valid(g)' /\ TagOf(g)' = u
    <3>1. CASE Under(g, u)
      <4>1. Known(g) /\ Listed(g) /\ Valid(g) /\ TagOf(g) = u
        BY <3>1 DEF TagsOK, Listed
      <4> QED
        BY <4>1
    <3>2. CASE ~Under(g, u)
      BY <2>11, <2>12, <2>15, <3>2
    <3> QED
      BY <3>1, <3>2
  <2>16. TagsOK'
    BY <2>8, <2>14, <2>15 DEF TagsOK
  <2> QED
    BY <2>11, <2>12, <2>16
<1> QED
  BY <1>1, <1>2

(***************************************************************************)
(* The inventories and the calls                                           *)
(***************************************************************************)
LEMMA ContentsKept ==
  ASSUME ContentsOK, contents' \subseteq contents, \A g \in Handle : Known(g) => Known(g)'
  PROVE  ContentsOK'
<1>1. ASSUME NEW p \in contents' PROVE p \in Handle \X Handle /\ Known(p[1])' /\ Known(p[2])'
  <2>1. p \in contents /\ p[1] \in Handle /\ p[2] \in Handle /\ Known(p[1]) /\ Known(p[2])
        /\ p \in Handle \X Handle
    BY DEF ContentsOK
  <2> QED
    BY <2>1
<1> QED
  BY <1>1 DEF ContentsOK

LEMMA CallFacts ==
  ASSUME NEW c \in Calls
  PROVE  /\ c.obj \in Handle /\ c.items \subseteq Handle
         /\ c.op \in {"load", "instance", "destroy"}
         /\ c.op # "destroy" => c.items = {} /\ c.step \in {"reading", "instantiating"}
         /\ c.op = "destroy" => c.step \in {"effects", "components", "destructor"}
BY DEF Calls

LEMMA CallKept ==
  ASSUME NEW c \in Calls, CallOK(c), \A g \in Handle : Known(g) => Known(g)',
         c.op # "destroy" \/ c.step = "effects" => Valid(c.obj)',
         c.op # "destroy" => \A p \in contents' : p \in contents \/ p[2] # c.obj,
         Listed(c.obj)' => Listed(c.obj)
  PROVE  CallOK(c)'
<1>1. c.obj \in Handle /\ c.items \subseteq Handle
  BY CallFacts
<1> QED
  BY <1>1 DEF CallOK

(* The last call is another one, or was pushed: the others are as before. *)
LEMMA CallsTopped ==
  ASSUME CallsOK, NEW n \in Nat \ {0}, NEW c \in Calls, CallOK(c)',
         calls' \in Seq(Calls), Len(calls') = n, calls'[n] = c,
         \A k \in 1 .. n - 1 : /\ k \in DOMAIN calls /\ calls'[k] = calls[k]
                               /\ calls[k].step # "effects"
                               /\ calls[k].op # "destroy" => /\ c.obj # calls[k].obj
                                                             /\ calls[k].obj \notin c.items
                               /\ c.op # "destroy" => c.obj # calls[k].obj /\ c.obj \notin calls[k].items,
         \A d \in Calls : (\E k \in 1 .. n - 1 : calls[k] = d) => CallOK(d)'
  PROVE  CallsOK'
<1>1. DOMAIN calls' = 1 .. n /\ \A k \in DOMAIN calls' : k \in 1 .. n - 1 \/ k = n
  OBVIOUS
<1>2. ASSUME NEW d \in Calls, Called(d)' PROVE CallOK(d)'
  <2>1. PICK k \in DOMAIN calls' : calls'[k] = d
    BY <1>2 DEF Called
  <2>2. CASE k = n
    BY <2>1, <2>2
  <2>3. CASE k \in 1 .. n - 1
    BY <2>1, <2>3
  <2> QED
    BY <1>1, <2>2, <2>3
<1>3. c.op # "destroy" => c.items = {}
  BY CallFacts
<1>4. LoadsApart'
  <2> SUFFICES ASSUME NEW k \in DOMAIN calls', NEW j \in DOMAIN calls', calls'[k].op # "destroy"
               PROVE  /\ j # k => calls'[j].obj # calls'[k].obj
                      /\ calls'[k].obj \notin calls'[j].items
    BY DEF LoadsApart
  <2>1. CASE k = n /\ j = n
    BY <1>3, <2>1
  <2>2. CASE k = n /\ j \in 1 .. n - 1
    BY <2>2
  <2>3. CASE k \in 1 .. n - 1 /\ j = n
    BY <2>3
  <2>4. CASE k \in 1 .. n - 1 /\ j \in 1 .. n - 1
    BY <2>4 DEF CallsOK, LoadsApart
  <2> QED
    BY <1>1, <2>1, <2>2, <2>3, <2>4
<1>5. EffectsLast'
  BY <1>1 DEF EffectsLast
<1> QED
  BY <1>2, <1>4, <1>5 DEF CallsOK

(* The calls stay, or the last of them returns. *)
LEMMA CallsStay ==
  ASSUME CallsOK, calls' = calls \/ (calls # << >> /\ calls' = Front(calls)),
         \A d \in Calls : (\E k \in DOMAIN calls' : k \in DOMAIN calls /\ calls[k] = d) => CallOK(d)'
  PROVE  CallsOK'
<1>1. /\ calls' \in Seq(Calls)
      /\ \A k \in DOMAIN calls' : k \in DOMAIN calls /\ calls'[k] = calls[k]
      /\ calls' # calls => \A k \in DOMAIN calls' : k # Len(calls)
  <2>1. CASE calls' = calls
    BY <2>1 DEF CallsOK
  <2>2. CASE calls # << >> /\ calls' = Front(calls)
    <3>1. calls \in Seq(Calls) /\ Len(calls) \in Nat \ {0} /\ \A i \in 1 .. Len(calls) - 1 : calls[i] \in Calls
      BY <2>2 DEF CallsOK
    <3>2. calls' = SubSeq(calls, 1, Len(calls) - 1)
      BY <2>2 DEF Front
    <3>3. PICK n \in Nat : n = Len(calls) - 1
      BY <3>1
    <3>4. \A i \in 1 .. n : calls[i] \in Calls
      BY <3>1, <3>3
    <3>5. /\ SubSeq(calls, 1, n) \in Seq(Calls) /\ Len(SubSeq(calls, 1, n)) = IF 1 <= n THEN n - 1 + 1 ELSE 0
          /\ \A i \in 1 .. n - 1 + 1 : SubSeq(calls, 1, n)[i] = calls[1 + i - 1]
      BY <3>4, SubSeqProperties
    <3>6. /\ calls' \in Seq(Calls) /\ Len(calls') = n
          /\ \A i \in 1 .. n : calls'[i] = calls[i]
      BY <3>2, <3>3, <3>5
    <3> QED
      BY <3>1, <3>3, <3>6
  <2> QED
    BY <2>1, <2>2
<1>2. \A d \in Calls : Called(d)' => CallOK(d)'
  BY <1>1 DEF Called
<1>3. LoadsApart'
  BY <1>1 DEF CallsOK, LoadsApart
<1>4. EffectsLast'
  BY <1>1, SMTT(40) DEF CallsOK, EffectsLast
<1> QED
  BY <1>1, <1>2, <1>3, <1>4 DEF CallsOK

(***************************************************************************)
(* The actions preserve the invariant                                      *)
(***************************************************************************)
LEMMA LastCall ==
  ASSUME CallsOK, ~FromHost
  PROVE  LET n == Len(calls)
         IN  /\ n \in Nat \ {0} /\ n \in DOMAIN calls /\ DOMAIN calls = 1 .. n /\ Top = calls[n]
             /\ Top \in Calls /\ CallOK(Top)
             /\ \A k \in 1 .. n - 1 : k \in DOMAIN calls /\ calls[k] \in Calls /\ CallOK(calls[k]) /\ calls[k].step # "effects"
<1>1. calls \in Seq(Calls) /\ Len(calls) \in Nat \ {0} /\ DOMAIN calls = 1 .. Len(calls)
  BY DEF CallsOK, FromHost
<1>2. \A k \in DOMAIN calls : calls[k] \in Calls /\ CallOK(calls[k])
  BY <1>1, SMTT(40) DEF CallsOK, Called
<1>a. PICK n \in Nat \ {0} : n = Len(calls)
  BY <1>1
<1>b. DOMAIN calls = 1 .. n
  BY <1>1, <1>a
<1>c. n \in 1 .. n /\ \A k \in 1 .. n - 1 : k \in 1 .. n /\ k # n
  OBVIOUS
<1>3. Len(calls) \in DOMAIN calls /\ \A k \in 1 .. Len(calls) - 1 : k \in DOMAIN calls /\ k # Len(calls)
  BY <1>a, <1>b, <1>c
<1>4. \A k \in 1 .. Len(calls) - 1 : calls[k].step # "effects"
  BY <1>3 DEF CallsOK, EffectsLast
<1>5. Top = calls[Len(calls)]
  BY DEF Top
<1>6. Top \in Calls /\ CallOK(Top)
  BY <1>2, <1>3, <1>5
<1> QED
  BY <1>1, <1>2, <1>3, <1>4, <1>5, <1>6

LEMMA ListedFacts ==
  ASSUME TagsOK, NEW g \in Handle, Listed(g)
  PROVE  Known(g) /\ Valid(g)
BY DEF TagsOK, Listed

LEMMA SameSlots ==
  ASSUME UNCHANGED slots
  PROVE  \A g : (Known(g)' <=> Known(g)) /\ (Valid(g)' <=> Valid(g)) /\ SlotOf(g)' = SlotOf(g) /\ TagOf(g)' = TagOf(g)
BY DEF Known, Valid, SlotOf, TagOf

LEMMA SameSlotsOK ==
  ASSUME SlotsOK, UNCHANGED <<slots, free>>
  PROVE  SlotsOK'
BY DEF SlotsOK, SlotsExact

(* The three ways to begin a destroy: of a valid object that nobody loads *)
Begins(h, outer) ==
  /\ Known(h) /\ Valid(h)
  /\ \A k \in DOMAIN outer : /\ k \in DOMAIN calls /\ outer[k] = calls[k] /\ calls[k].step # "effects"
                             /\ calls[k].op # "destroy" => calls[k].obj # h
  /\ Begin(h, outer)

LEMMA BeginsKeeps ==
  ASSUME IInv, NEW h \in Handle, NEW outer \in Seq(Calls), Begins(h, outer)
  PROVE  IInv'
<1> USE DEF Begins
<1> DEFINE c == Call("destroy", h, "effects", {})
<1>1. c \in Calls /\ c.op = "destroy" /\ c.obj = h /\ c.step = "effects" /\ c.items = {}
  BY DEF Calls, Call
<1>2. byTag' = Erase(TagOf(h), h) /\ calls' = Append(outer, c) /\ UNCHANGED <<slots, free, contents>>
  BY DEF Begin, TagOf
<1>3. TagOf(h) \in Tag \cup {NoTag}
  <2>1. SlotOf(h).obj \in Object
    BY ValidVersion DEF IInv
  <2> QED
    BY <2>1 DEF TagOf, Object
<1> HIDE DEF c
<1>4. /\ TagsOK' /\ ~Listed(h)' /\ \A g : Listed(g)' => Listed(g)
  BY <1>2, <1>3, EraseFacts DEF IInv, Listed
<1>5. \A g : (Known(g)' <=> Known(g)) /\ (Valid(g)' <=> Valid(g))
  BY <1>2, SameSlots
<1>6. SlotsOK'
  BY <1>2, SameSlotsOK DEF IInv
<1>7. ContentsOK'
  BY <1>2, <1>5, ContentsKept DEF IInv
<1>8. CallOK(c)'
  BY <1>1, <1>4, <1>5 DEF CallOK
<1>9. PICK n \in Nat \ {0} : n = Len(outer) + 1
  OBVIOUS
<1>10. /\ calls' \in Seq(Calls) /\ Len(calls') = n /\ calls'[n] = c
       /\ \A k \in 1 .. n - 1 : k \in DOMAIN outer /\ calls'[k] = outer[k]
  BY <1>1, <1>2, <1>9
<1>11. ASSUME NEW d \in Calls, NEW k \in 1 .. n - 1, calls[k] = d PROVE CallOK(d)'
  <2>1. Called(d) /\ CallOK(d)
    BY <1>10, <1>11 DEF IInv, CallsOK, Called
  <2>2. d.op # "destroy" \/ d.step = "effects" => Valid(d.obj)'
    BY <1>5, <2>1 DEF CallOK
  <2> QED
    BY <1>2, <1>4, <1>5, <2>1, <2>2, CallKept
<1>12. CallsOK'
  BY <1>1, <1>8, <1>10, <1>11, CallsTopped DEF IInv
<1> QED
  BY <1>4, <1>6, <1>7, <1>12 DEF IInv

LEMMA DestroyBegins ==
  ASSUME IInv, Destroy
  PROVE  \E h \in Handle, outer \in Seq(Calls) : Begins(h, outer)
<1>1. PICK h \in [id : 1 .. MaxSlots, type : Type, version : 0 .. MaxVersion] :
        FromHost /\ Valid(h) /\ SlotOf(h).obj.type = h.type /\ Begin(h, calls)
  <2>1. PICK type \in Type, id \in 1 .. MaxSlots, version \in 0 .. MaxVersion :
          LET h == [id |-> id, type |-> type, version |-> version]
          IN  Valid(h) /\ SlotOf(h).obj.type = type /\ Begin(h, calls)
    BY DEF Destroy
  <2> DEFINE h == [id |-> id, type |-> type, version |-> version]
  <2>2. h \in [id : 1 .. MaxSlots, type : Type, version : 0 .. MaxVersion] /\ h.type = type
    OBVIOUS
  <2> QED
    BY <2>1, <2>2 DEF Destroy
<1>2. h \in Handle
  BY <1>1, ObjectAssumption DEF Handle
<1>3. Known(h)
  BY <1>1 DEF Valid, Known
<1>4. calls \in Seq(Calls) /\ DOMAIN calls = {}
  BY <1>1 DEF FromHost, IInv, CallsOK
<1> QED
  BY <1>1, <1>2, <1>3, <1>4 DEF Begins

LEMMA FrontOf ==
  ASSUME NEW S, NEW s \in Seq(S), s # << >>
  PROVE  /\ Front(s) \in Seq(S) /\ Len(Front(s)) = Len(s) - 1
         /\ DOMAIN Front(s) = 1 .. Len(s) - 1
         /\ \A k \in 1 .. Len(s) - 1 : Front(s)[k] = s[k]
<1>1. PICK n \in Nat : n = Len(s) - 1
  OBVIOUS
<1>2. \A i \in 1 .. n : s[i] \in S
  BY <1>1
<1>3. /\ SubSeq(s, 1, n) \in Seq(S) /\ Len(SubSeq(s, 1, n)) = IF 1 <= n THEN n - 1 + 1 ELSE 0
      /\ \A i \in 1 .. n - 1 + 1 : SubSeq(s, 1, n)[i] = s[1 + i - 1]
  BY <1>2, SubSeqProperties
<1>4. Front(s) = SubSeq(s, 1, n)
  BY <1>1, SMTT(40) DEF Front
<1> QED
  BY <1>1, <1>3, <1>4

LEMMA FrontFacts ==
  ASSUME CallsOK, ~FromHost
  PROVE  /\ Front(calls) \in Seq(Calls) /\ Len(Front(calls)) = Len(calls) - 1
         /\ DOMAIN Front(calls) = 1 .. Len(calls) - 1
         /\ \A k \in 1 .. Len(calls) - 1 : Front(calls)[k] = calls[k]
<1>1. calls \in Seq(Calls) /\ calls # << >>
  BY SMTT(40) DEF CallsOK, FromHost
<1> QED
  BY <1>1, FrontOf

LEMMA LoadFailsBegins ==
  ASSUME IInv, LoadFails
  PROVE  \E h \in Handle, outer \in Seq(Calls) : Begins(h, outer)
<1> DEFINE n == Len(calls)
<1>1. CallsOK /\ ~FromHost /\ Top.op # "destroy" /\ Begin(Top.obj, Front(calls))
  BY DEF IInv, LoadFails
<1>2. /\ n \in Nat \ {0} /\ n \in DOMAIN calls /\ DOMAIN calls = 1 .. n /\ Top = calls[n]
      /\ Top \in Calls /\ CallOK(Top)
      /\ \A k \in 1 .. n - 1 : k \in DOMAIN calls /\ calls[k].step # "effects"
  BY <1>1, LastCall
<1>3. Front(calls) \in Seq(Calls) /\ DOMAIN Front(calls) = 1 .. n - 1
      /\ \A k \in 1 .. n - 1 : Front(calls)[k] = calls[k]
  BY <1>1, FrontFacts
<1>4. Top.obj \in Handle /\ Known(Top.obj) /\ Valid(Top.obj)
  BY <1>1, <1>2, CallFacts DEF CallOK
<1>5. \A k \in 1 .. n - 1 : k # n /\ calls[k].obj # Top.obj
  <2>1. LoadsApart
    BY <1>1 DEF CallsOK
  <2> HIDE DEF n
  <2>2. \A k \in 1 .. n - 1 : k # n
    BY <1>2
  <2> QED
    BY <1>1, <1>2, <2>1, <2>2 DEF LoadsApart
<1> QED
  BY <1>1, <1>2, <1>3, <1>4, <1>5 DEF Begins

LEMMA DestroyItemBegins ==
  ASSUME IInv, DestroyItem
  PROVE  \E h \in Handle, outer \in Seq(Calls) : Begins(h, outer)
<1> DEFINE n == Len(calls)
<1>1. CallsOK /\ ~FromHost /\ Top.step \in {"components", "destructor"}
  BY DEF IInv, DestroyItem, Emptying
<1>2. PICK i \in Top.items : Valid(i) /\ Begin(i, calls)
  BY DEF DestroyItem, ToCome
<1>3. /\ n \in Nat \ {0} /\ n \in DOMAIN calls /\ DOMAIN calls = 1 .. n /\ Top = calls[n]
      /\ Top \in Calls /\ CallOK(Top) /\ calls \in Seq(Calls)
      /\ \A k \in 1 .. n - 1 : k \in DOMAIN calls /\ calls[k].step # "effects"
  BY <1>1, LastCall DEF CallsOK
<1>4. i \in Handle /\ Known(i)
  BY <1>2, <1>3, CallFacts DEF CallOK
<1>5. \A k \in DOMAIN calls : k \in 1 .. n - 1 \/ k = n
  BY <1>3
<1>6. \A k \in DOMAIN calls : calls[k].step # "effects" /\ (calls[k].op # "destroy" => calls[k].obj # i)
  BY <1>1, <1>2, <1>3, <1>5 DEF CallsOK, LoadsApart
<1> QED
  BY <1>2, <1>3, <1>4, <1>6 DEF Begins

LEMMA MakeKeeps == ASSUME IInv, Make PROVE IInv'
<1>1. PICK type \in Type : Alloc(type)
  BY DEF Make
<1>2. NewHandle(type) \in Handle
  BY NewSlot DEF IInv
<1>3. PICK h \in Handle : h = NewHandle(type)
  BY <1>2
<1>4. SlotsOK' /\ \A g \in Handle : Known(g) => Known(g)' /\ (Valid(g)' <=> Valid(g)) /\ (Valid(g) => SlotOf(g)' = SlotOf(g))
  BY <1>1, <1>3, AllocFacts DEF IInv
<1>5. calls = << >> /\ UNCHANGED <<byTag, contents, calls>>
  BY DEF Make, FromHost
<1>6. TagsOK'
  BY <1>4, <1>5, TagsKept DEF IInv, TagOf
<1>7. ContentsOK'
  BY <1>4, <1>5, ContentsKept DEF IInv
<1>8. CallsOK'
  <2>1. DOMAIN calls = {}
    BY <1>5
  <2>2. \A d \in Calls : (\E k \in DOMAIN calls' : k \in DOMAIN calls /\ calls[k] = d) => CallOK(d)'
    BY <2>1
  <2>3. CallsOK /\ calls' = calls
    BY <1>5 DEF IInv
  <2> QED
    BY <2>2, <2>3, CallsStay
<1> QED
  BY <1>4, <1>6, <1>7, <1>8 DEF IInv

LEMMA LoadKeeps == ASSUME IInv, Load PROVE IInv'
<1>1. PICK type \in Type, op \in {"load", "instance"} :
        /\ ~FromHost => Nests(type) /\ op = Top.op
        /\ Alloc(type)
        /\ calls' = Append(calls, Call(op, NewHandle(type), "reading", {}))
        /\ UNCHANGED <<byTag, contents>>
  BY DEF Load
<1>2. NewHandle(type) \in Handle
  BY NewSlot DEF IInv
<1>3. PICK h \in Handle : h = NewHandle(type)
  BY <1>2
<1>4. /\ SlotsOK' /\ Known(h)' /\ Valid(h)'
      /\ \A g \in Handle : Known(g) => Known(g)' /\ (Valid(g)' <=> Valid(g)) /\ (Valid(g) => SlotOf(g)' = SlotOf(g))
  BY <1>1, <1>3, AllocFacts DEF IInv
<1>5. ~Known(h)
  BY <1>3, NewUnknown DEF IInv
<1>6. TagsOK' /\ \A g : Listed(g)' <=> Listed(g)
  BY <1>1, <1>4, TagsKept DEF IInv, TagOf
<1>7. ContentsOK'
  BY <1>1, <1>4, ContentsKept DEF IInv
<1>8. ~Listed(h)'
  BY <1>5, <1>6, ListedFacts DEF IInv
<1> DEFINE c == Call(op, h, "reading", {})
<1>9. c \in Calls /\ c.op = op /\ c.op # "destroy" /\ c.obj = h /\ c.step = "reading" /\ c.items = {}
  BY DEF Calls, Call
<1>10. calls' = Append(calls, c)
  BY <1>1, <1>3
<1> HIDE DEF c
<1>11. CallOK(c)'
  <2>1. \A p \in contents' : p[2] # h
    BY <1>1, <1>5 DEF IInv, ContentsOK
  <2> QED
    BY <1>4, <1>8, <1>9, <2>1 DEF CallOK
<1>12. calls \in Seq(Calls)
  BY DEF IInv, CallsOK
<1>13. PICK n \in Nat \ {0} : n = Len(calls) + 1
  BY <1>12
<1>14. /\ calls' \in Seq(Calls) /\ Len(calls') = n /\ calls'[n] = c
       /\ \A k \in 1 .. n - 1 : k \in DOMAIN calls /\ calls'[k] = calls[k]
  BY <1>9, <1>10, <1>12, <1>13
<1>15. ASSUME NEW k \in 1 .. n - 1
       PROVE  /\ calls[k] \in Calls /\ CallOK(calls[k]) /\ calls[k].step # "effects"
              /\ calls[k].obj # h /\ h \notin calls[k].items
  <2>1. calls[k] \in Calls /\ CallOK(calls[k])
    BY <1>12, <1>14 DEF IInv, CallsOK, Called
  <2>2. calls[k].obj # h /\ h \notin calls[k].items
    BY <1>5, <2>1 DEF CallOK
  <2>3. calls[k].step # "effects"
    <3>1. ~FromHost
      BY <1>12, <1>14 DEF FromHost
    <3>2. /\ Top = calls[Len(calls)]
          /\ Top.step # "effects"
      BY <1>1, <3>1 DEF Nests, Top
    <3> QED
      BY <1>14, <3>2 DEF IInv, CallsOK, EffectsLast
  <2> QED
    BY <2>1, <2>2, <2>3
<1>16. ASSUME NEW d \in Calls, NEW k \in 1 .. n - 1, calls[k] = d PROVE CallOK(d)'
  <2>1. CallOK(d) /\ d.obj \in Handle /\ Known(d.obj)
    BY <1>15, <1>16, CallFacts DEF CallOK
  <2>2. d.op # "destroy" \/ d.step = "effects" => Valid(d.obj)'
    BY <1>4, <2>1 DEF CallOK
  <2> QED
    BY <1>1, <1>4, <1>6, <2>1, <2>2, CallKept
<1>17. CallsOK'
  BY <1>9, <1>11, <1>14, <1>15, <1>16, CallsTopped DEF IInv
<1> QED
  BY <1>4, <1>6, <1>7, <1>17 DEF IInv

(* The last call goes to its next step. *)
LEMMA StepFacts ==
  ASSUME CallsOK, ~FromHost, NEW c \in Calls, calls' = [calls EXCEPT ![Len(calls)] = c]
  PROVE  /\ calls' \in Seq(Calls) /\ Len(calls') = Len(calls) /\ calls'[Len(calls)] = c
         /\ \A k \in 1 .. Len(calls) - 1 : k \in DOMAIN calls /\ calls'[k] = calls[k]
<1>1. calls \in Seq(Calls)
  BY DEF CallsOK
<1>2. PICK n \in Nat \ {0} : n = Len(calls)
  BY <1>1 DEF FromHost
<1>3. DOMAIN calls = 1 .. n /\ n \in 1 .. n /\ \A k \in 1 .. n - 1 : k \in 1 .. n /\ k # n
  BY <1>1, <1>2
<1> QED
  BY <1>1, <1>2, <1>3

LEMMA ReadKeeps == ASSUME IInv, Read PROVE IInv'
<1>1. SlotsOK /\ TagsOK /\ ContentsOK /\ CallsOK /\ ~FromHost /\ Top.step = "reading"
      /\ UNCHANGED <<free, contents>>
  BY SMTT(40) DEF IInv, Read
<1>2. PICK tag \in Tag \cup {NoTag} :
        /\ slots' = [slots EXCEPT ![ArrayOf(Top.obj.type)][Top.obj.id].obj.tag = tag]
        /\ byTag' = IF Top.op = "load" THEN Insert(tag, Top.obj) ELSE byTag
  BY ZenonT(60) DEF Read
<1>3. PICK n \in Nat \ {0} : n = Len(calls)
  BY <1>1, LastCall
<1>4. /\ n \in DOMAIN calls /\ DOMAIN calls = 1 .. n /\ Top = calls[n]
      /\ Top \in Calls /\ CallOK(Top)
      /\ \A k \in 1 .. n - 1 : k \in DOMAIN calls /\ calls[k] \in Calls /\ CallOK(calls[k]) /\ calls[k].step # "effects"
  BY <1>1, <1>3, LastCall
<1>5. Top.op \in {"load", "instance"} /\ Top.items = {} /\ Top.obj \in Handle
  BY <1>1, <1>4, CallFacts
<1>6. PICK h \in Handle : h = Top.obj
  BY <1>5
<1>7. Known(h) /\ Valid(h) /\ ~Listed(h) /\ \A p \in contents : p[2] # h
  BY <1>1, <1>4, <1>5, <1>6, SMTT(40) DEF CallOK
<1>8. /\ SlotsOK' /\ TagOf(h)' = tag
      /\ \A g \in Handle : Known(g) =>
           /\ Known(g)' /\ (Valid(g)' <=> Valid(g))
           /\ Valid(g) /\ g # h => SlotOf(g)' = SlotOf(g)
  BY <1>1, <1>2, <1>6, <1>7, TagFacts
<1>9. \A g \in Handle : Known(g) /\ Listed(g) /\ Valid(g) => Known(g)' /\ Valid(g)' /\ TagOf(g)' = TagOf(g)
  BY <1>7, <1>8 DEF TagOf
<1>10. TagsOK' /\ (\A g : Listed(g)' => Listed(g) \/ (g = h /\ Top.op = "load"))
  <2>1. CASE Top.op = "load"
    <3>1. byTag' = Insert(tag, h)
      BY <1>2, <1>6, <2>1
    <3>2. /\ TagsOK'
          /\ \A t \in Tag : \A g : (Under(g, t)' => Under(g, t) \/ g = h)
      BY <1>1, <1>7, <1>8, <1>9, <3>1, InsertFacts
    <3> QED
      BY <2>1, <3>2 DEF Listed
  <2>2. CASE Top.op # "load"
    <3>1. byTag' = byTag
      BY <1>2, <2>2
    <3> QED
      BY <1>1, <1>9, <3>1, TagsKept, SMTT(40)
  <2> QED
    BY <2>1, <2>2
<1>11. ContentsOK'
  BY <1>1, <1>8, ContentsKept
<1>12. PICK c \in Calls : c = Call(Top.op, h, "instantiating", {})
  BY <1>5 DEF Calls, Call
<1>13. c = [Top EXCEPT !.step = "instantiating"] /\ c.op = Top.op /\ c.obj = h /\ c.step = "instantiating" /\ c.items = {}
  <2>1. Top = Call(Top.op, Top.obj, Top.step, Top.items)
    BY <1>4 DEF Calls, Call
  <2> QED
    BY <1>5, <1>6, <1>12, <2>1 DEF Call
<1>14. calls' = [calls EXCEPT ![Len(calls)] = c]
  BY <1>13 DEF Read, Top
<1>15. /\ calls' \in Seq(Calls) /\ Len(calls') = n /\ calls'[n] = c
       /\ \A k \in 1 .. n - 1 : k \in DOMAIN calls /\ calls'[k] = calls[k]
  BY <1>1, <1>3, <1>14, StepFacts
<1>16. CallOK(c)'
  BY <1>1, <1>5, <1>7, <1>8, <1>10, <1>13 DEF CallOK
<1>17. ASSUME NEW k \in 1 .. n - 1
       PROVE  calls[k].obj # h /\ h \notin calls[k].items
  <2>1. k # n
    OBVIOUS
  <2> QED
    BY <1>1, <1>4, <1>5, <1>6, <2>1 DEF CallsOK, LoadsApart
<1>18. ASSUME NEW d \in Calls, NEW k \in 1 .. n - 1, calls[k] = d PROVE CallOK(d)'
  <2>1. CallOK(d) /\ d.obj \in Handle /\ Known(d.obj) /\ d.obj # h
    BY <1>4, <1>17, <1>18, CallFacts DEF CallOK
  <2>2. d.op # "destroy" \/ d.step = "effects" => Valid(d.obj)'
    BY <1>8, <2>1 DEF CallOK
  <2> QED
    BY <1>1, <1>8, <1>10, <2>1, <2>2, CallKept
<1>19. CallsOK'
  BY <1>1, <1>4, <1>5, <1>13, <1>15, <1>16, <1>17, <1>18, CallsTopped
<1> QED
  BY <1>8, <1>10, <1>11, <1>19 DEF IInv

LEMMA LoadedKeeps == ASSUME IInv, Loaded PROVE IInv'
<1>1. SlotsOK /\ TagsOK /\ ContentsOK /\ CallsOK /\ ~FromHost /\ Top.step = "instantiating"
      /\ UNCHANGED <<slots, free>> /\ calls' = Front(calls) /\ calls # << >>
      /\ byTag' = IF Top.op = "instance" THEN Insert(TagOf(Top.obj), Top.obj) ELSE byTag
  BY DEF IInv, Loaded, TagOf, FromHost
<1>2. PICK n \in Nat \ {0} : n = Len(calls)
  BY <1>1, LastCall
<1>3. /\ n \in DOMAIN calls /\ DOMAIN calls = 1 .. n /\ Top = calls[n]
      /\ Top \in Calls /\ CallOK(Top)
      /\ \A k \in 1 .. n - 1 : k \in DOMAIN calls /\ calls[k] \in Calls /\ CallOK(calls[k]) /\ calls[k].step # "effects"
  BY <1>1, <1>2, LastCall
<1>4. Top.op \in {"load", "instance"} /\ Top.items = {} /\ Top.obj \in Handle
  BY <1>1, <1>3, CallFacts
<1>5. PICK h \in Handle : h = Top.obj
  BY <1>4
<1>6. Known(h) /\ Valid(h) /\ (Top.op = "instance" => ~Listed(h))
  BY <1>3, <1>4, <1>5 DEF CallOK
<1>7. \A g : (Known(g)' <=> Known(g)) /\ (Valid(g)' <=> Valid(g)) /\ TagOf(g)' = TagOf(g)
  BY <1>1, SameSlots
<1>8. SlotsOK'
  BY <1>1, SameSlotsOK
<1>9. PICK tag \in Tag \cup {NoTag} : tag = TagOf(h)
  <2>1. SlotOf(h).obj \in Object
    BY <1>1, <1>6, ValidVersion
  <2> QED
    BY <2>1 DEF TagOf, Object
<1>10. TagsOK' /\ (\A g : Listed(g)' => Listed(g) \/ g = h)
  <2>1. CASE Top.op = "instance"
    <3>1. byTag' = Insert(tag, h) /\ TagOf(h)' = tag /\ Known(h)' /\ Valid(h)'
      BY <1>1, <1>5, <1>6, <1>7, <1>9, <2>1
    <3>2. /\ TagsOK'
          /\ \A t \in Tag : \A g : (Under(g, t)' => Under(g, t) \/ g = h)
      BY <1>1, <1>6, <1>7, <2>1, <3>1, InsertFacts
    <3> QED
      BY <2>1, <3>2 DEF Listed
  <2>2. CASE Top.op # "instance"
    <3>1. byTag' = byTag
      BY <1>1, <2>2
    <3> QED
      BY <1>1, <1>7, <3>1, TagsKept
  <2> QED
    BY <2>1, <2>2
<1>11. contents' = contents \/ (n > 1 /\ contents' = contents \cup {<<calls[n - 1].obj, h>>})
  BY <1>1, <1>2, <1>5 DEF Loaded
<1>12. \A p \in contents' : p \in contents \/ (n > 1 /\ p = <<calls[n - 1].obj, h>> /\ p[1] = calls[n - 1].obj /\ p[2] = h)
  BY <1>11
<1>13. n > 1 => n - 1 \in 1 .. n - 1
  OBVIOUS
<1>14. n > 1 => calls[n - 1].obj \in Handle /\ Known(calls[n - 1].obj)
  BY <1>3, <1>13, CallFacts, SMTT(40) DEF CallOK
<1>15. ContentsOK'
  <2>1. \A p \in contents' : p \in Handle \X Handle /\ Known(p[1]) /\ Known(p[2])
    BY <1>1, <1>6, <1>12, <1>14 DEF ContentsOK
  <2>2. \A p \in contents' : Known(p[1]) /\ Known(p[2]) => (Known(p[1]) /\ Known(p[2]))'
    BY <1>1 DEF Known, SlotOf
  <2> QED
    BY <1>1, <2>1 DEF ContentsOK, Known, SlotOf
<1>16. ASSUME NEW k \in 1 .. n - 1 PROVE calls[k].obj # h
  <2>1. k # n
    OBVIOUS
  <2> QED
    BY <1>1, <1>3, <1>4, <1>5, <2>1 DEF CallsOK, LoadsApart
<1>17. DOMAIN calls' = 1 .. n - 1
  BY <1>1, <1>2, FrontFacts
<1>18. ASSUME NEW d \in Calls, NEW k \in 1 .. n - 1, calls[k] = d PROVE CallOK(d)'
  <2>1. CallOK(d) /\ d.obj \in Handle /\ Known(d.obj) /\ d.obj # h
    BY <1>3, <1>16, <1>18, CallFacts DEF CallOK
  <2>2. d.op # "destroy" \/ d.step = "effects" => Valid(d.obj)'
    BY <1>7, <2>1 DEF CallOK
  <2> QED
    BY <1>7, <1>10, <1>12, <2>1, <2>2, CallKept
<1>19. CallsOK'
  BY <1>1, <1>17, <1>18, CallsStay
<1> QED
  BY <1>8, <1>10, <1>15, <1>19 DEF IInv

LEMMA DestroyedKeeps == ASSUME IInv, Destroyed PROVE IInv'
<1>1. SlotsOK /\ TagsOK /\ ContentsOK /\ CallsOK /\ calls # << >>
      /\ UNCHANGED <<slots, free, byTag, contents>> /\ calls' = Front(calls)
  BY DEF IInv, Destroyed, Emptied, Emptying, FromHost
<1>2. \A g : (Known(g)' <=> Known(g)) /\ (Valid(g)' <=> Valid(g)) /\ TagOf(g)' = TagOf(g)
  BY <1>1, SameSlots
<1>3. SlotsOK' /\ TagsOK' /\ ContentsOK' /\ \A g : Listed(g)' <=> Listed(g)
  BY <1>1, <1>2, SameSlotsOK, TagsKept, ContentsKept
<1>4. ASSUME NEW d \in Calls, Called(d) PROVE CallOK(d)'
  <2>1. CallOK(d)
    BY <1>1, <1>4 DEF CallsOK
  <2>2. d.op # "destroy" \/ d.step = "effects" => Valid(d.obj)'
    BY <1>2, <2>1 DEF CallOK
  <2> QED
    BY <1>1, <1>2, <1>3, <2>1, <2>2, CallKept
<1>5. CallsOK'
  BY <1>1, <1>4, CallsStay DEF Called
<1> QED
  BY <1>3, <1>5 DEF IInv

LEMMA RemoveItemKeeps == ASSUME IInv, RemoveItem PROVE IInv'
<1>1. SlotsOK /\ TagsOK /\ ContentsOK /\ CallsOK
      /\ UNCHANGED <<slots, free, byTag, calls>> /\ contents' \subseteq contents
  BY DEF IInv, RemoveItem
<1>2. \A g : (Known(g)' <=> Known(g)) /\ (Valid(g)' <=> Valid(g)) /\ TagOf(g)' = TagOf(g)
  BY <1>1, SameSlots
<1>3. SlotsOK' /\ TagsOK' /\ ContentsOK' /\ \A g : Listed(g)' <=> Listed(g)
  BY <1>1, <1>2, SameSlotsOK, TagsKept, ContentsKept
<1>4. ASSUME NEW d \in Calls, Called(d) PROVE CallOK(d)'
  <2>1. CallOK(d)
    BY <1>1, <1>4 DEF CallsOK
  <2>2. d.op # "destroy" \/ d.step = "effects" => Valid(d.obj)'
    BY <1>2, <2>1 DEF CallOK
  <2> QED
    BY <1>1, <1>2, <1>3, <2>1, <2>2, CallKept
<1>5. CallsOK'
  BY <1>1, <1>4, CallsStay DEF Called
<1> QED
  BY <1>3, <1>5 DEF IInv

LEMMA AddItemKeeps == ASSUME IInv, AddItem PROVE IInv'
<1>1. SlotsOK /\ TagsOK /\ ContentsOK /\ CallsOK
      /\ UNCHANGED <<slots, free, byTag, calls>>
  BY DEF IInv, AddItem
<1>2. PICK owner \in Live, item \in Live : ~Loading(item) /\ contents' = contents \cup {<<owner, item>>}
  BY DEF AddItem
<1>3. \A h \in Live : h \in Handle /\ Known(h)
  <2>1. ASSUME NEW h \in Live PROVE h \in Handle /\ Known(h)
    <3>1. h \in [id : 1 .. MaxSlots, type : Type, version : 0 .. MaxVersion] /\ Valid(h)
          /\ SlotOf(h).obj.type = h.type
      BY DEF Live
    <3>2. h \in Handle
      BY <3>1, ObjectAssumption DEF Handle
    <3> QED
      BY <3>1, <3>2 DEF Known, Valid
  <2> QED
    BY <2>1
<1>4. \A g : (Known(g)' <=> Known(g)) /\ (Valid(g)' <=> Valid(g)) /\ TagOf(g)' = TagOf(g)
  BY <1>1, SameSlots
<1>5. SlotsOK' /\ TagsOK' /\ \A g : Listed(g)' <=> Listed(g)
  BY <1>1, <1>4, SameSlotsOK, TagsKept, SMTT(40)
<1>6. ContentsOK'
  <2>1. \A p \in contents' : p \in Handle \X Handle /\ Known(p[1]) /\ Known(p[2])
    BY <1>1, <1>2, <1>3 DEF ContentsOK
  <2> QED
    BY <1>1, <2>1 DEF ContentsOK, Known, SlotOf
<1>7. ASSUME NEW d \in Calls, Called(d) PROVE CallOK(d)'
  <2>1. CallOK(d)
    BY <1>1, <1>7 DEF CallsOK
  <2>2. d.op # "destroy" \/ d.step = "effects" => Valid(d.obj)'
    BY <1>4, <2>1 DEF CallOK
  <2>3. d.op # "destroy" => d.obj # item
    BY <1>2, <1>7 DEF Loading, Called
  <2>4. d.op # "destroy" => \A p \in contents' : p \in contents \/ p[2] # d.obj
    BY <1>2, <2>3
  <2> QED
    BY <1>4, <1>5, <2>1, <2>2, <2>4, CallKept
<1>8. CallsOK'
  BY <1>1, <1>7, CallsStay DEF Called
<1> QED
  BY <1>5, <1>6, <1>8 DEF IInv

LEMMA ItemsFacts ==
  ASSUME ContentsOK, NEW h \in Handle
  PROVE  /\ Items(h) \subseteq Handle /\ Without(h) \subseteq contents
         /\ \A i \in Items(h) : Known(i) /\ \E p \in contents : p[2] = i
BY DEF ContentsOK, Items, Without

LEMMA RemoveComponentsKeeps == ASSUME IInv, RemoveComponents PROVE IInv'
<1>1. SlotsOK /\ TagsOK /\ ContentsOK /\ CallsOK /\ ~FromHost /\ Top.step = "effects"
      /\ UNCHANGED <<slots, free, byTag>> /\ contents' = Without(Top.obj)
      /\ calls' = [calls EXCEPT ![Len(calls)] = Call("destroy", Top.obj, "components", Items(Top.obj))]
  BY SMTT(40) DEF IInv, RemoveComponents
<1>2. PICK n \in Nat \ {0} : n = Len(calls)
  BY <1>1, LastCall
<1>3. /\ n \in DOMAIN calls /\ DOMAIN calls = 1 .. n /\ Top = calls[n]
      /\ Top \in Calls /\ CallOK(Top)
      /\ \A k \in 1 .. n - 1 : k \in DOMAIN calls /\ calls[k] \in Calls /\ CallOK(calls[k]) /\ calls[k].step # "effects"
  BY <1>1, <1>2, LastCall
<1>4. Top.op = "destroy" /\ Top.obj \in Handle
  BY <1>1, <1>3, CallFacts
<1>5. PICK h \in Handle : h = Top.obj
  BY <1>4
<1>6. \A g : (Known(g)' <=> Known(g)) /\ (Valid(g)' <=> Valid(g)) /\ TagOf(g)' = TagOf(g)
  BY <1>1, SameSlots
<1>7. Items(h) \subseteq Handle /\ contents' \subseteq contents
      /\ \A i \in Items(h) : Known(i) /\ \E p \in contents : p[2] = i
  BY <1>1, <1>5, ItemsFacts
<1>8. SlotsOK' /\ TagsOK' /\ ContentsOK' /\ \A g : Listed(g)' <=> Listed(g)
  BY <1>1, <1>6, <1>7, SameSlotsOK, TagsKept, ContentsKept
<1>9. PICK c \in Calls : c = Call("destroy", h, "components", Items(h))
  BY <1>7 DEF Calls, Call
<1>10. c.op = "destroy" /\ c.obj = h /\ c.step = "components" /\ c.items = Items(h)
  BY <1>9 DEF Call
<1>12. calls' = [calls EXCEPT ![Len(calls)] = c]
  BY <1>1, <1>5, <1>9
<1>13. /\ calls' \in Seq(Calls) /\ Len(calls') = n /\ calls'[n] = c
       /\ \A k \in 1 .. n - 1 : k \in DOMAIN calls /\ calls'[k] = calls[k]
  BY <1>1, <1>2, <1>12, StepFacts
<1>14. CallOK(c)'
  BY <1>3, <1>4, <1>5, <1>6, <1>7, <1>8, <1>10 DEF CallOK
<1>15. ASSUME NEW k \in 1 .. n - 1, calls[k].op # "destroy"
       PROVE  calls[k].obj # h /\ calls[k].obj \notin c.items
  <2>1. k # n /\ CallOK(calls[k]) /\ k \in DOMAIN calls
    BY <1>3
  <2>2. calls[k].obj # h
    BY <1>1, <1>3, <1>5, <1>15, <2>1 DEF CallsOK, LoadsApart
  <2> QED
    BY <1>7, <1>10, <1>15, <2>1, <2>2 DEF CallOK
<1>16. ASSUME NEW d \in Calls, NEW k \in 1 .. n - 1, calls[k] = d PROVE CallOK(d)'
  <2>1. CallOK(d)
    BY <1>3, <1>16
  <2>2. d.op # "destroy" \/ d.step = "effects" => Valid(d.obj)'
    BY <1>6, <2>1 DEF CallOK
  <2> QED
    BY <1>6, <1>7, <1>8, <2>1, <2>2, CallKept
<1>17. CallsOK'
  BY <1>1, <1>3, <1>10, <1>13, <1>14, <1>15, <1>16, CallsTopped
<1> QED
  BY <1>8, <1>17 DEF IInv

LEMMA FreeObjectKeeps == ASSUME IInv, FreeObject PROVE IInv'
<1>1. SlotsOK /\ TagsOK /\ ContentsOK /\ CallsOK /\ ~FromHost /\ Top.step = "components" /\ byTag' = byTag
  BY SMTT(40) DEF IInv, FreeObject, Emptied, Emptying
<1>2. PICK n \in Nat \ {0} : n = Len(calls)
  BY <1>1, LastCall
<1>3. /\ n \in DOMAIN calls /\ DOMAIN calls = 1 .. n /\ Top = calls[n]
      /\ Top \in Calls /\ CallOK(Top)
      /\ \A k \in 1 .. n - 1 : k \in DOMAIN calls /\ calls[k] \in Calls /\ CallOK(calls[k]) /\ calls[k].step # "effects"
  BY <1>1, <1>2, LastCall
<1>4. Top.op = "destroy" /\ Top.obj \in Handle
  BY <1>1, <1>3, CallFacts
<1>5. PICK h \in Handle : h = Top.obj
  BY <1>4
<1>6. Known(h) /\ ~Listed(h)
  BY <1>3, <1>4, <1>5 DEF CallOK
<1>7. CASE ~Valid(h)
  <2>1. UNCHANGED <<slots, free, contents>> /\ calls' = Front(calls) /\ calls # << >>
    BY <1>1, <1>5, <1>7 DEF FreeObject, FromHost
  <2>2. \A g : (Known(g)' <=> Known(g)) /\ (Valid(g)' <=> Valid(g)) /\ TagOf(g)' = TagOf(g)
    BY <2>1, SameSlots
  <2>3. SlotsOK' /\ TagsOK' /\ ContentsOK' /\ \A g : Listed(g)' <=> Listed(g)
    BY <1>1, <2>1, <2>2, SameSlotsOK, TagsKept, ContentsKept
  <2>4. ASSUME NEW d \in Calls, Called(d) PROVE CallOK(d)'
    <3>1. CallOK(d)
      BY <1>1, <2>4 DEF CallsOK
    <3>2. d.op # "destroy" \/ d.step = "effects" => Valid(d.obj)'
      BY <2>2, <3>1 DEF CallOK
    <3> QED
      BY <2>1, <2>2, <2>3, <3>1, <3>2, CallKept
  <2>5. CallsOK'
    BY <1>1, <2>1, <2>4, CallsStay DEF Called
  <2> QED
    BY <2>3, <2>5 DEF IInv
<1>8. CASE Valid(h)
  <2> DEFINE items == IF Sweeps(h.type) THEN Items(h) ELSE {}
  <2>1. /\ Release(h)
        /\ calls' = [calls EXCEPT ![Len(calls)] = Call("destroy", h, "destructor", items)]
        /\ contents' = IF Sweeps(h.type) THEN Without(h) ELSE contents
    BY <1>5, <1>8 DEF FreeObject
  <2>2. /\ SlotsOK' /\ ~Valid(h)'
        /\ \A g \in Handle : Known(g) =>
             /\ Known(g)' /\ (Valid(g)' <=> Valid(g) /\ g # h)
             /\ Valid(g)' => SlotOf(g)' = SlotOf(g)
    BY <1>1, <1>6, <1>8, <2>1, ReleaseFacts
  <2>3. items \subseteq Handle /\ contents' \subseteq contents
        /\ \A i \in items : Known(i) /\ \E p \in contents : p[2] = i
    <3>1. Items(h) \subseteq Handle /\ Without(h) \subseteq contents
          /\ \A i \in Items(h) : Known(i) /\ \E p \in contents : p[2] = i
      BY <1>1, ItemsFacts
    <3> QED
      BY <2>1, <3>1
  <2>4. \A g \in Handle : Known(g) /\ Listed(g) /\ Valid(g) => Known(g)' /\ Valid(g)' /\ TagOf(g)' = TagOf(g)
    BY <1>6, <2>2 DEF TagOf
  <2>5. TagsOK' /\ \A g : Listed(g)' <=> Listed(g)
    BY <1>1, <2>4, TagsKept
  <2>6. ContentsOK'
    BY <1>1, <2>2, <2>3, ContentsKept
  <2> HIDE DEF items
  <2>7. PICK c \in Calls : c = Call("destroy", h, "destructor", items)
    BY <2>3 DEF Calls, Call
  <2>8. c.op = "destroy" /\ c.obj = h /\ c.step = "destructor" /\ c.items = items
    BY <2>7 DEF Call
  <2>10. calls' = [calls EXCEPT ![Len(calls)] = c]
    BY <2>1, <2>7
  <2>11. /\ calls' \in Seq(Calls) /\ Len(calls') = n /\ calls'[n] = c
         /\ \A k \in 1 .. n - 1 : k \in DOMAIN calls /\ calls'[k] = calls[k]
    BY <1>1, <1>2, <2>10, StepFacts
  <2>12. CallOK(c)'
    <3>1. \A i \in c.items : Known(i)'
      BY <2>2, <2>3, <2>8
    <3>2. Known(c.obj)' /\ ~Listed(c.obj)'
      BY <1>6, <2>2, <2>5, <2>8
    <3> QED
      BY <2>8, <3>1, <3>2 DEF CallOK
  <2>13. ASSUME NEW k \in 1 .. n - 1, calls[k].op # "destroy"
         PROVE  calls[k].obj # h /\ calls[k].obj \notin c.items
    <3>1. k # n /\ CallOK(calls[k]) /\ k \in DOMAIN calls
      BY <1>3
    <3>2. calls[k].obj # h
      BY <1>1, <1>3, <1>5, <2>13, <3>1 DEF CallsOK, LoadsApart
    <3> QED
      BY <2>3, <2>8, <2>13, <3>1, <3>2 DEF CallOK
  <2>14. ASSUME NEW d \in Calls, NEW k \in 1 .. n - 1, calls[k] = d PROVE CallOK(d)'
    <3>1. CallOK(d) /\ d.step # "effects" /\ d.obj \in Handle /\ Known(d.obj)
      BY <1>3, <2>14, CallFacts DEF CallOK
    <3>2. d.op # "destroy" => Valid(d.obj)'
      BY <2>2, <2>13, <2>14, <3>1 DEF CallOK
    <3> QED
      BY <2>2, <2>3, <2>5, <3>1, <3>2, CallKept
  <2>15. CallsOK'
    BY <1>1, <1>3, <2>8, <2>11, <2>12, <2>13, <2>14, CallsTopped
  <2> QED
    BY <2>2, <2>5, <2>6, <2>15 DEF IInv
<1> QED
  BY <1>7, <1>8

LEMMA IInvInit == Init => IInv
<1> SUFFICES ASSUME Init PROVE IInv
  OBVIOUS
<1>1. /\ slots = [a \in Array |-> << >>] /\ free = [a \in Array |-> << >>]
      /\ byTag = [t \in Tag |-> << >>] /\ contents = {} /\ calls = << >>
  BY DEF Init
<1>2. SlotsOK
  <2>1. \A a \in Array : ToSet(free[a]) = {} /\ DOMAIN slots[a] = {} /\ DOMAIN free[a] = {}
    BY <1>1 DEF ToSet
  <2> QED
    BY <1>1, <2>1 DEF SlotsOK, SlotsExact
<1>3. TagsOK
  BY <1>1 DEF TagsOK, Under
<1>4. ContentsOK /\ CallsOK
  BY <1>1 DEF ContentsOK, CallsOK, LoadsApart, EffectsLast, Called
<1> QED
  BY <1>2, <1>3, <1>4 DEF IInv

LEMMA IInvStep == IInv /\ [Next]_vars => IInv'
<1> SUFFICES ASSUME IInv, [Next]_vars PROVE IInv'
  OBVIOUS
<1>1. CASE Next
  <2>1. CASE Destroy \/ LoadFails \/ DestroyItem
    BY <2>1, DestroyBegins, LoadFailsBegins, DestroyItemBegins, BeginsKeeps
  <2> QED
    BY <1>1, <2>1, MakeKeeps, LoadKeeps, ReadKeeps, LoadedKeeps, RemoveComponentsKeeps, FreeObjectKeeps,
       DestroyedKeeps, AddItemKeeps, RemoveItemKeeps DEF Next, Returning
<1>2. CASE UNCHANGED vars
  <2>1. SlotsOK /\ TagsOK /\ ContentsOK /\ CallsOK /\ UNCHANGED <<slots, free, byTag, contents, calls>>
    BY <1>2 DEF IInv, vars
  <2>2. \A g : (Known(g)' <=> Known(g)) /\ (Valid(g)' <=> Valid(g)) /\ TagOf(g)' = TagOf(g)
    BY <2>1, SameSlots
  <2>3. SlotsOK' /\ TagsOK' /\ ContentsOK' /\ \A g : Listed(g)' <=> Listed(g)
    BY <2>1, <2>2, SameSlotsOK, TagsKept, ContentsKept
  <2>4. ASSUME NEW d \in Calls, Called(d) PROVE CallOK(d)'
    BY <2>1, <2>2, <2>3, <2>4 DEF CallsOK, CallOK
  <2>5. CallsOK'
    BY <2>1, <2>4, CallsStay DEF Called
  <2> QED
    BY <2>3, <2>5 DEF IInv
<1> QED
  BY <1>1, <1>2

LEMMA Invariance == Spec => []IInv
BY IInvInit, IInvStep, PTL DEF Spec

(***************************************************************************)
(* The loops over inventories                                              *)
(***************************************************************************)
LEMMA ValidKept ==
  ASSUME IInv, Next, ~(FreeObject /\ Valid(Top.obj))
  PROVE  \A g \in Handle : Known(g) => (Valid(g)' <=> Valid(g))
<1>1. CASE Make \/ Load
  <2>1. PICK type \in Type : Alloc(type)
    BY <1>1 DEF Make, Load
  <2>2. PICK h \in Handle : h = NewHandle(type)
    BY NewSlot, SMTT(40) DEF IInv
  <2> QED
    BY <2>1, <2>2, AllocFacts DEF IInv
<1>2. CASE Read
  <2>1. CallsOK /\ ~FromHost /\ Top.step = "reading" /\ UNCHANGED free
    BY <1>2 DEF IInv, Read
  <2>2. Top \in Calls /\ CallOK(Top)
    BY <2>1, LastCall
  <2>3. Top.op # "destroy" /\ Top.obj \in Handle
    BY <2>1, <2>2, CallFacts
  <2>4. PICK h \in Handle : h = Top.obj /\ Valid(h) /\ Known(h)
    BY <2>2, <2>3, SMTT(40) DEF CallOK
  <2>5. PICK tag \in Tag \cup {NoTag} :
          slots' = [slots EXCEPT ![ArrayOf(Top.obj.type)][Top.obj.id].obj.tag = tag]
    BY <1>2, ZenonT(60) DEF Read
  <2> QED
    BY <2>1, <2>4, <2>5, TagFacts DEF IInv
<1>3. CASE ~(Make \/ Load \/ Read)
  <2>1. CASE Destroy \/ LoadFails \/ DestroyItem
    BY <2>1, SameSlots DEF Destroy, LoadFails, DestroyItem, Begin
  <2>2. CASE Loaded \/ RemoveComponents \/ Destroyed \/ AddItem \/ RemoveItem
    BY <2>2, SameSlots DEF Loaded, RemoveComponents, Destroyed, AddItem, RemoveItem
  <2>3. CASE FreeObject
    BY <2>3, SameSlots DEF FreeObject
  <2> QED
    BY <1>3, <2>1, <2>2, <2>3 DEF Next, Returning
<1> QED
  BY <1>1, <1>2, <1>3

(* A handle that has become stale stays so. *)
LEMMA StaleKept ==
  ASSUME IInv, Next, NEW g \in Handle, Known(g), ~Valid(g)
  PROVE  ~Valid(g)'
<1>1. CASE FreeObject /\ Valid(Top.obj)
  <2>1. CallsOK /\ ~FromHost /\ Release(Top.obj)
    BY <1>1 DEF IInv, FreeObject, Emptied, Emptying
  <2>2. Top \in Calls /\ CallOK(Top)
    BY <2>1, LastCall
  <2>3. PICK h \in Handle : h = Top.obj /\ Valid(h) /\ Known(h)
    BY <1>1, <2>2, CallFacts DEF CallOK
  <2> QED
    BY <2>1, <2>3, ReleaseFacts DEF IInv
<1> QED
  BY <1>1, ValidKept

LEMMA BegunCall ==
  ASSUME NEW h \in Handle
  PROVE  LET c == Call("destroy", h, "effects", {})
         IN  c \in Calls /\ c.op = "destroy" /\ c.obj = h /\ c.step = "effects"
<1>1. {} \subseteq Handle
  OBVIOUS
<1> QED
  BY <1>1 DEF Call, Calls

Destroys(k, i) == k \in DOMAIN calls /\ calls[k].op = "destroy" /\ calls[k].obj = i

(* Of the items a loop has come to only that one can be there whose        *)
(* destroy is the next call in progress.                                   *)
VisitOK(k) ==
  /\ visited[k] \subseteq calls[k].items
  /\ calls[k].step = "effects" => visited[k] = {}
  /\ calls[k].step = "destructor" => ~Valid(calls[k].obj)
  /\ \A i \in visited[k] : ~Valid(i) \/ Destroys(k + 1, i)

VInv ==
  /\ visited \in Seq(SUBSET Handle) /\ Len(visited) = Len(calls)
  /\ \A k \in DOMAIN calls : VisitOK(k)

(* A call that stays as it is, while the call above it may end *)
LEMMA VisitKept ==
  ASSUME IInv, VInv, Next, NEW k \in DOMAIN calls, calls'[k] = calls[k], visited'[k] = visited[k],
         \A i \in Handle : Destroys(k + 1, i) /\ Valid(i)' => Destroys(k + 1, i)'
  PROVE  VisitOK(k)'
<1>1. calls[k] \in Calls /\ CallOK(calls[k]) /\ VisitOK(k)
  BY DEF IInv, CallsOK, Called, VInv
<1> PICK g : g = calls[k].obj
  OBVIOUS
<1>2. g \in Handle /\ Known(g) /\ \A i \in calls[k].items : i \in Handle /\ Known(i)
  BY <1>1, CallFacts DEF CallOK
<1>3. \A i \in visited[k] : ~Valid(i)' \/ Destroys(k + 1, i)'
  BY <1>1, <1>2, StaleKept DEF VisitOK
<1>4. calls[k].step = "destructor" => ~Valid(g)'
  BY <1>1, <1>2, StaleKept DEF VisitOK
<1> QED
  BY <1>1, <1>3, <1>4 DEF VisitOK, Valid, SlotOf

(* A call whose loop has come to no item *)
LEMMA VisitNone ==
  ASSUME NEW k, visited'[k] = {}, NEW g, g = calls'[k].obj, calls'[k].step # "destructor" \/ ~Valid(g)'
  PROVE  VisitOK(k)'
BY DEF VisitOK, Valid, SlotOf

LEMMA VInvStep ==
  ASSUME IInv, VInv, Next
  PROVE  VInv'
<1>1. PICK n \in Nat : n = Len(calls)
  BY DEF IInv, CallsOK
<1>2. /\ calls \in Seq(Calls) /\ visited \in Seq(SUBSET Handle) /\ Len(visited) = n
      /\ DOMAIN calls = 1 .. n /\ DOMAIN visited = 1 .. n
      /\ \A k \in 1 .. n : calls[k] \in Calls /\ CallOK(calls[k]) /\ VisitOK(k)
  BY <1>1 DEF IInv, CallsOK, Called, VInv
<1>3. ~FromHost => /\ n \in 1 .. n /\ Top = calls[n] /\ Last(visited) = visited[n] /\ calls # << >> /\ visited # << >>
  BY <1>1, <1>2 DEF FromHost, Top, Last
<1>4. CASE Load \/ Destroy
  <2>1. PICK c \in Calls : calls' = Append(calls, c) /\ visited' = Append(visited, {}) /\ c.step # "destructor"
    <3>1. CASE Load
      <4>1. PICK type \in Type, op \in {"load", "instance"} : calls' = Append(calls, Call(op, NewHandle(type), "reading", {}))
        BY <3>1 DEF Load
      <4>2. NewHandle(type) \in Handle
        BY NewSlot DEF IInv
      <4>3. Call(op, NewHandle(type), "reading", {}) \in Calls /\ Call(op, NewHandle(type), "reading", {}).step = "reading"
        BY <4>2 DEF Call, Calls
      <4> QED
        BY <3>1, <4>1, <4>3 DEF Load
    <3>2. CASE Destroy
      <4>1. PICK h \in [id : 1 .. MaxSlots, type : Type, version : 0 .. MaxVersion] : Begin(h, calls)
        BY <3>2 DEF Destroy
      <4>2. h \in Handle
        BY ObjectAssumption DEF Handle
      <4>3. Call("destroy", h, "effects", {}) \in Calls /\ Call("destroy", h, "effects", {}).step = "effects"
        BY <4>2 DEF Call, Calls
      <4> QED
        BY <3>2, <4>1, <4>3 DEF Destroy, Begin
    <3> QED
      BY <1>4, <3>1, <3>2
  <2>2. /\ visited' \in Seq(SUBSET Handle) /\ Len(visited') = n + 1 /\ Len(calls') = n + 1
        /\ DOMAIN calls' = 1 .. n + 1 /\ visited'[n + 1] = {} /\ calls'[n + 1] = c
        /\ \A k \in 1 .. n : calls'[k] = calls[k] /\ visited'[k] = visited[k]
    BY <1>1, <1>2, <2>1
  <2>3. ASSUME NEW k \in 1 .. n PROVE VisitOK(k)'
    <3>1. \A j \in 1 .. n : j \in 1 .. n + 1
      OBVIOUS
    <3>2. \A i : Destroys(k + 1, i) => Destroys(k + 1, i)'
      BY <1>2, <2>2, <3>1 DEF Destroys
    <3> QED
      BY <1>2, <2>2, <3>2, VisitKept
  <2>4. VisitOK(n + 1)'
    BY <2>1, <2>2, VisitNone
  <2>5. \A k \in 1 .. n + 1 : k \in 1 .. n \/ k = n + 1
    OBVIOUS
  <2> QED
    BY <2>2, <2>3, <2>4, <2>5 DEF VInv
<1>5. CASE DestroyItem
  <2>1. PICK i \in ToCome : /\ calls' = Append(calls, Call("destroy", i, "effects", {}))
                            /\ visited' = Append([visited EXCEPT ![n] = @ \cup {i}], {})
    BY <1>2, <1>5 DEF DestroyItem, Begin
  <2>2. ~FromHost
    BY <1>5 DEF DestroyItem, Emptying
  <2>3. i \in calls[n].items /\ i \in Handle /\ n \in 1 .. n
    <3>1. i \in Top.items /\ Top = calls[n] /\ n \in 1 .. n
      BY <1>3, <2>1, <2>2 DEF ToCome
    <3>2. calls[n].items \subseteq Handle
      BY <1>2, <3>1, CallFacts
    <3> QED
      BY <3>1, <3>2
  <2>a. i \in Handle
    BY <2>3
  <2>4. PICK c \in Calls : c = Call("destroy", i, "effects", {}) /\ c.op = "destroy" /\ c.obj = i /\ c.step = "effects"
    BY <2>a, BegunCall
  <2>b. visited[n] \in SUBSET Handle
    BY <1>2, <2>3
  <2>c. visited[n] \cup {i} \in SUBSET Handle
    BY <2>a, <2>b
  <2>5. PICK v \in SUBSET Handle : v = visited[n] \cup {i}
    BY <2>c
  <2> DEFINE w == [visited EXCEPT ![n] = v]
  <2>6. w \in Seq(SUBSET Handle) /\ Len(w) = n /\ w[n] = v /\ \A k \in 1 .. n : k # n => w[k] = visited[k]
    BY <1>2, <2>3
  <2>7. visited' = Append(w, {})
    BY <1>2, <2>1, <2>3, <2>5
  <2> HIDE DEF w
  <2>8. /\ visited' \in Seq(SUBSET Handle) /\ Len(visited') = n + 1 /\ Len(calls') = n + 1
        /\ DOMAIN calls' = 1 .. n + 1 /\ visited'[n + 1] = {} /\ calls'[n + 1] = c
        /\ visited'[n] = v
        /\ \A k \in 1 .. n : calls'[k] = calls[k] /\ (k # n => visited'[k] = visited[k])
    BY <1>1, <1>2, <2>1, <2>3, <2>4, <2>6, <2>7
  <2>9. \A j \in 1 .. n : j \in 1 .. n + 1
    OBVIOUS
  <2>10. ASSUME NEW k \in 1 .. n, k # n PROVE VisitOK(k)'
    <3>1. \A j : Destroys(k + 1, j) => Destroys(k + 1, j)'
      BY <1>2, <2>8, <2>9 DEF Destroys
    <3> QED
      BY <1>2, <2>8, <2>10, <3>1, VisitKept, SMTT(40)
  <2>11. VisitOK(n)'
    <3>1. \A j \in calls[n].items : j \in Handle /\ Known(j)
      BY <1>2, <2>3, CallFacts DEF CallOK
    <3>2. VisitOK(n) /\ calls[n].step # "effects"
      BY <1>2, <1>3, <1>5, <2>2, <2>3 DEF DestroyItem, Emptying
    <3>3. PICK g \in Handle : g = calls[n].obj /\ Known(g)
      BY <1>2, <2>3, CallFacts DEF CallOK
    <3>4. calls[n].step = "destructor" => ~Valid(g)'
      BY <3>2, <3>3, StaleKept DEF VisitOK
    <3>5. ASSUME NEW j \in visited[n] PROVE ~Valid(j)'
      <4>1. n + 1 \notin 1 .. n
        OBVIOUS
      <4>2. ~Valid(j) /\ j \in calls[n].items
        BY <1>2, <3>2, <4>1 DEF VisitOK, Destroys
      <4> QED
        BY <3>1, <4>2, StaleKept
    <3>6. Destroys(n + 1, i)'
      <4>1. n + 1 \in 1 .. n + 1
        OBVIOUS
      <4> QED
        BY <2>4, <2>8, <4>1 DEF Destroys
    <3> QED
      BY <2>3, <2>5, <2>8, <3>2, <3>3, <3>4, <3>5, <3>6 DEF VisitOK, Valid, SlotOf
  <2>12. VisitOK(n + 1)'
    BY <2>4, <2>8, VisitNone
  <2>13. \A k \in 1 .. n + 1 : (k \in 1 .. n /\ k # n) \/ k = n \/ k = n + 1
    OBVIOUS
  <2> QED
    BY <2>8, <2>10, <2>11, <2>12, <2>13 DEF VInv
<1>6. CASE LoadFails
  <2>1. ~FromHost /\ Top.op # "destroy" /\ calls' = Append(Front(calls), Call("destroy", Top.obj, "effects", {})) /\ visited' = visited
    BY <1>6 DEF LoadFails, Begin
  <2>2. n \in 1 .. n /\ Top = calls[n] /\ calls[n].items = {} /\ calls[n].obj \in Handle
    BY <1>2, <1>3, <2>1, CallFacts
  <2>3. PICK c \in Calls : c = Call("destroy", Top.obj, "effects", {}) /\ c.step = "effects"
    BY <2>2, BegunCall
  <2>4. Front(calls) \in Seq(Calls) /\ Len(Front(calls)) = n - 1 /\ \A k \in 1 .. n - 1 : Front(calls)[k] = calls[k]
    BY <1>1, <2>1, FrontFacts DEF IInv
  <2>5. PICK f \in Seq(Calls) : f = Front(calls)
    BY <2>4
  <2>6. PICK m \in Nat : m = n - 1 /\ n = m + 1
    BY <2>2
  <2>7. Len(calls') = n /\ DOMAIN calls' = 1 .. n /\ calls'[n] = c /\ \A k \in 1 .. n - 1 : calls'[k] = calls[k]
    BY <2>1, <2>3, <2>4, <2>5, <2>6
  <2>8. visited[n] = {}
    BY <1>2, <2>2 DEF VisitOK
  <2>9. ASSUME NEW k \in 1 .. n - 1 PROVE VisitOK(k)'
    <3>1. k \in 1 .. n /\ k + 1 \in 1 .. n /\ (k + 1 \in 1 .. n - 1 \/ k + 1 = n)
      BY <2>6
    <3>2. \A j : Destroys(k + 1, j) => Destroys(k + 1, j)'
      BY <1>2, <2>1, <2>2, <2>7, <3>1 DEF Destroys
    <3> QED
      BY <1>2, <2>1, <2>7, <3>1, <3>2, VisitKept
  <2>10. VisitOK(n)'
    BY <2>1, <2>3, <2>7, <2>8, VisitNone
  <2>11. \A k \in 1 .. n : k \in 1 .. n - 1 \/ k = n
    OBVIOUS
  <2> QED
    BY <1>2, <2>1, <2>7, <2>9, <2>10, <2>11 DEF VInv
<1>7. CASE Read \/ RemoveComponents \/ (FreeObject /\ Valid(Top.obj))
  <2>1. ~FromHost
    BY <1>7 DEF Read, RemoveComponents, FreeObject, Emptied, Emptying
  <2>2. n \in 1 .. n /\ Top = calls[n] /\ calls[n] \in Calls /\ CallOK(calls[n]) /\ VisitOK(n)
    BY <1>2, <1>3, <2>1
  <2>a. PICK h \in Handle : h = Top.obj /\ Known(h)
    BY <2>2, CallFacts DEF CallOK
  <2>3. PICK c, v : /\ calls' = [calls EXCEPT ![n] = c] /\ visited' = [visited EXCEPT ![n] = v] /\ v = {}
                    /\ c.op = Top.op /\ c.obj = Top.obj
                    /\ c.step = "destructor" => ~Valid(h)'
    <3>1. CASE Read
      <4>1. calls' = [calls EXCEPT ![n] = [calls[n] EXCEPT !.step = "instantiating"]] /\ visited' = visited
        BY <1>1, <3>1 DEF Read
      <4>2. \A t \in Calls : /\ [t EXCEPT !.step = "instantiating"].op = t.op
                             /\ [t EXCEPT !.step = "instantiating"].obj = t.obj
                             /\ [t EXCEPT !.step = "instantiating"].step = "instantiating"
        BY SMTT(40) DEF Calls
      <4>3. visited[n] = {}
        BY <2>2, <3>1, CallFacts DEF Read, VisitOK
      <4>4. visited' = [visited EXCEPT ![n] = {}]
        BY <1>2, <2>2, <4>1, <4>3
      <4> QED
        <5>1. PICK c : c = [calls[n] EXCEPT !.step = "instantiating"]
          OBVIOUS
        <5>2. c.op = Top.op /\ c.obj = Top.obj /\ c.step = "instantiating"
          BY <2>2, <4>2, <5>1
        <5> QED
          BY <4>1, <4>4, <5>1, <5>2
    <3>2. CASE RemoveComponents
      <4> DEFINE c == Call("destroy", Top.obj, "components", Items(Top.obj))
      <4>1. calls' = [calls EXCEPT ![n] = c] /\ visited' = visited
        BY <1>1, <3>2 DEF RemoveComponents
      <4>2. c.op = "destroy" /\ c.obj = Top.obj /\ c.step = "components"
        BY DEF Call
      <4> HIDE DEF c
      <4>3. visited[n] = {} /\ Top.op = "destroy"
        BY <2>2, <3>2, CallFacts DEF RemoveComponents, VisitOK
      <4>4. visited' = [visited EXCEPT ![n] = {}]
        BY <1>2, <2>2, <4>1, <4>3
      <4> QED
        BY <4>1, <4>2, <4>3, <4>4
    <3>3. CASE FreeObject /\ Valid(Top.obj)
      <4> DEFINE c == Call("destroy", Top.obj, "destructor", IF Sweeps(Top.obj.type) THEN Items(Top.obj) ELSE {})
      <4>1. calls' = [calls EXCEPT ![n] = c] /\ visited' = [visited EXCEPT ![n] = {}] /\ Release(Top.obj) /\ Top.step = "components"
        BY <1>1, <1>2, <3>3 DEF FreeObject
      <4>2. c.op = "destroy" /\ c.obj = Top.obj /\ c.step = "destructor"
        BY DEF Call
      <4> HIDE DEF c
      <4>3. Top.op = "destroy"
        BY <2>2, <4>1, CallFacts
      <4>4. Valid(h)
        BY <2>a, <3>3
      <4>5. ~Valid(h)'
        BY <2>a, <4>1, <4>4, ReleaseFacts DEF IInv
      <4> QED
        BY <4>1, <4>2, <4>3, <4>4, <4>5
    <3> QED
      BY <1>7, <3>1, <3>2, <3>3
  <2>4. /\ visited' \in Seq(SUBSET Handle) /\ Len(visited') = n /\ Len(calls') = n /\ DOMAIN calls' = 1 .. n
        /\ calls'[n] = c /\ visited'[n] = {}
        /\ \A k \in 1 .. n : k # n => calls'[k] = calls[k] /\ visited'[k] = visited[k]
    BY <1>1, <1>2, <2>2, <2>3
  <2>5. ASSUME NEW k \in 1 .. n, k # n PROVE VisitOK(k)'
    <3>1. \A j : Destroys(k + 1, j) => Destroys(k + 1, j)'
      BY <1>2, <2>2, <2>3, <2>4 DEF Destroys
    <3> QED
      BY <1>2, <2>4, <2>5, <3>1, VisitKept
  <2>6. VisitOK(n)'
    <3>1. h = calls'[n].obj /\ (calls'[n].step # "destructor" \/ ~Valid(h)')
      BY <2>a, <2>3, <2>4
    <3> QED
      BY <2>4, <3>1, VisitNone
  <2> QED
    BY <2>4, <2>5, <2>6, SMTT(40) DEF VInv
<1>8. CASE Loaded \/ Destroyed \/ (FreeObject /\ ~Valid(Top.obj))
  <2>1. ~FromHost /\ calls' = Front(calls) /\ visited' = Front(visited)
    BY <1>8, SMTT(40) DEF Loaded, Destroyed, FreeObject, Emptied, Emptying
  <2>2. n \in 1 .. n /\ Top = calls[n] /\ calls[n] \in Calls /\ CallOK(calls[n]) /\ VisitOK(n)
    BY <1>2, <1>3, <2>1
  <2>3. /\ Len(calls') = n - 1 /\ DOMAIN calls' = 1 .. n - 1 /\ \A k \in 1 .. n - 1 : calls'[k] = calls[k]
    BY <1>1, <2>1, FrontFacts DEF IInv
  <2>4. /\ visited' \in Seq(SUBSET Handle) /\ Len(visited') = n - 1
        /\ \A k \in 1 .. n - 1 : visited'[k] = visited[k]
    BY <1>2, <1>3, <2>1, FrontOf
  <2>5. Top.op = "destroy" => ~Valid(Top.obj)
    BY <1>8, <2>2, CallFacts DEF Loaded, Destroyed, VisitOK
  <2>6. PICK h \in Handle : h = Top.obj /\ Known(h)
    BY <2>2, CallFacts DEF CallOK
  <2>7. Top.op = "destroy" => ~Valid(h)'
    BY <2>5, <2>6, StaleKept
  <2>8. ASSUME NEW k \in 1 .. n - 1 PROVE VisitOK(k)'
    <3>1. k \in 1 .. n /\ k + 1 \in 1 .. n /\ (k + 1 \in 1 .. n - 1 \/ k + 1 = n)
      BY <2>2
    <3>2. \A j : Destroys(k + 1, j) => Destroys(k + 1, j)' \/ (j = h /\ Top.op = "destroy")
      BY <1>2, <2>2, <2>3, <2>6, <3>1 DEF Destroys
    <3>3. \A j \in Handle : Destroys(k + 1, j) /\ Valid(j)' => Destroys(k + 1, j)'
      BY <2>7, <3>2
    <3> QED
      BY <1>2, <2>3, <2>4, <3>1, <3>3, VisitKept
  <2> QED
    BY <2>3, <2>4, <2>8 DEF VInv
<1>9. CASE Make \/ AddItem \/ RemoveItem
  <2>1. UNCHANGED <<calls, visited>>
    BY <1>9 DEF Make, AddItem, RemoveItem
  <2>2. ASSUME NEW k \in 1 .. n PROVE VisitOK(k)'
    BY <1>2, <2>1, VisitKept DEF Destroys
  <2> QED
    BY <1>2, <2>1, <2>2 DEF VInv
<1> QED
  BY <1>4, <1>5, <1>6, <1>7, <1>8, <1>9, SMTT(40) DEF Next, Returning

LEMMA VInvariance == Spec => [](IInv /\ VInv)
<1>1. Init => VInv
  <2>1. ASSUME Init PROVE VInv
    <3>1. visited = << >> /\ calls = << >>
      BY <2>1 DEF Init
    <3> QED
      BY <3>1 DEF VInv
  <2> QED
    BY <2>1
<1>2. IInv /\ VInv /\ [Next]_vars => VInv'
  <2> SUFFICES ASSUME IInv, VInv, [Next]_vars PROVE VInv'
    OBVIOUS
  <2>1. CASE Next
    BY <2>1, VInvStep
  <2>2. CASE UNCHANGED vars
    BY <2>2 DEF vars, VInv, VisitOK, Destroys, Valid, SlotOf
  <2> QED
    BY <2>1, <2>2
<1> QED
  BY <1>1, <1>2, Invariance, PTL DEF Spec

(***************************************************************************)
(* What follows from it                                                    *)
(***************************************************************************)
(* Versions fit a handle, and no slot, list or call holds anything else    *)
(* (ObjectArray::alloc and destroy, and the callers of load and destroy).  *)
THEOREM TypeCorrect == Spec => []TypeOK
<1>1. IInv /\ VInv => TypeOK
  BY DEF IInv, VInv, SlotsOK, TagsOK, ContentsOK, CallsOK, TypeOK, Slot
<1> QED
  BY <1>1, VInvariance, PTL

(* The free lists name the empty slots that have a version left, each once *)
(* (ObjectArray::alloc and destroy).                                       *)
THEOREM FreeListsExact == Spec => []SlotsExact
<1>1. IInv => SlotsExact
  BY DEF IInv, SlotsOK
<1> QED
  BY <1>1, Invariance, PTL

(* The tag index names only objects that exist, each under the tag it has  *)
(* and once (ObjectManager::load, load_instance and destroy).              *)
THEOREM IndexExact == Spec => []TagsExact
<1>1. IInv => TagsExact
  BY TagsOfExact DEF IInv
<1> QED
  BY <1>1, Invariance, PTL

(* No destroy that a load or another destroy contains takes away the       *)
(* object its caller goes on to use (ObjectManager::load and destroy).     *)
THEOREM CallersSafe == Spec => []CallersLive
<1>1. IInv => CallersLive
  <2> SUFFICES ASSUME IInv, NEW k \in DOMAIN calls, calls[k].step \in {"reading", "instantiating", "effects"}
               PROVE  Valid(calls[k].obj)
    BY DEF CallersLive
  <2>1. calls[k] \in Calls /\ CallOK(calls[k])
    BY DEF IInv, CallsOK, Called
  <2>2. calls[k].op # "destroy" \/ calls[k].step = "effects"
    BY <2>1, CallFacts
  <2> QED
    BY <2>1, <2>2 DEF CallOK
<1> QED
  BY <1>1, Invariance, PTL

(* The index loses an entry only to the destruction of its object: loading *)
(* another one, or a script, never drops it (ObjectManager::destroy).      *)
THEOREM EntriesRemain == Spec => EntriesStay
<1> DEFINE Drops(t, i) == \A j \in DOMAIN byTag'[t] : byTag'[t][j] # byTag[t][i]
           Justified(x) == calls' # << >> /\ Last(calls').op = "destroy" /\ Last(calls').obj = x
<1>1. ASSUME IInv, Next, NEW t \in Tag, NEW i \in DOMAIN byTag[t], Drops(t, i)
      PROVE  Justified(byTag[t][i])
  <2>1. PICK x \in Handle : x = byTag[t][i]
    BY <1>1 DEF IInv, TagsOK
  <2>2. Under(x, t) /\ ~Under(x, t)'
    BY <1>1, <2>1 DEF Under
  <2>3. CASE Destroy \/ LoadFails \/ DestroyItem
    <3>1. PICK h \in Handle, outer \in Seq(Calls) : Begins(h, outer)
      BY <1>1, <2>3, DestroyBegins, LoadFailsBegins, DestroyItemBegins
    <3> DEFINE c == Call("destroy", h, "effects", {})
    <3>2. byTag' = Erase(TagOf(h), h) /\ calls' = Append(outer, c) /\ UNCHANGED slots /\ Valid(h)
      BY <3>1 DEF Begins, Begin, TagOf
    <3>3. TagOf(h) \in Tag \cup {NoTag}
      <4>1. SlotOf(h).obj \in Object
        BY <1>1, <3>2, ValidVersion DEF IInv
      <4> QED
        BY <4>1 DEF TagOf, Object
    <3>4. x = h
      BY <1>1, <2>2, <3>2, <3>3, EraseFacts DEF IInv
    <3>5. c \in Calls /\ c.op = "destroy" /\ c.obj = h
      BY DEF Calls, Call
    <3> HIDE DEF c
    <3>6. calls' # << >> /\ Last(calls') = c
      BY <3>2, <3>5 DEF Last
    <3> QED
      BY <2>1, <3>4, <3>5, <3>6
  <2>4. CASE Read \/ Loaded
    <3>1. CallsOK /\ ~FromHost
      BY <1>1, <2>4 DEF IInv, Read, Loaded
    <3>2. Top \in Calls
      BY <3>1, LastCall, SMTT(40)
    <3>3. \E tag, h : byTag' = byTag \/ byTag' = Insert(tag, h)
      BY <2>4 DEF Read, Loaded
    <3>4. PICK tag, h : byTag' = byTag \/ byTag' = Insert(tag, h)
      BY <3>3
    <3>5. CASE byTag' = byTag
      BY <2>2, <3>5 DEF Under
    <3>6. CASE byTag' = Insert(tag, h)
      <4>1. CASE tag = NoTag \/ tag # t
        BY <1>1, <2>2, <3>6, <4>1 DEF Insert, Under, IInv, TagsOK
      <4>2. CASE tag # NoTag /\ tag = t
        <5>1. byTag \in [Tag -> Seq(Handle)] /\ byTag[t] \in Seq(Handle)
          BY <1>1 DEF IInv, TagsOK
        <5>2. byTag'[t] = Append(byTag[t], h)
          BY <3>6, <4>2, <5>1 DEF Insert
        <5>3. i \in DOMAIN byTag'[t] /\ byTag'[t][i] = byTag[t][i]
          BY <5>1, <5>2, <1>1
        <5> QED
          BY <1>1, <5>3
      <4> QED
        BY <4>1, <4>2
    <3> QED
      BY <3>4, <3>5, <3>6, SMTT(40)
  <2>5. CASE ~(Destroy \/ LoadFails \/ DestroyItem) /\ ~(Read \/ Loaded)
    <3>1. byTag' = byTag
      BY <1>1, <2>5 DEF Next, Returning, Make, Load, RemoveComponents, FreeObject, Destroyed, AddItem, RemoveItem
    <3> QED
      BY <2>2, <3>1 DEF Under
  <2> QED
    BY <2>3, <2>4, <2>5
<1>2. ASSUME UNCHANGED vars, NEW t \in Tag, NEW i \in DOMAIN byTag[t], Drops(t, i) PROVE FALSE
  BY <1>2 DEF vars
<1>3. IInv /\ [Next]_vars => [\A t \in Tag : \A i \in DOMAIN byTag[t] :
        (\A j \in DOMAIN byTag'[t] : byTag'[t][j] # byTag[t][i])
          => calls' # << >> /\ Last(calls').op = "destroy" /\ Last(calls').obj = byTag[t][i]]_vars
  BY <1>1, <1>2
<1> QED
  BY <1>3, Invariance, PTL DEF Spec, EntriesStay

(* When the slot of an object is freed, or a destroy returns, every item   *)
(* of the inventory that was emptied before is gone: those the loop        *)
(* destroyed stay gone, and those it passed by were (Inventory::destroy,   *)
(* ObjectComponentSystem::remove_inventory).                               *)
THEOREM ContentsGone == Spec => ContentsDie
<1>1. ASSUME IInv, VInv, Next, ~FromHost,
             NEW owner \in {Top.obj}, NEW i \in Top.items,
             Len(calls') < Len(calls) \/ (Valid(owner) /\ ~Valid(owner)')
      PROVE  ~Valid(i)'
  <2>1. CallsOK /\ Top \in Calls /\ CallOK(Top) /\ calls \in Seq(Calls)
    BY <1>1, LastCall DEF IInv, CallsOK
  <2>2. i \in Handle /\ Known(i) /\ Top.obj \in Handle /\ Known(Top.obj)
    BY <2>1, CallFacts DEF CallOK
  <2>3. CASE Destroyed \/ FreeObject
    <3>1. PICK n \in Nat \ {0} : n = Len(calls)
      BY <1>1, LastCall DEF IInv
    <3>2. Top = calls[n] /\ Last(visited) = visited[n] /\ DOMAIN calls = 1 .. n /\ n \in 1 .. n /\ n + 1 \notin 1 .. n
      BY <1>1, <2>1, <3>1 DEF Top, Last, VInv
    <3>3. VisitOK(n)
      BY <1>1, <3>2 DEF VInv
    <3>4. \A j \in visited[n] : ~Valid(j)
      BY <3>2, <3>3 DEF VisitOK, Destroys
    <3>5. \A j \in ToCome : ~Valid(j)
      BY <2>3 DEF Destroyed, FreeObject, Emptied
    <3>6. ~Valid(i)
      BY <3>2, <3>4, <3>5 DEF ToCome
    <3> QED
      BY <1>1, <2>2, <3>6, StaleKept, SMTT(40)
  <2>4. CASE ~(Destroyed \/ FreeObject)
    <3>1. Valid(owner)' <=> Valid(owner)
      <4>1. owner \in Handle /\ Known(owner)
        BY <2>2
      <4>2. \A g \in Handle : Known(g) => (Valid(g)' <=> Valid(g))
        BY <1>1, <2>4, ValidKept
      <4> QED
        BY <4>1, <4>2
    <3>2. ~(Loaded \/ LoadFails)
      <4>1. Top.op # "destroy" => Top.items = {}
        BY <2>1, CallFacts
      <4>2. Loaded \/ LoadFails => Top.op # "destroy"
        BY <2>1, CallFacts DEF Loaded, LoadFails
      <4> QED
        BY <4>1, <4>2
    <3>3. \/ calls' = calls
          \/ \E c : calls' = Append(calls, c)
          \/ \E c : calls' = [calls EXCEPT ![Len(calls)] = c]
      <4>1. CASE Make \/ AddItem \/ RemoveItem
        BY <4>1 DEF Make, AddItem, RemoveItem
      <4>2. CASE Load \/ Destroy \/ DestroyItem
        BY <4>2 DEF Load, Destroy, DestroyItem, Begin
      <4>3. CASE Read \/ RemoveComponents
        BY <4>3 DEF Read, RemoveComponents
      <4> QED
        BY <1>1, <2>4, <3>2, <4>1, <4>2, <4>3 DEF Next, Returning
    <3>4. Len(calls) \in Nat
      BY <2>1
    <3>5. \A c : Len(Append(calls, c)) = Len(calls) + 1 /\ Len([calls EXCEPT ![Len(calls)] = c]) = Len(calls)
      BY <2>1
    <3>6. ~(Len(calls') < Len(calls))
      BY <3>3, <3>4, <3>5
    <3> QED
      BY <1>1, <3>1, <3>6
  <2> QED
    BY <2>3, <2>4
<1>2. IInv /\ VInv /\ [Next]_vars =>
        [~FromHost => \A owner \in {Top.obj}, i \in Top.items :
           Len(calls') < Len(calls) \/ (Valid(owner) /\ ~Valid(owner)') => ~Valid(i)']_vars
  BY <1>1
<1> QED
  BY <1>2, VInvariance, PTL DEF Spec, ContentsDie

(***************************************************************************)
(* Inventories, when every destructor sweeps: an area, a module, a         *)
(* placeable or a store leaves the items that scripts gave it during its   *)
(* own destruction in the tables.                                          *)
(***************************************************************************)
(* A load nests in a load only: the owner of what it returns is loading. *)
LoadsNest == \A k \in DOMAIN calls : calls[k].op # "destroy" /\ k - 1 \in DOMAIN calls => calls[k - 1].op # "destroy"

OInv == LoadsNest /\ OwnersLive

LEMMA OwnersKept ==
  ASSUME ContentsOK, OwnersLive, contents' \subseteq contents,
         \A p \in contents' : Known(p[1]) /\ Valid(p[1]) => Valid(p[1])'
  PROVE  OwnersLive'
BY DEF ContentsOK, OwnersLive, Valid, SlotOf

LEMMA MadeCalls ==
  ASSUME NEW h \in Handle
  PROVE  /\ Call("destroy", h, "effects", {}) \in Calls /\ Call("destroy", h, "effects", {}).op = "destroy"
         /\ \A op \in {"load", "instance"} :
              Call(op, h, "reading", {}) \in Calls /\ Call(op, h, "reading", {}).op = op
BY DEF Call, Calls

LEMMA OInvStep ==
  ASSUME \A type \in Type : Sweeps(type), IInv, OInv, Next
  PROVE  OInv'
<1>1. SlotsOK /\ ContentsOK /\ CallsOK /\ calls \in Seq(Calls) /\ LoadsNest /\ OwnersLive
  BY DEF IInv, CallsOK, OInv
<1>2. Len(calls) \in Nat /\ DOMAIN calls = 1 .. Len(calls)
  BY <1>1
<1>3. CASE Destroy \/ LoadFails \/ DestroyItem
  <2>1. PICK h \in Handle, outer \in Seq(Calls) : Begins(h, outer)
    BY <1>3, DestroyBegins, LoadFailsBegins, DestroyItemBegins
  <2>2. PICK c \in Calls : c = Call("destroy", h, "effects", {}) /\ c.op = "destroy"
    BY MadeCalls
  <2>3. calls' = Append(outer, c) /\ UNCHANGED <<slots, contents>>
    BY <2>1, <2>2 DEF Begins, Begin
  <2>4. PICK n \in Nat : n = Len(outer)
    OBVIOUS
  <2>5. /\ DOMAIN calls' = 1 .. n + 1 /\ calls'[n + 1] = c
        /\ \A k \in 1 .. n : calls'[k] = calls[k] /\ k \in DOMAIN calls
    BY <2>1, <2>3, <2>4 DEF Begins
  <2>6. \A k \in 1 .. n + 1 : k \in 1 .. n \/ k = n + 1
    OBVIOUS
  <2>7. ASSUME NEW k \in 1 .. n, k - 1 \in 1 .. n + 1 PROVE k - 1 \in 1 .. n
    BY <2>7
  <2>8. LoadsNest'
    BY <1>1, <2>2, <2>5, <2>6, <2>7, SMTT(40) DEF LoadsNest
  <2>9. OwnersLive'
    BY <1>1, <2>3, OwnersKept, SameSlots DEF OwnersLive, Valid, SlotOf
  <2> QED
    BY <2>8, <2>9 DEF OInv
<1>4. CASE Make
  <2>1. PICK type \in Type : Alloc(type)
    BY <1>4 DEF Make
  <2>2. PICK h \in Handle : h = NewHandle(type)
    BY <1>1, NewSlot
  <2>3. \A g \in Handle : Known(g) => (Valid(g)' <=> Valid(g))
    BY <1>1, <2>1, <2>2, AllocFacts
  <2>4. UNCHANGED <<contents, calls>>
    BY <1>4 DEF Make
  <2>5. LoadsNest'
    BY <1>1, <2>4 DEF LoadsNest
  <2>6. \A p \in contents : p[1] \in Handle
    BY <1>1 DEF ContentsOK
  <2> QED
    BY <1>1, <2>3, <2>4, <2>5, <2>6 DEF OInv, OwnersLive, ContentsOK
<1>5. CASE Load
  <2>1. PICK type \in Type, op \in {"load", "instance"} :
          /\ ~FromHost => Nests(type) /\ op = Top.op
          /\ Alloc(type)
          /\ calls' = Append(calls, Call(op, NewHandle(type), "reading", {}))
          /\ UNCHANGED contents
    BY <1>5 DEF Load
  <2>2. PICK h \in Handle : h = NewHandle(type)
    BY <1>1, NewSlot
  <2>3. \A g \in Handle : Known(g) => (Valid(g)' <=> Valid(g))
    BY <1>1, <2>1, <2>2, AllocFacts
  <2>4. PICK c \in Calls : c = Call(op, h, "reading", {}) /\ c.op = op
    BY MadeCalls, SMTT(40)
  <2>5. PICK n \in Nat : n = Len(calls)
    BY <1>2
  <2>6. DOMAIN calls' = 1 .. n + 1 /\ calls'[n + 1] = c /\ \A k \in 1 .. n : calls'[k] = calls[k] /\ k \in DOMAIN calls
    BY <1>1, <2>1, <2>2, <2>4, <2>5
  <2>7. LoadsNest'
    <3> SUFFICES ASSUME NEW k \in 1 .. n + 1, calls'[k].op # "destroy", k - 1 \in 1 .. n + 1
                 PROVE  calls'[k - 1].op # "destroy"
      BY <2>6 DEF LoadsNest
    <3>1. CASE k = n + 1
      <4>1. k - 1 = n /\ n \in 1 .. n /\ n # 0
        BY <3>1
      <4>2. ~FromHost
        BY <2>5, <4>1 DEF FromHost
      <4>3. calls[n].op = op
        BY <2>1, <2>5, <4>2 DEF Top
      <4> QED
        BY <2>6, <4>1, <4>3
    <3>2. CASE k \in 1 .. n
      <4>1. k - 1 \in 1 .. n
        BY <3>2
      <4> QED
        BY <1>1, <2>6, <3>2, <4>1, SMTT(40) DEF LoadsNest
    <3> QED
      BY <3>1, <3>2
  <2>8. \A p \in contents : p[1] \in Handle
    BY <1>1 DEF ContentsOK
  <2> QED
    BY <1>1, <2>1, <2>3, <2>7, <2>8 DEF OInv, OwnersLive, ContentsOK
<1>6. CASE Read \/ RemoveComponents
  <2>1. ~FromHost /\ UNCHANGED free /\ contents' \subseteq contents
    BY <1>6, ZenonT(60) DEF Read, RemoveComponents, Without
  <2>2. PICK n \in Nat \ {0} : n = Len(calls)
    BY <1>1, <2>1, LastCall
  <2>3. Top = calls[n] /\ Top \in Calls /\ CallOK(Top)
    BY <1>1, <2>1, <2>2, LastCall
  <2>4. PICK c : calls' = [calls EXCEPT ![n] = c] /\ c.op = Top.op
    <3>1. CASE Read
      <4>1. \A t \in Calls : [t EXCEPT !.step = "instantiating"].op = t.op
        BY DEF Calls
      <4>2. calls' = [calls EXCEPT ![n] = [calls[n] EXCEPT !.step = "instantiating"]]
        BY <2>2, <3>1 DEF Read
      <4> QED
        BY <2>3, <4>1, <4>2
    <3>2. CASE RemoveComponents
      <4>1. Top.op = "destroy"
        BY <2>3, <3>2, CallFacts DEF RemoveComponents
      <4> DEFINE c == Call("destroy", Top.obj, "components", Items(Top.obj))
      <4>2. calls' = [calls EXCEPT ![n] = c]
        BY <2>2, <3>2 DEF RemoveComponents
      <4>3. c.op = "destroy"
        BY DEF Call
      <4> HIDE DEF c
      <4> QED
        BY <4>1, <4>2, <4>3
    <3> QED
      BY <1>6, <3>1, <3>2
  <2>5. DOMAIN calls' = DOMAIN calls /\ \A k \in DOMAIN calls : calls'[k].op = calls[k].op
    BY <1>1, <2>2, <2>3, <2>4
  <2>6. LoadsNest'
    BY <1>1, <2>5 DEF LoadsNest
  <2>7. OwnersLive'
    <3>1. CASE Read
      <4>1. PICK tag \in Tag \cup {NoTag} :
              slots' = [slots EXCEPT ![ArrayOf(Top.obj.type)][Top.obj.id].obj.tag = tag]
        BY <3>1, ZenonT(60) DEF Read
      <4>2. Top.obj \in Handle /\ Top.op # "destroy"
        BY <2>3, <3>1, CallFacts DEF Read
      <4>3. PICK h \in Handle : h = Top.obj /\ Valid(h) /\ Known(h)
        BY <2>3, <4>2, SMTT(40) DEF CallOK
      <4>4. \A g \in Handle : Known(g) => (Valid(g)' <=> Valid(g))
        BY <1>1, <2>1, <4>1, <4>3, TagFacts
      <4>5. \A p \in contents : p[1] \in Handle
        BY <1>1 DEF ContentsOK
      <4> QED
        BY <1>1, <2>1, <4>4, <4>5, SMTT(40) DEF OwnersLive, ContentsOK
    <3>2. CASE RemoveComponents
      BY <1>1, <2>1, <3>2, SameSlots DEF OwnersLive, RemoveComponents
    <3> QED
      BY <1>6, <3>1, <3>2
  <2> QED
    BY <2>6, <2>7 DEF OInv
<1>7. CASE Loaded \/ Destroyed \/ (FreeObject /\ ~Valid(Top.obj))
  <2>1. ~FromHost /\ calls' = Front(calls) /\ UNCHANGED slots
    BY <1>7, SMTT(40) DEF Loaded, Destroyed, FreeObject, Emptied, Emptying
  <2>2. PICK n \in Nat \ {0} : n = Len(calls)
    BY <1>1, <2>1, LastCall
  <2>3. DOMAIN calls' = 1 .. n - 1 /\ \A k \in 1 .. n - 1 : calls'[k] = calls[k] /\ k \in DOMAIN calls
    BY <1>1, <1>2, <2>1, <2>2, FrontFacts
  <2>4. LoadsNest'
    BY <1>1, <2>3 DEF LoadsNest
  <2>5. \A g : Valid(g)' <=> Valid(g)
    BY <2>1, SameSlots
  <2>6. ASSUME NEW p \in contents' PROVE Valid(p[1])
    <3>1. CASE p \in contents
      BY <1>1, <3>1 DEF OwnersLive
    <3>2. CASE p \notin contents
      <4>1. Loaded /\ Len(calls) > 1 /\ p = <<calls[n - 1].obj, Top.obj>>
        BY <1>7, <2>2, <3>2 DEF Loaded, Destroyed, FreeObject
      <4>2. n \in DOMAIN calls /\ n - 1 \in 1 .. n - 1 /\ Top = calls[n] /\ Top \in Calls
            /\ calls[n - 1] \in Calls /\ CallOK(calls[n - 1])
        BY <1>1, <2>1, <2>2, <4>1, LastCall
      <4>3. Top.op # "destroy"
        BY <4>1, <4>2, CallFacts DEF Loaded
      <4>4. calls[n - 1].op # "destroy"
        BY <1>1, <1>2, <2>3, <4>2, <4>3, SMTT(40) DEF LoadsNest
      <4> QED
        BY <4>1, <4>2, <4>4 DEF CallOK
    <3> QED
      BY <3>1, <3>2
  <2>7. OwnersLive'
    BY <2>5, <2>6 DEF OwnersLive
  <2> QED
    BY <2>4, <2>7 DEF OInv
<1>8. CASE FreeObject /\ Valid(Top.obj)
  <2>1. ~FromHost /\ Top.step = "components"
    BY <1>8 DEF FreeObject, Emptied, Emptying
  <2>2. PICK n \in Nat \ {0} : n = Len(calls)
    BY <1>1, <2>1, LastCall
  <2>3. Top = calls[n] /\ n \in DOMAIN calls /\ Top \in Calls /\ CallOK(Top)
    BY <1>1, <2>1, <2>2, LastCall
  <2>4. Top.op = "destroy" /\ Top.obj \in Handle
    BY <2>1, <2>3, CallFacts
  <2>5. PICK h \in Handle : h = Top.obj /\ Known(h) /\ Valid(h) /\ Sweeps(h.type)
    <3>1. Top.obj.type \in Type
      BY <2>4, Arrays
    <3> QED
      BY <1>8, <2>3, <2>4, <3>1 DEF CallOK
  <2>6. Release(h) /\ contents' = Without(h)
    BY <1>8, <2>5 DEF FreeObject
  <2>7. \A g \in Handle : Known(g) => (Valid(g)' <=> Valid(g) /\ g # h)
    BY <1>1, <2>5, <2>6, ReleaseFacts
  <2>8. OwnersLive'
    BY <1>1, <2>6, <2>7 DEF OwnersLive, ContentsOK, Without
  <2>9. PICK c : calls' = [calls EXCEPT ![n] = c] /\ c.op = "destroy"
    BY <1>8, <2>2 DEF FreeObject, Call
  <2>10. DOMAIN calls' = DOMAIN calls /\ \A k \in DOMAIN calls : calls'[k].op = calls[k].op
    BY <1>1, <2>2, <2>3, <2>4, <2>9
  <2>11. LoadsNest'
    BY <1>1, <2>10 DEF LoadsNest
  <2> QED
    BY <2>8, <2>11 DEF OInv
<1>9. CASE AddItem \/ RemoveItem
  <2>1. UNCHANGED <<slots, calls>>
    BY <1>9 DEF AddItem, RemoveItem
  <2>2. LoadsNest'
    BY <1>1, <2>1 DEF LoadsNest
  <2>3. \A g : Valid(g)' <=> Valid(g)
    BY <2>1, SameSlots
  <2>4. \A p \in contents' : Valid(p[1])
    <3>1. \A h \in Live : Valid(h)
      BY DEF Live
    <3>2. CASE AddItem
      BY <1>1, <3>1, <3>2 DEF AddItem, OwnersLive
    <3>3. CASE RemoveItem
      BY <1>1, <3>3 DEF RemoveItem, OwnersLive
    <3> QED
      BY <1>9, <3>2, <3>3
  <2> QED
    BY <2>2, <2>3, <2>4 DEF OInv, OwnersLive
<1> QED
  BY <1>3, <1>4, <1>5, <1>6, <1>7, <1>8, <1>9 DEF Next, Returning

(* The tables hold no inventory of an object that is gone, if the types of *)
(* object in use are creatures, items and players: for those the           *)
(* destructor sweeps what a script added while the object was destroyed.   *)
THEOREM OwnersSurvive ==
  ASSUME \A type \in Type : Sweeps(type)
  PROVE  Spec => []OwnersLive
<1>1. Init => OInv
  BY DEF Init, OInv, LoadsNest, OwnersLive
<1>2. IInv /\ OInv /\ [Next]_vars => OInv'
  <2> SUFFICES ASSUME IInv, OInv, [Next]_vars PROVE OInv'
    OBVIOUS
  <2>1. CASE Next
    BY <2>1, OInvStep
  <2>2. CASE UNCHANGED vars
    BY <2>2 DEF vars, OInv, LoadsNest, OwnersLive, Valid, SlotOf
  <2> QED
    BY <2>1, <2>2
<1>3. OInv => OwnersLive
  BY DEF OInv
<1> QED
  BY <1>1, <1>2, <1>3, Invariance, PTL DEF Spec

(***************************************************************************)
(* Handles and tags are an ObjectRegistry                                  *)
(***************************************************************************)
SlotsBound == \A a \in Array : Len(slots[a]) <= MaxSlots

RInv == IInv /\ SlotsBound

LEMMA SlotsBoundStep ==
  ASSUME RInv, Next
  PROVE  SlotsBound'
<1>1. SlotsOK /\ CallsOK /\ ContentsOK
  BY DEF RInv, IInv
<1>2. CASE Make \/ Load
  <2>1. PICK type \in Type : Alloc(type)
    BY <1>2 DEF Make, Load
  <2>2. PICK h \in Handle : h = NewHandle(type)
    BY <1>1, NewSlot
  <2>3. Allocated(ArrayOf(type), h, [type |-> type, tag |-> NoTag])
    BY <1>1, <2>1, <2>2, AllocSlots
  <2>4. PICK a \in Array : a = ArrayOf(type)
    BY <1>1, NewSlot
  <2>5. \A b \in Array : b # a => slots'[b] = slots[b]
    BY <2>3, <2>4 DEF Allocated
  <2>6. \A b \in Array : slots[b] \in Seq(Slot) /\ Len(slots[b]) \in Nat
    BY <1>1, SlotTypes
  <2>7. CASE free[a] = << >>
    <3>1. PICK x : slots' = [slots EXCEPT ![a] = Append(@, x)] /\ Len(slots["object"]) + Len(slots["player"]) < MaxSlots
      BY <2>1, <2>4, <2>7 DEF Alloc
    <3>2. slots'[a] = Append(slots[a], x)
      BY <1>1, <3>1 DEF SlotsOK
    <3>3. Len(slots'[a]) = Len(slots[a]) + 1
      BY <2>6, <3>2
    <3>4. Len(slots[a]) + 1 <= MaxSlots
      <4>1. PICK m \in Nat, n \in Nat : m = Len(slots["object"]) /\ n = Len(slots["player"])
        BY <2>6 DEF Array
      <4>2. Len(slots[a]) = m \/ Len(slots[a]) = n
        BY <4>1 DEF Array
      <4>3. m + n < MaxSlots
        BY <3>1, <4>1
      <4> QED
        BY <4>2, <4>3, ObjectAssumption
    <3> QED
      BY <2>5, <3>3, <3>4 DEF RInv, SlotsBound
  <2>8. CASE free[a] # << >>
    <3>1. PICK id, x : slots' = [slots EXCEPT ![a][id].obj = x]
      BY <2>1, <2>4, <2>8 DEF Alloc
    <3>2. slots'[a] = [slots[a] EXCEPT ![id].obj = x]
      BY <1>1, <3>1 DEF SlotsOK
    <3>3. Len(slots'[a]) = Len(slots[a])
      BY <2>6, <3>2
    <3> QED
      BY <2>5, <3>3 DEF RInv, SlotsBound
  <2> QED
    BY <2>7, <2>8
<1>3. CASE Read
  <2>1. ~FromHost /\ Top.step = "reading" /\ UNCHANGED free
    BY <1>3 DEF Read
  <2>2. Top \in Calls /\ CallOK(Top)
    BY <1>1, <2>1, LastCall
  <2>3. PICK h \in Handle : h = Top.obj /\ Known(h) /\ Valid(h)
    BY <2>1, <2>2, CallFacts, SMTT(40) DEF CallOK
  <2>4. PICK tag \in Tag \cup {NoTag} : slots' = [slots EXCEPT ![ArrayOf(h.type)][h.id].obj.tag = tag]
    BY <1>3, <2>3 DEF Read
  <2> QED
    BY <1>1, <2>1, <2>3, <2>4, TagFacts DEF RInv, SlotsBound
<1>4. CASE FreeObject /\ Valid(Top.obj)
  <2>1. ~FromHost /\ Top.step = "components"
    BY <1>4 DEF FreeObject, Emptied, Emptying
  <2>2. PICK h \in Handle : h = Top.obj /\ Valid(h) /\ Release(h)
    BY <1>1, <1>4, <2>1, LastCall, CallFacts DEF FreeObject
  <2>3. PICK new : slots' = [slots EXCEPT ![ArrayOf(h.type)][h.id] = new]
    BY <2>2 DEF Release
  <2>4. \A b \in Array : Len(slots'[b]) = Len(slots[b])
    <3>1. \A b \in Array : slots[b] \in Seq(Slot)
      BY <1>1, SlotTypes
    <3>2. \A b \in Array : slots'[b] = slots[b] \/ slots'[b] = [slots[b] EXCEPT ![h.id] = new]
      BY <1>1, <2>3 DEF SlotsOK
    <3>3. \A s \in Seq(Slot) : Len([s EXCEPT ![h.id] = new]) = Len(s)
      OBVIOUS
    <3> QED
      BY <3>1, <3>2, <3>3
  <2> QED
    BY <2>4 DEF RInv, SlotsBound
<1>5. CASE UNCHANGED slots
  BY <1>5 DEF RInv, SlotsBound
<1>6. Make \/ Load \/ Read \/ (FreeObject /\ Valid(Top.obj)) \/ UNCHANGED slots
  BY DEF Next, Returning, Destroy, Begin, LoadFails, DestroyItem, Loaded, RemoveComponents, FreeObject, Destroyed, AddItem, RemoveItem
<1> QED
  BY <1>2, <1>3, <1>4, <1>5, <1>6

LEMMA RInvariance == Spec => []RInv
<1>1. Init => SlotsBound
  BY ObjectAssumption DEF Init, SlotsBound
<1>2. RInv /\ [Next]_vars => RInv'
  <2> SUFFICES ASSUME RInv, [Next]_vars PROVE RInv'
    OBVIOUS
  <2>1. IInv'
    BY IInvStep DEF RInv
  <2>2. SlotsBound'
    <3>1. CASE Next
      BY <3>1, SlotsBoundStep
    <3>2. CASE UNCHANGED vars
      BY <3>2 DEF vars, RInv, SlotsBound
    <3> QED
      BY <3>1, <3>2
  <2> QED
    BY <2>1, <2>2 DEF RInv
<1> QED
  BY <1>1, <1>2, IInvInit, PTL DEF Spec, RInv

(* A name tells the objects that exist apart. *)
LEMMA SameName ==
  ASSUME NEW g \in Handle, NEW h \in Handle, Known(g), Valid(g), Known(h), Valid(h), NameOf(g) = NameOf(h)
  PROVE  g = h
<1>1. ArrayOf(g.type) = ArrayOf(h.type) /\ g.id = h.id /\ g.version = h.version
  BY DEF NameOf
<1>2. SlotOf(g) = SlotOf(h)
  BY <1>1 DEF SlotOf
<1>3. g.version \in 0 .. MaxVersion /\ h.version \in 0 .. MaxVersion
  BY Arrays
<1>4. g.type = h.type
  BY <1>2, <1>3, ObjectAssumption DEF Known, Valid
<1> QED
  BY <1>1, <1>4 DEF Handle

LEMMA PublishedFacts ==
  ASSUME TagsOK, NEW h \in Handle, Known(h), Valid(h), NEW t \in Tag
  PROVE  NameOf(h) \in Published[t] <=> Under(h, t)
<1>1. NameOf(h) \in Published[t] <=> \E i \in DOMAIN byTag[t] : NameOf(byTag[t][i]) = NameOf(h)
  BY DEF Published
<1>2. ASSUME NEW i \in DOMAIN byTag[t], NameOf(byTag[t][i]) = NameOf(h) PROVE byTag[t][i] = h
  <2>1. PICK g \in Handle : g = byTag[t][i]
    BY DEF TagsOK
  <2>2. Known(g) /\ Valid(g)
    BY <2>1 DEF TagsOK, Under
  <2> QED
    BY <1>2, <2>1, <2>2, SameName
<1> QED
  BY <1>1, <1>2 DEF Under

LEMMA ExistingFacts ==
  ASSUME SlotsOK, SlotsBound, NEW h \in Handle, Valid(h)
  PROVE  NameOf(h) \in Existing /\ NameOf(h) \in Names
<1> DEFINE a == ArrayOf(h.type)
<1>1. a \in Array /\ h.id \in DOMAIN slots[a] /\ SlotOf(h) = slots[a][h.id]
      /\ SlotOf(h).version = h.version /\ SlotOf(h).obj # NoObject
  BY ValidVersion DEF Valid
<1>2. h.id \in Nat \ {0} /\ h.version \in 0 .. MaxVersion /\ Len(slots[a]) \in Nat
      /\ DOMAIN slots[a] = 1 .. Len(slots[a]) /\ Len(slots[a]) <= MaxSlots
  BY <1>1, Arrays, SlotTypes DEF SlotsBound
<1>3. h.id \in 1 .. MaxSlots
  BY <1>1, <1>2, ObjectAssumption
<1>4. NameOf(h) = <<a, h.id, h.version>>
  BY DEF NameOf
<1> HIDE DEF a
<1>5. NameOf(h) \in Names
  BY <1>1, <1>2, <1>3, <1>4 DEF Names
<1>6. Used(slots[a][h.id]) = h.version + 1
  BY <1>1 DEF Used
<1>7. h.version < h.version + 1
  BY <1>2
<1> QED
  BY <1>1, <1>4, <1>5, <1>6, <1>7 DEF Existing, Issued

LEMMA NameFacts ==
  ASSUME NEW n \in Names, NEW h \in Handle
  PROVE  /\ n[1] \in Array /\ n[2] \in 1 .. MaxSlots /\ n[3] \in 0 .. MaxVersion
         /\ n = NameOf(h) <=> n[1] = ArrayOf(h.type) /\ n[2] = h.id /\ n[3] = h.version
<1>1. n = <<n[1], n[2], n[3]>> /\ n[1] \in Array /\ n[2] \in 1 .. MaxSlots /\ n[3] \in 0 .. MaxVersion
  BY DEF Names
<1>2. NameOf(h) = <<ArrayOf(h.type), h.id, h.version>>
  BY DEF NameOf
<1> QED
  BY <1>1, <1>2

(* The sets of names depend on the versions of slots and whether they are  *)
(* taken.                                                                  *)
LEMMA SameNames ==
  ASSUME \A a \in Array : /\ DOMAIN slots'[a] = DOMAIN slots[a]
                          /\ \A id \in DOMAIN slots[a] :
                               /\ slots'[a][id].version = slots[a][id].version
                               /\ slots'[a][id].obj = NoObject <=> slots[a][id].obj = NoObject
  PROVE  Issued' = Issued /\ Existing' = Existing
<1>1. \A n \in Names : n[1] \in Array
  BY DEF Names
<1>2. \A a \in Array : \A id \in DOMAIN slots[a] : Used(slots'[a][id]) = Used(slots[a][id])
  BY DEF Used
<1>3. Issued' = {n \in Names : n[2] \in DOMAIN slots'[n[1]] /\ n[3] < Used(slots'[n[1]][n[2]])}
  BY DEF Issued
<1>4. Issued = {n \in Names : n[2] \in DOMAIN slots[n[1]] /\ n[3] < Used(slots[n[1]][n[2]])}
  BY DEF Issued
<1>5. ASSUME NEW n \in Names PROVE n \in Issued' <=> n \in Issued
  <2>1. CASE n[2] \in DOMAIN slots[n[1]]
    <3>1. Used(slots'[n[1]][n[2]]) = Used(slots[n[1]][n[2]]) /\ n[2] \in DOMAIN slots'[n[1]]
      BY <1>1, <1>2, <2>1
    <3> QED
      BY <1>3, <1>4, <2>1, <3>1
  <2>2. CASE n[2] \notin DOMAIN slots[n[1]]
    BY <1>1, <1>3, <1>4, <2>2
  <2> QED
    BY <2>1, <2>2
<1>6. Issued' = Issued
  BY <1>3, <1>4, <1>5
<1>7. \A n \in Issued : n[1] \in Array /\ n[2] \in DOMAIN slots[n[1]]
  BY <1>1, <1>4
<1>8. Existing' = {n \in Issued : slots'[n[1]][n[2]].obj # NoObject /\ slots'[n[1]][n[2]].version = n[3]}
  BY <1>6 DEF Existing
<1>9. \A n \in Issued : /\ slots'[n[1]][n[2]].version = slots[n[1]][n[2]].version
                        /\ slots'[n[1]][n[2]].obj = NoObject <=> slots[n[1]][n[2]].obj = NoObject
  BY <1>7
<1>10. Existing' = Existing
  BY <1>8, <1>9 DEF Existing
<1> QED
  BY <1>6, <1>10

(* alloc issues the handle. *)
LEMMA AllocNames ==
  ASSUME SlotsOK, SlotsBound', NEW type \in Type, NEW h \in Handle, h = NewHandle(type), Alloc(type)
  PROVE  /\ NameOf(h) \notin Issued
         /\ Issued' = Issued \cup {NameOf(h)} /\ Existing' = Existing \cup {NameOf(h)}
<1> DEFINE o == [type |-> type, tag |-> NoTag]
<1>1. PICK a \in Array : a = ArrayOf(type) /\ h.type = type
  BY NewSlot
<1>2. Allocated(a, h, o)
  BY <1>1, AllocSlots
<1>3. o # NoObject
  BY NoObjectAssumption DEF Object
<1> HIDE DEF o
<1> DEFINE s == slots[a]
           r == slots'[a]
<1>4. /\ r \in Seq(Slot) /\ h.id \in DOMAIN r /\ r[h.id].obj = o /\ r[h.id].version = h.version
      /\ DOMAIN s \subseteq DOMAIN r
      /\ \A id \in DOMAIN r : id # h.id => id \in DOMAIN s /\ r[id] = s[id]
      /\ \A b \in Array : b # a => slots'[b] = slots[b]
  <2>1. s \in Seq(Slot) /\ Len(s) \in Nat /\ DOMAIN s = 1 .. Len(s)
    BY SlotTypes
  <2>2. r \in Seq(Slot) /\ Len(r) \in Nat /\ DOMAIN r = 1 .. Len(r)
    BY <1>2 DEF Allocated
  <2>3. Len(s) <= Len(r)
    BY <1>2 DEF Allocated
  <2>4. DOMAIN s \subseteq DOMAIN r
    <3> HIDE DEF s, r
    <3> QED
      BY <2>1, <2>2, <2>3
  <2>5. r[h.id] = [obj |-> o, version |-> h.version]
    BY <1>2 DEF Allocated
  <2>6. h.id \in DOMAIN r /\ (\A id \in DOMAIN r : id # h.id => id \in DOMAIN s /\ r[id] = s[id])
    BY <1>2, <2>1, <2>2 DEF Allocated
  <2>7. \A b \in Array : b # a => slots'[b] = slots[b]
    BY <1>2 DEF Allocated
  <2> QED
    BY <2>2, <2>4, <2>5, <2>6, <2>7
<1>5. /\ h.id \in DOMAIN s => s[h.id].obj = NoObject /\ s[h.id].version = h.version
      /\ h.id \notin DOMAIN s => h.version = 0
  <2>1. /\ free[a] = << >> => h.id = Len(slots[a]) + 1 /\ h.version = 0
        /\ free[a] # << >> => /\ h.id \in DOMAIN slots[a]
                              /\ h.version = slots[a][h.id].version
                              /\ slots[a][h.id].obj = NoObject
    BY <1>1, NewSlot
  <2>2. Len(slots[a]) + 1 \notin DOMAIN slots[a]
    BY SlotTypes
  <2> QED
    BY <2>1, <2>2
<1>6. h.version \in 0 .. MaxVersion /\ h.id \in Nat \ {0}
  BY Arrays
<1>7. NameOf(h) \in Names
  <2>1. Len(r) \in Nat /\ Len(r) <= MaxSlots /\ DOMAIN r = 1 .. Len(r)
    BY <1>4 DEF SlotsBound
  <2>2. h.id \in 1 .. MaxSlots
    <3> HIDE DEF r
    <3> QED
      BY <1>4, <1>6, <2>1, ObjectAssumption
  <2> QED
    BY <1>1, <1>6, <2>2 DEF Names, NameOf
<1>8. Used(r[h.id]) = h.version + 1 /\ (h.id \in DOMAIN s => Used(s[h.id]) = h.version)
  <2>1. h.version + 0 = h.version
    BY <1>6
  <2> QED
    BY <1>3, <1>4, <1>5, <2>1 DEF Used
<1>9. Issued' = {n \in Names : n[2] \in DOMAIN slots'[n[1]] /\ n[3] < Used(slots'[n[1]][n[2]])}
  BY DEF Issued
<1>10. Issued = {n \in Names : n[2] \in DOMAIN slots[n[1]] /\ n[3] < Used(slots[n[1]][n[2]])}
  BY DEF Issued
<1>11. Existing' = {n \in Issued' : slots'[n[1]][n[2]].obj # NoObject /\ slots'[n[1]][n[2]].version = n[3]}
  BY DEF Existing
<1>12. Existing = {n \in Issued : slots[n[1]][n[2]].obj # NoObject /\ slots[n[1]][n[2]].version = n[3]}
  BY DEF Existing
<1>13. ASSUME NEW n \in Names
       PROVE  /\ n \in Issued' <=> n \in Issued \/ n = NameOf(h)
              /\ n = NameOf(h) => n \notin Issued
              /\ n \in Existing' <=> n \in Existing \/ n = NameOf(h)
  <2>1. /\ n[1] \in Array /\ n[3] \in 0 .. MaxVersion
        /\ n = NameOf(h) <=> n[1] = a /\ n[2] = h.id /\ n[3] = h.version
    BY <1>1, NameFacts
  <2>2. CASE n[1] # a
    <3>1. slots'[n[1]] = slots[n[1]]
      BY <1>4, <2>1, <2>2
    <3> QED
      BY <1>9, <1>10, <1>11, <1>12, <2>1, <2>2, <3>1
  <2>3. CASE n[1] = a /\ n[2] # h.id
    <3>1. n[2] \in DOMAIN r <=> n[2] \in DOMAIN s
      BY <1>4, <2>3
    <3>2. n[2] \in DOMAIN r => r[n[2]] = s[n[2]]
      BY <1>4, <2>3
    <3>3. n \in Issued' <=> n[2] \in DOMAIN r /\ n[3] < Used(r[n[2]])
      BY <1>9, <2>3
    <3>4. n \in Issued <=> n[2] \in DOMAIN s /\ n[3] < Used(s[n[2]])
      BY <1>10, <2>3
    <3>5. n \in Existing' <=> n \in Issued' /\ r[n[2]].obj # NoObject /\ r[n[2]].version = n[3]
      BY <1>11, <2>3
    <3>6. n \in Existing <=> n \in Issued /\ s[n[2]].obj # NoObject /\ s[n[2]].version = n[3]
      BY <1>12, <2>3
    <3> HIDE DEF r, s
    <3> QED
      BY <2>1, <2>3, <3>1, <3>2, <3>3, <3>4, <3>5, <3>6
  <2>4. CASE n[1] = a /\ n[2] = h.id
    <3>1. n = NameOf(h) <=> n[3] = h.version
      BY <2>1, <2>4
    <3>2. n \in Issued' <=> n[3] < h.version + 1
      BY <1>4, <1>8, <1>9, <2>4
    <3>3. n \in Issued <=> h.id \in DOMAIN s /\ n[3] < h.version
      BY <1>8, <1>10, <2>4
    <3>4. n \in Existing' <=> n \in Issued' /\ n[3] = h.version
      BY <1>3, <1>4, <1>11, <2>4
    <3>5. n \notin Existing
      BY <1>5, <1>12, <2>4, <3>3
    <3> HIDE DEF s
    <3> QED
      BY <1>5, <1>6, <2>1, <3>1, <3>2, <3>3, <3>4, <3>5
  <2> QED
    BY <2>2, <2>3, <2>4
<1>14. NameOf(h) \notin Issued
  BY <1>7, <1>13
<1>15. Issued' = Issued \cup {NameOf(h)}
  BY <1>7, <1>9, <1>10, <1>13
<1>16. Existing' = Existing \cup {NameOf(h)}
  BY <1>7, <1>9, <1>10, <1>11, <1>12, <1>13
<1> QED
  BY <1>14, <1>15, <1>16

(* destroy retires it. *)
LEMMA ReleaseNames ==
  ASSUME SlotsOK, NEW h \in Handle, Valid(h), Release(h)
  PROVE  Issued' = Issued /\ Existing' = Existing \ {NameOf(h)}
<1>1. PICK a \in Array : a = ArrayOf(h.type)
  BY Arrays
<1>2. /\ h.id \in DOMAIN slots[a] /\ SlotOf(h) = slots[a][h.id] /\ h.version < MaxVersion
      /\ slots[a][h.id].version = h.version /\ slots[a][h.id].obj # NoObject
  BY <1>1, ValidVersion DEF Valid
<1>3. h.version \in 0 .. MaxVersion
  BY Arrays
<1> DEFINE new == [obj |-> NoObject, version |-> h.version + 1]
<1>4. new \in Slot /\ new.obj = NoObject /\ new.version = h.version + 1
  BY <1>2, <1>3, ObjectAssumption DEF Slot
<1>5. slots' = [slots EXCEPT ![ArrayOf(h.type)][h.id] = new]
  BY <1>2 DEF Release
<1> HIDE DEF new
<1>6. /\ \A b \in Array : DOMAIN slots'[b] = DOMAIN slots[b]
      /\ \A b \in Array : \A id \in DOMAIN slots[b] :
           slots'[b][id] = IF b = a /\ id = h.id THEN new ELSE slots[b][id]
  BY <1>1, <1>4, <1>5, SlotChange
<1>7. Used(new) = h.version + 1 /\ Used(slots[a][h.id]) = h.version + 1
  <2>1. h.version + 1 + 0 = h.version + 1
    BY <1>3
  <2> QED
    BY <1>2, <1>4, <2>1 DEF Used
<1>8. \A b \in Array : \A id \in DOMAIN slots[b] : Used(slots'[b][id]) = Used(slots[b][id])
  BY <1>6, <1>7
<1>9. Issued' = {n \in Names : n[2] \in DOMAIN slots'[n[1]] /\ n[3] < Used(slots'[n[1]][n[2]])}
  BY DEF Issued
<1>10. Issued = {n \in Names : n[2] \in DOMAIN slots[n[1]] /\ n[3] < Used(slots[n[1]][n[2]])}
  BY DEF Issued
<1>11. Existing' = {n \in Issued' : slots'[n[1]][n[2]].obj # NoObject /\ slots'[n[1]][n[2]].version = n[3]}
  BY DEF Existing
<1>12. Existing = {n \in Issued : slots[n[1]][n[2]].obj # NoObject /\ slots[n[1]][n[2]].version = n[3]}
  BY DEF Existing
<1>13. ASSUME NEW n \in Names PROVE n \in Issued' <=> n \in Issued
  <2>0. n[1] \in Array
    BY DEF Names
  <2>1. CASE n[2] \in DOMAIN slots[n[1]]
    <3>1. Used(slots'[n[1]][n[2]]) = Used(slots[n[1]][n[2]]) /\ n[2] \in DOMAIN slots'[n[1]]
      BY <1>6, <1>8, <2>0, <2>1
    <3> QED
      BY <1>9, <1>10, <2>1, <3>1
  <2>2. CASE n[2] \notin DOMAIN slots[n[1]]
    BY <1>6, <1>9, <1>10, <2>0, <2>2
  <2> QED
    BY <2>1, <2>2
<1>14. Issued' = Issued
  BY <1>9, <1>10, <1>13
<1>15. ASSUME NEW n \in Issued
       PROVE  n \in Existing' <=> n \in Existing /\ n # NameOf(h)
  <2>1. /\ n \in Names /\ n[1] \in Array /\ n[2] \in DOMAIN slots[n[1]]
        /\ n = NameOf(h) <=> n[1] = a /\ n[2] = h.id /\ n[3] = h.version
    BY <1>1, <1>10, NameFacts
  <2>2. CASE n[1] = a /\ n[2] = h.id
    BY <1>2, <1>4, <1>6, <1>11, <1>12, <1>14, <2>1, <2>2
  <2>3. CASE ~(n[1] = a /\ n[2] = h.id)
    BY <1>6, <1>11, <1>12, <1>14, <2>1, <2>3
  <2> QED
    BY <2>2, <2>3
<1>16. Existing' = Existing \ {NameOf(h)}
  BY <1>11, <1>12, <1>14, <1>15
<1> QED
  BY <1>14, <1>16

LEMMA PublishedNames ==
  /\ \A t \in Tag : \A n : n \in Published[t] <=> \E g : Under(g, t) /\ n = NameOf(g)
  /\ \A t \in Tag : \A n : n \in Published'[t] <=> \E g : Under(g, t)' /\ n = NameOf(g)
  /\ DOMAIN Published = Tag /\ DOMAIN Published' = Tag
  /\ Published = [t \in Tag |-> Published[t]] /\ Published' = [t \in Tag |-> Published'[t]]
BY DEF Published, Under

LEMMA SamePublished ==
  ASSUME UNCHANGED byTag
  PROVE  Published' = Published
BY DEF Published

(* Only existing objects are published, so their names tell them apart. *)
LEMMA UnderName ==
  ASSUME TagsOK, NEW h \in Handle, Known(h), Valid(h), NEW t \in Tag, NEW g, Under(g, t), NameOf(g) = NameOf(h)
  PROVE  g = h
<1>1. g \in Handle
  BY DEF Under, TagsOK
<1>2. Known(g) /\ Valid(g)
  BY <1>1 DEF TagsOK
<1> QED
  BY <1>1, <1>2, SameName

LEMMA BeginWithdraws ==
  ASSUME RInv, NEW h \in Handle, NEW outer \in Seq(Calls), Begins(h, outer)
  PROVE  (\E t \in Tag : Registry!Withdraw(t)) \/ UNCHANGED <<Issued, Existing, Published>>
<1>1. /\ SlotsOK /\ TagsOK /\ Known(h) /\ Valid(h) /\ UNCHANGED slots /\ byTag' = Erase(TagOf(h), h)
  BY DEF RInv, IInv, Begins, Begin, TagOf
<1>2. TagOf(h) \in Tag \cup {NoTag}
  <2>1. SlotOf(h).obj \in Object
    BY <1>1, ValidVersion
  <2> QED
    BY <2>1 DEF TagOf, Object
<1>3. /\ ~Listed(h)'
      /\ \A t \in Tag : \A g : /\ Under(g, t)' => Under(g, t)
                               /\ Under(g, t) => Under(g, t)' \/ g = h
  BY <1>1, <1>2, EraseFacts
<1>4. Issued' = Issued /\ Existing' = Existing
  BY <1>1, SameNames
<1>5. \A t \in Tag : ~Under(h, t)'
  BY <1>3 DEF Listed
<1>6. ASSUME NEW t \in Tag PROVE Published'[t] = Published[t] \ {NameOf(h)}
  <2>1. ASSUME NEW n \in Published'[t] PROVE n \in Published[t] \ {NameOf(h)}
    <3>1. PICK g : Under(g, t)' /\ n = NameOf(g)
      BY <2>1, PublishedNames
    <3>2. Under(g, t) /\ g # h
      BY <1>3, <1>5, <3>1
    <3>3. n \in Published[t]
      BY <3>1, <3>2, PublishedNames
    <3>4. n # NameOf(h)
      BY <1>1, <3>1, <3>2, UnderName
    <3> QED
      BY <3>3, <3>4
  <2>2. ASSUME NEW n \in Published[t] \ {NameOf(h)} PROVE n \in Published'[t]
    <3>1. PICK g : Under(g, t) /\ n = NameOf(g)
      BY <2>2, PublishedNames
    <3>2. Under(g, t)'
      BY <1>3, <2>2, <3>1
    <3> QED
      BY <3>1, <3>2, PublishedNames
  <2> QED
    BY <2>1, <2>2
<1>7. \A t \in Tag : NameOf(h) \in Published[t] <=> Under(h, t)
  BY <1>1, PublishedFacts
<1>8. CASE \E t \in Tag : Under(h, t)
  <2>1. PICK t \in Tag : Under(h, t)
    BY <1>8
  <2>2. TagOf(h) = t /\ \A u \in Tag : Under(h, u) => TagOf(h) = u
    BY <1>1, <2>1 DEF TagsOK
  <2>3. \A u \in Tag : u # t => Published'[u] = Published[u]
    BY <1>6, <1>7, <2>2
  <2>4. Published' = [Published EXCEPT ![t] = @ \ {NameOf(h)}]
    BY <1>6, <2>3, PublishedNames
  <2>5. NameOf(h) \in Published[t] \ Published'[t]
    BY <1>6, <1>7, <2>1
  <2>6. Registry!Withdraw(t)
    BY <1>4, <2>4, <2>5 DEF Registry!Withdraw
  <2> QED
    BY <2>6
<1>9. CASE ~\E t \in Tag : Under(h, t)
  <2>1. \A t \in Tag : Published'[t] = Published[t]
    BY <1>6, <1>7, <1>9
  <2>2. Published' = Published
    BY <2>1, PublishedNames
  <2> QED
    BY <1>4, <2>2
<1> QED
  BY <1>8, <1>9

LEMMA InsertPublishes ==
  ASSUME RInv, NEW h \in Handle, Known(h), Valid(h), Known(h)', Valid(h)', ~Listed(h),
         NEW tag \in Tag \cup {NoTag}, TagOf(h)' = tag, byTag' = Insert(tag, h),
         \A g \in Handle : Known(g) /\ Listed(g) /\ Valid(g) => Known(g)' /\ Valid(g)' /\ TagOf(g)' = TagOf(g),
         UNCHANGED <<Issued, Existing>>
  PROVE  (\E t \in Tag : Registry!Publish(t)) \/ UNCHANGED <<Issued, Existing, Published>>
<1>1. SlotsOK /\ SlotsBound /\ TagsOK
  BY DEF RInv, IInv
<1>2. /\ TagsOK'
      /\ \A t \in Tag : \A g : (Under(g, t)' => Under(g, t) \/ g = h) /\ (Under(g, t) => Under(g, t)')
      /\ tag \in Tag => Under(h, tag)'
  BY <1>1, InsertFacts
<1>3. CASE tag = NoTag
  <2>1. byTag' = byTag
    BY <1>3 DEF Insert
  <2> QED
    BY <2>1, SamePublished
<1>4. CASE tag \in Tag
  <2>1. \A t \in Tag : Under(h, t)' => t = tag
    BY <1>2 DEF TagsOK
  <2>2. \A t \in Tag : ~Under(h, t)
    BY DEF Listed
  <2>3. ASSUME NEW t \in Tag, t # tag PROVE Published'[t] = Published[t]
    <3>1. \A g : Under(g, t)' <=> Under(g, t)
      BY <1>2, <2>1, <2>3
    <3>2. \A n : n \in Published'[t] <=> n \in Published[t]
      BY <3>1, PublishedNames
    <3>3. Published'[t] = {NameOf(byTag'[t][i]) : i \in DOMAIN byTag'[t]}
          /\ Published[t] = {NameOf(byTag[t][i]) : i \in DOMAIN byTag[t]}
      BY DEF Published
    <3> QED
      BY <3>2, <3>3
  <2>4. Published'[tag] = Published[tag] \cup {NameOf(h)}
    <3>1. \A g : Under(g, tag)' <=> Under(g, tag) \/ g = h
      BY <1>2, <1>4
    <3>2. \A n : n \in Published'[tag] <=> n \in Published[tag] \/ n = NameOf(h)
      BY <1>4, <3>1, PublishedNames
    <3>3. Published'[tag] = {NameOf(byTag'[tag][i]) : i \in DOMAIN byTag'[tag]}
      BY <1>4 DEF Published
    <3> QED
      BY <3>2, <3>3
  <2>5. Published' = [Published EXCEPT ![tag] = @ \cup {NameOf(h)}]
    BY <1>4, <2>3, <2>4, PublishedNames
  <2>6. \A u \in Tag : NameOf(h) \notin Published[u]
    BY <1>1, <2>2, PublishedFacts
  <2>7. NameOf(h) \in Published'[tag] \ Published[tag]
    BY <1>4, <2>4, <2>6
  <2>8. NameOf(h) \in Existing
    BY <1>1, ExistingFacts
  <2>9. Registry!Publish(tag)
    BY <2>5, <2>6, <2>7, <2>8 DEF Registry!Publish
  <2> QED
    BY <1>4, <2>9
<1> QED
  BY <1>3, <1>4

LEMMA RegistryStep ==
  ASSUME RInv, RInv', Next
  PROVE  Registry!Next \/ UNCHANGED <<Issued, Existing, Published>>
<1>1. SlotsOK /\ SlotsBound /\ SlotsBound' /\ TagsOK /\ CallsOK
  BY DEF RInv, IInv
<1>2. CASE Make \/ Load
  <2>1. PICK type \in Type : Alloc(type)
    BY <1>2 DEF Make, Load
  <2>2. PICK h \in Handle : h = NewHandle(type)
    BY <1>1, NewSlot
  <2>3. /\ NameOf(h) \notin Issued
        /\ Issued' = Issued \cup {NameOf(h)} /\ Existing' = Existing \cup {NameOf(h)}
    BY <1>1, <2>1, <2>2, AllocNames
  <2>4. Existing \subseteq Issued
    BY DEF Existing
  <2>5. Published' = Published
    BY <1>2, SamePublished DEF Make, Load
  <2>6. NameOf(h) \in Existing' \ Existing
    BY <2>3, <2>4
  <2>7. Registry!Issue
    BY <2>3, <2>5, <2>6 DEF Registry!Issue
  <2> QED
    BY <2>7 DEF Registry!Next
<1>3. CASE Destroy \/ LoadFails \/ DestroyItem
  <2>1. PICK h \in Handle, outer \in Seq(Calls) : Begins(h, outer)
    BY <1>3, DestroyBegins, LoadFailsBegins, DestroyItemBegins DEF RInv
  <2> QED
    BY <2>1, BeginWithdraws DEF Registry!Next
<1>4. CASE Read
  <2>1. ~FromHost /\ Top.step = "reading" /\ UNCHANGED free
    BY <1>4 DEF Read
  <2>2. Top \in Calls /\ CallOK(Top)
    BY <1>1, <2>1, LastCall
  <2>3. PICK h \in Handle : h = Top.obj /\ Known(h) /\ Valid(h) /\ ~Listed(h)
    BY <2>1, <2>2, CallFacts, SMTT(40) DEF CallOK
  <2>4. PICK tag \in Tag \cup {NoTag} :
          /\ slots' = [slots EXCEPT ![ArrayOf(h.type)][h.id].obj.tag = tag]
          /\ byTag' = IF Top.op = "load" THEN Insert(tag, h) ELSE byTag
    BY <1>4, <2>3, ZenonT(60) DEF Read
  <2>5. /\ TagOf(h)' = tag
        /\ \A g \in Handle : Known(g) =>
             /\ Known(g)' /\ (Valid(g)' <=> Valid(g))
             /\ Valid(g) /\ g # h => SlotOf(g)' = SlotOf(g)
        /\ \A b \in Array : /\ DOMAIN slots'[b] = DOMAIN slots[b]
                            /\ \A id \in DOMAIN slots[b] :
                                 /\ slots'[b][id].version = slots[b][id].version
                                 /\ slots'[b][id].obj = NoObject <=> slots[b][id].obj = NoObject
    BY <1>1, <2>1, <2>3, <2>4, TagFacts, ZenonT(60)
  <2>6. UNCHANGED <<Issued, Existing>>
    BY <2>5, SameNames
  <2>7. \A g \in Handle : Known(g) /\ Listed(g) /\ Valid(g) => Known(g)' /\ Valid(g)' /\ TagOf(g)' = TagOf(g)
    BY <2>3, <2>5 DEF TagOf
  <2>8. CASE Top.op = "load"
    <3>1. byTag' = Insert(tag, h) /\ Known(h)' /\ Valid(h)'
      BY <2>3, <2>4, <2>5, <2>8
    <3>2. (\E t \in Tag : Registry!Publish(t)) \/ UNCHANGED <<Issued, Existing, Published>>
      BY <2>3, <2>5, <2>6, <2>7, <3>1, InsertPublishes, SMTT(60)
    <3>3. CASE \E t \in Tag : Registry!Publish(t)
      BY <3>3, ZenonT(60) DEF Registry!Next
    <3>4. CASE UNCHANGED <<Issued, Existing, Published>>
      BY <3>4, ZenonT(60)
    <3> QED
      BY <3>2, <3>3, <3>4, ZenonT(60)
  <2>9. CASE Top.op # "load"
    BY <2>4, <2>6, <2>9, SamePublished
  <2> QED
    BY <2>8, <2>9
<1>5. CASE Loaded
  <2>1. ~FromHost /\ Top.step = "instantiating" /\ UNCHANGED slots
    BY <1>5 DEF Loaded
  <2>2. Top \in Calls /\ CallOK(Top)
    BY <1>1, <2>1, LastCall
  <2>3. PICK h \in Handle : h = Top.obj /\ Known(h) /\ Valid(h) /\ (Top.op = "instance" => ~Listed(h))
    BY <2>1, <2>2, CallFacts DEF CallOK
  <2>4. UNCHANGED <<Issued, Existing>>
    BY <2>1, SameNames
  <2>5. \A g : (Known(g)' <=> Known(g)) /\ (Valid(g)' <=> Valid(g)) /\ TagOf(g)' = TagOf(g)
    BY <2>1, SameSlots
  <2>6. PICK tag \in Tag \cup {NoTag} : tag = TagOf(h)
    <3>1. SlotOf(h).obj \in Object
      BY <1>1, <2>3, ValidVersion
    <3> QED
      BY <3>1 DEF TagOf, Object
  <2>7. CASE Top.op = "instance"
    <3>1. byTag' = Insert(tag, h) /\ Known(h)' /\ Valid(h)' /\ TagOf(h)' = tag
      BY <1>5, <2>3, <2>5, <2>6, <2>7 DEF Loaded, TagOf
    <3>2. (\E t \in Tag : Registry!Publish(t)) \/ UNCHANGED <<Issued, Existing, Published>>
      BY <2>3, <2>4, <2>5, <2>7, <3>1, InsertPublishes
    <3> QED
      BY <3>2 DEF Registry!Next
  <2>8. CASE Top.op # "instance"
    BY <1>5, <2>4, <2>8, SamePublished DEF Loaded
  <2> QED
    BY <2>7, <2>8
<1>6. CASE FreeObject /\ Valid(Top.obj)
  <2>1. ~FromHost /\ Top.step = "components" /\ UNCHANGED byTag
    BY <1>6 DEF FreeObject, Emptied, Emptying
  <2>2. Top \in Calls /\ CallOK(Top)
    BY <1>1, <2>1, LastCall
  <2>3. PICK h \in Handle : h = Top.obj /\ Known(h) /\ Valid(h) /\ ~Listed(h)
    BY <1>6, <2>1, <2>2, CallFacts DEF CallOK
  <2>4. Release(h)
    BY <1>6, <2>3 DEF FreeObject
  <2>5. Issued' = Issued /\ Existing' = Existing \ {NameOf(h)}
    BY <1>1, <2>3, <2>4, ReleaseNames
  <2>6. NameOf(h) \in Existing
    BY <1>1, <2>3, ExistingFacts
  <2>7. \A t \in Tag : NameOf(h) \notin Published[t]
    BY <1>1, <2>3, PublishedFacts DEF Listed
  <2>8. Published' = Published
    BY <2>1, SamePublished
  <2>9. NameOf(h) \in Existing \ Existing'
    BY <2>5, <2>6
  <2>10. Registry!Retire
    BY <2>5, <2>7, <2>8, <2>9 DEF Registry!Retire
  <2> QED
    BY <2>10 DEF Registry!Next
<1>7. CASE UNCHANGED <<slots, byTag>>
  BY <1>7, SameNames, SamePublished
<1>8. \/ Make \/ Load \/ Destroy \/ LoadFails \/ DestroyItem \/ Read \/ Loaded
      \/ (FreeObject /\ Valid(Top.obj)) \/ UNCHANGED <<slots, byTag>>
  BY DEF Next, Returning, RemoveComponents, FreeObject, Destroyed, AddItem, RemoveItem
<1> QED
  BY <1>2, <1>3, <1>4, <1>5, <1>6, <1>7, <1>8

(* What ObjectManager does is what an ObjectRegistry does: a handle is     *)
(* given out once, and an object is found by a tag while it exists only    *)
(* (ObjectArray, and the tag index of ObjectManager).                      *)
THEOREM RegistryImplemented == Spec => ImplementsRegistry
<1>1. Init => Registry!Init
  <2> SUFFICES ASSUME Init PROVE Registry!Init
    OBVIOUS
  <2>1. slots = [a \in Array |-> << >>] /\ byTag = [t \in Tag |-> << >>]
    BY DEF Init
  <2>2. \A n \in Names : n[1] \in Array
    BY DEF Names
  <2>3. Issued = {}
    BY <2>1, <2>2 DEF Issued
  <2>4. Existing = {}
    BY <2>3 DEF Existing
  <2>5. Published = [t \in Tag |-> {}]
    BY <2>1 DEF Published
  <2> QED
    BY <2>3, <2>4, <2>5 DEF Registry!Init
<1>2. RInv /\ RInv' /\ [Next]_vars => [Registry!Next]_(Registry!vars)
  <2> SUFFICES ASSUME RInv, RInv', [Next]_vars PROVE Registry!Next \/ UNCHANGED <<Issued, Existing, Published>>
    BY DEF Registry!vars
  <2>1. CASE Next
    BY <2>1, RegistryStep
  <2>2. CASE UNCHANGED vars
    BY <2>2, SameNames, SamePublished DEF vars
  <2> QED
    BY <2>1, <2>2
<1> QED
  BY <1>1, <1>2, RInvariance, PTL DEF Spec, ImplementsRegistry, Registry!Spec
=============================================================================
