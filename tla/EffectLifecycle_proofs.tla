------------------------ MODULE EffectLifecycle_proofs ------------------------
(***************************************************************************)
(* Proofs about EffectLifecycle, for every value of its constants.         *)
(*                                                                         *)
(* That the effects of objects exist is not inductive.  A removal waits    *)
(* for on_effects with effects it may destroy afterwards, and an event     *)
(* waits in the queue with an effect it may destroy or apply.  So the      *)
(* invariant says where a handle may be (Placement): on one object, in one *)
(* waiting removal, in one event to apply it; and that whatever is on an   *)
(* object or in a waiting removal exists and is pinned (Held).  Being      *)
(* pinned is what keeps scripts and the collector from destroying it.      *)
(***************************************************************************)
EXTENDS EffectLifecycle, TLAPS

(* The programs respect the discipline on which effects are applied, and    *)
(* there is room for the arguments of on_effects.                           *)
Disciplined == Liberties \cap {"apply_applied", "apply_queued", "heap_full"} = {}

-----------------------------------------------------------------------------
(* The invariant                                                            *)

(* The memory of an effect says its own handle. *)
OwnExact == \A s \in used : own[s] = gen[s]

CallShape ==
  \A i \in DOMAIN calls :
    /\ calls[i].is_apply <=> calls[i].after \in {"return", "adopt"}
    /\ calls[i].runs \in Runs

OnlyExisting == \A o \in Obj : applied[o] # {} => o \in objects

OneCopy ==
  \A o1, o2 \in Obj : \A c1 \in applied[o1], c2 \in applied[o2] :
    c1.handle = c2.handle => o1 = o2 /\ c1 = c2

Removes(i) == i \in DOMAIN calls /\ ~calls[i].is_apply

RemovalsOff == \A i \in DOMAIN calls : Removes(i) => \A h \in calls[i].batch : OnNoObject(h)

RemovalsApart ==
  \A i, j \in DOMAIN calls :
    Removes(i) /\ Removes(j) /\ i # j => calls[i].batch \cap calls[j].batch = {}

(* An event to apply an effect has it for itself; an effect with an event to *)
(* remove it is on no object but the one of the event.                       *)
EventsApart ==
  \A i \in DOMAIN queue :
    /\ queue[i].kind = "apply_effect" =>
         /\ OnNoObject(queue[i].handle)
         /\ \A j \in DOMAIN queue : j # i => queue[j].handle # queue[i].handle
    /\ queue[i].kind = "remove_effect" =>
         \A o \in Obj : queue[i].handle \in HandlesOn(o) => o = queue[i].obj

Placement == CallShape /\ OnlyExisting /\ OneCopy /\ RemovalsOff /\ RemovalsApart /\ EventsApart

InUse(h) ==
  \/ \E o \in Obj : h \in HandlesOn(o)
  \/ \E i \in DOMAIN calls : Removes(i) /\ h \in calls[i].batch

Held == \A h \in Handle : InUse(h) => Valid(h) /\ mode[h] = "ENGINE_OWNED"

IInv == TypeOK /\ OwnExact /\ Placement /\ Held

-----------------------------------------------------------------------------
(* The pool and the registry                                                *)

(* Destroying effects keeps the types of the pool. *)
LEMMA DestroyTypes ==
  ASSUME TypeOK, NEW S \in SUBSET Slot, Destroy(S)
  PROVE  /\ used' \subseteq Slot
         /\ gen' \in [Slot -> 1..MaxGeneration]
         /\ UNCHANGED <<own, desc>>
BY BoundAssumption DEF BoundAssumption, TypeOK, Destroy, NextGen

(* It leaves the effects of the other slots, and what their memory says. *)
LEMMA DestroyKeeps ==
  ASSUME TypeOK, OwnExact, NEW S \in SUBSET Slot, Destroy(S)
  PROVE  /\ OwnExact'
         /\ \A h \in Handle : Valid(h) /\ h.slot \notin S => Valid(h)'
BY DEF TypeOK, OwnExact, Destroy, Valid, OwnHandle, Handle

(* Two effects that exist do not share a slot. *)
LEMMA ValidBySlot ==
  ASSUME NEW g \in Handle, NEW h \in Handle, Valid(g), Valid(h), g.slot = h.slot
  PROVE  g = h
BY DEF Valid, Handle

(* The effect in the slot of a valid handle says that handle of itself. *)
LEMMA OwnOfValid ==
  ASSUME TypeOK, OwnExact, NEW h \in Handle, Valid(h)
  PROVE  OwnHandle(h.slot) = h
BY DEF TypeOK, OwnExact, Valid, OwnHandle, Handle

(* Changing owners and pinning keep the type of the registry, and pinning   *)
(* releases nothing.                                                        *)
LEMMA OwnedTypes ==
  ASSUME TypeOK, NEW S, NEW m \in {"VM_OWNED", "ENGINE_OWNED"}
  PROVE  Owned(S, m) \in [Handle -> {"none", "VM_OWNED", "ENGINE_OWNED"}]
BY DEF TypeOK, Owned

LEMMA PinnedTypes ==
  ASSUME TypeOK, NEW S
  PROVE  /\ Pinned(S) \in [Handle -> {"none", "VM_OWNED", "ENGINE_OWNED"}]
         /\ \A h \in Handle : h \in S \/ mode[h] = "ENGINE_OWNED" => Pinned(S)[h] = "ENGINE_OWNED"
BY DEF TypeOK, Pinned

LEMMA OwnedEngineKeeps ==
  ASSUME TypeOK, NEW S, NEW h \in Handle, mode[h] = "ENGINE_OWNED"
  PROVE  Owned(S, "ENGINE_OWNED")[h] = "ENGINE_OWNED"
BY DEF TypeOK, Owned, Registered

LEMMA OwnedOther ==
  ASSUME TypeOK, NEW S, NEW m, NEW h \in Handle, h \notin S
  PROVE  Owned(S, m)[h] = mode[h]
BY DEF TypeOK, Owned

-----------------------------------------------------------------------------
(* Sequences of calls and events                                            *)
LEMMA HandleOf ==
  ASSUME TypeOK, NEW s \in Slot
  PROVE  OwnHandle(s) \in Handle /\ desc[s] \in Desc /\ Copy(s) \in EffectHandle
BY DEF TypeOK, OwnHandle, Copy, Handle, EffectHandle

LEMMA HandlesOnTypes ==
  ASSUME TypeOK, NEW o \in Obj
  PROVE  HandlesOn(o) \subseteq Handle /\ Slots(HandlesOn(o)) \subseteq Slot
BY DEF TypeOK, HandlesOn, Slots, EffectHandle, Handle

LEMMA BatchTypes ==
  ASSUME TypeOK, NEW i \in DOMAIN calls
  PROVE  calls[i] \in Call /\ calls[i].batch \subseteq Handle /\ Slots(calls[i].batch) \subseteq Slot
<1>1. calls \in Seq(Call)
  BY DEF TypeOK
<1>2. calls[i] \in Call
  BY <1>1
<1> QED
  BY <1>2 DEF Call, Slots, Handle

(* The stack of calls grows by one at its end. *)
LEMMA AwaitCalls ==
  ASSUME TypeOK, CanCall, NEW o \in Obj, NEW S \in SUBSET Slot, NEW isApply \in BOOLEAN,
         NEW after \in {"return", "adopt", "release", "destroy", "clear"},
         Await(o, S, isApply, after)
  PROVE  /\ calls' \in Seq(Call) /\ Len(calls') <= MaxCalls
         /\ DOMAIN calls' = DOMAIN calls \cup {Len(calls) + 1}
         /\ Len(calls) + 1 \notin DOMAIN calls
         /\ \A i \in DOMAIN calls : calls'[i] = calls[i]
         /\ calls'[Len(calls) + 1].is_apply = isApply
         /\ calls'[Len(calls) + 1].after = after
         /\ calls'[Len(calls) + 1].runs \in Runs
         /\ calls'[Len(calls) + 1].batch = {OwnHandle(s) : s \in S}
<1>0. PICK runs \in Runs :
        calls' = Append(calls, [is_apply |-> isApply, obj |-> o, batch |-> {OwnHandle(s) : s \in S},
                                runs |-> runs, after |-> after])
  BY DEF Await
<1> DEFINE c == [is_apply |-> isApply, obj |-> o, batch |-> {OwnHandle(s) : s \in S},
                 runs |-> runs, after |-> after]
<1>1. c \in Call
  <2>1. {OwnHandle(s) : s \in S} \subseteq Handle
    BY HandleOf
  <2>2. runs \in BOOLEAN
    BY DEF Runs
  <2> QED
    BY <2>1, <2>2 DEF Call
<1>2. calls' = Append(calls, c) /\ calls \in Seq(Call)
  BY <1>0 DEF TypeOK
<1>6. c.is_apply = isApply /\ c.after = after /\ c.runs \in Runs /\ c.batch = {OwnHandle(s) : s \in S}
  OBVIOUS
<1> HIDE DEF c
<1>3. calls' \in Seq(Call) /\ Len(calls') = Len(calls) + 1 /\ Len(calls) \in Nat
  BY <1>1, <1>2
<1>4. Len(calls') <= MaxCalls
  BY <1>3, BoundAssumption DEF BoundAssumption, CanCall
<1>5. /\ DOMAIN calls' = DOMAIN calls \cup {Len(calls) + 1}
      /\ Len(calls) + 1 \notin DOMAIN calls
      /\ \A i \in DOMAIN calls : calls'[i] = calls[i]
      /\ calls'[Len(calls) + 1] = c
  BY <1>1, <1>2, <1>3
<1> QED
  BY <1>3, <1>4, <1>5, <1>6

(* The last of a sequence, and what is before it, are of the type of its    *)
(* elements.                                                                *)
LEMMA LastAndFront ==
  ASSUME NEW T, NEW q \in Seq(T), q # << >>
  PROVE  Last(q) \in T /\ Front(q) \in Seq(T)
BY DEF Last, Front

(* The last call returns: the others are as they were. *)
LEMMA ReturnCalls ==
  ASSUME TypeOK, calls # << >>, calls' = Front(calls)
  PROVE  /\ calls' \in Seq(Call) /\ Len(calls') <= MaxCalls
         /\ Len(calls) \in DOMAIN calls
         /\ DOMAIN calls' = DOMAIN calls \ {Len(calls)}
         /\ \A i \in DOMAIN calls' : calls'[i] = calls[i]
<1>1. calls \in Seq(Call) /\ Len(calls) \in Nat \ {0} /\ DOMAIN calls = 1..Len(calls)
  BY DEF TypeOK
<1>2. calls' = SubSeq(calls, 1, Len(calls) - 1)
  BY DEF Front
<1>3. calls' \in Seq(Call) /\ Len(calls') = Len(calls) - 1
  BY <1>1, <1>2
<1>4. \A i \in 1..(Len(calls) - 1) : calls'[i] = calls[i]
  BY <1>1, <1>2
<1>5. Len(calls') <= MaxCalls
  BY <1>1, <1>3, BoundAssumption DEF BoundAssumption, TypeOK
<1>6. DOMAIN calls' = 1..(Len(calls) - 1)
  BY <1>3
<1> QED
  BY <1>1, <1>3, <1>4, <1>5, <1>6

(* The first event is taken: the others move up. *)
LEMMA ProcessQueue ==
  ASSUME TypeOK, queue # << >>, queue' = Tail(queue)
  PROVE  /\ queue' \in Seq(Event) /\ Len(queue') <= MaxEvents
         /\ Head(queue) = queue[1] /\ 1 \in DOMAIN queue /\ Head(queue) \in Event
         /\ \A i \in DOMAIN queue' : i + 1 \in DOMAIN queue /\ i + 1 # 1 /\ queue'[i] = queue[i + 1]
<1>1. queue \in Seq(Event) /\ Len(queue) \in Nat \ {0} /\ Len(queue) <= MaxEvents
  BY DEF TypeOK
<1>2. queue' \in Seq(Event) /\ Len(queue') = Len(queue) - 1
  BY <1>1
<1>3. Len(queue') <= MaxEvents
  BY <1>1, <1>2, BoundAssumption DEF BoundAssumption
<1>4. \A i \in 1..(Len(queue) - 1) : queue'[i] = queue[i + 1]
  BY <1>1
<1> QED
  BY <1>1, <1>2, <1>3, <1>4

-----------------------------------------------------------------------------
(* Steps that leave objects, calls and queue alone                          *)
LEMMA PoolStep ==
  ASSUME IInv, UNCHANGED <<objects, applied, calls, queue>>,
         TypeOK', OwnExact',
         \A h \in Handle : InUse(h) => Valid(h)' /\ mode'[h] = "ENGINE_OWNED"
  PROVE  IInv'
<1>1. Placement'
  BY DEF IInv, Placement, CallShape, OnlyExisting, OneCopy, RemovalsOff, RemovalsApart, EventsApart,
         Removes, OnNoObject, HandlesOn
<1>2. \A h \in Handle : InUse(h)' <=> InUse(h)
  BY DEF InUse, Removes, HandlesOn
<1>3. Held'
  BY <1>2 DEF Held
<1> QED
  BY <1>1, <1>3 DEF IInv

LEMMA CreateKeepsIInv ==
  ASSUME IInv, NEW s \in Slot, Create(s) PROVE IInv'
<1> DEFINE n == [slot |-> s, gen |-> gen[s]]
<1>1. n \in Handle
  BY DEF IInv, TypeOK, Handle
<1>2. TypeOK'
  <2>1. mode' \in [Handle -> {"none", "VM_OWNED", "ENGINE_OWNED"}] /\ held' \subseteq Handle
    BY <1>1 DEF IInv, TypeOK, Create
  <2>2. own' \in [Slot -> 1..MaxGeneration] /\ desc' \in [Slot -> Desc] /\ used' \subseteq Slot
    BY DEF IInv, TypeOK, Create, Desc
  <2> QED
    BY <2>1, <2>2 DEF IInv, TypeOK, Create
<1>3. OwnExact'
  BY DEF IInv, TypeOK, OwnExact, Create
<1>4. ASSUME NEW h \in Handle, InUse(h) PROVE Valid(h)' /\ mode'[h] = "ENGINE_OWNED"
  <2>1. Valid(h) /\ mode[h] = "ENGINE_OWNED"
    BY <1>4 DEF IInv, Held
  <2> QED
    BY <1>1, <2>1 DEF Valid, Create, IInv, TypeOK, Registered
<1> QED
  BY <1>2, <1>3, <1>4, PoolStep DEF Create

LEMMA SetTypeKeepsIInv ==
  ASSUME IInv, NEW h \in Handle, NEW t \in Type, SetType(h, t) PROVE IInv'
<1>1. TypeOK'
  <2>1. desc' \in [Slot -> Desc]
    BY ZenonT(60) DEF IInv, TypeOK, SetType, Desc, Handle
  <2> QED
    BY <2>1 DEF IInv, TypeOK, SetType
<1>2. OwnExact'
  BY DEF IInv, OwnExact, SetType
<1>3. \A g \in Handle : InUse(g) => Valid(g)' /\ mode'[g] = "ENGINE_OWNED"
  BY DEF IInv, Held, Valid, SetType
<1> QED
  BY <1>1, <1>2, <1>3, PoolStep DEF SetType

LEMMA PinKeepsIInv ==
  ASSUME IInv, NEW h \in Handle, Pin(h) PROVE IInv'
<1>1. TypeOK'
  BY OwnedTypes DEF IInv, TypeOK, Pin, poolVars
<1>2. OwnExact'
  BY DEF IInv, OwnExact, Pin, poolVars
<1>3. \A g \in Handle : InUse(g) => Valid(g)' /\ mode'[g] = "ENGINE_OWNED"
  BY OwnedEngineKeeps DEF IInv, Held, Valid, Pin, poolVars
<1> QED
  BY <1>1, <1>2, <1>3, PoolStep DEF Pin

(* A script destroys what is VM_OWNED only, and what is in use is not. *)
LEMMA ScriptDestroyKeepsIInv ==
  ASSUME IInv, NEW h \in Handle, ScriptDestroy(h) PROVE IInv'
<1>1. TypeOK /\ OwnExact /\ {h.slot} \in SUBSET Slot /\ Destroy({h.slot}) /\ Valid(h)
  BY DEF IInv, Handle, ScriptDestroy, Native
<1>2. TypeOK'
  BY <1>1, DestroyTypes DEF TypeOK, ScriptDestroy
<1>3. OwnExact'
  BY <1>1, DestroyKeeps
<1>4. ASSUME NEW g \in Handle, InUse(g) PROVE Valid(g)' /\ mode'[g] = "ENGINE_OWNED"
  <2>1. Valid(g) /\ mode[g] = "ENGINE_OWNED"
    BY <1>4 DEF IInv, Held
  <2>2. g.slot # h.slot
    BY <1>1, <2>1, ValidBySlot DEF ScriptDestroy
  <2> QED
    BY <1>1, <2>1, <2>2, DestroyKeeps DEF ScriptDestroy
<1> QED
  BY <1>2, <1>3, <1>4, PoolStep DEF ScriptDestroy

(* The collector frees cells that are VM_OWNED only. *)
LEMMA CollectKeepsIInv ==
  ASSUME IInv, NEW h \in Handle, Collect(h) PROVE IInv'
<1>1. TypeOK' /\ OwnExact'
  BY DEF IInv, TypeOK, OwnExact, Collect, poolVars
<1>2. \A g \in Handle : InUse(g) => Valid(g)' /\ mode'[g] = "ENGINE_OWNED"
  BY DEF IInv, Held, Valid, Collect, poolVars, TypeOK
<1> QED
  BY <1>1, <1>2, PoolStep DEF Collect

LEMMA HoldingKeepsIInv ==
  ASSUME IInv, NEW h \in Handle, Keep(h) \/ Drop(h) PROVE IInv'
<1>1. TypeOK' /\ OwnExact'
  BY DEF IInv, TypeOK, OwnExact, Keep, Drop, poolVars
<1>2. \A g \in Handle : InUse(g) => Valid(g)' /\ mode'[g] = "ENGINE_OWNED"
  BY DEF IInv, Held, Valid, Keep, Drop, poolVars
<1> QED
  BY <1>1, <1>2, PoolStep DEF Keep, Drop

-----------------------------------------------------------------------------
(* Applications and removals                                                *)

(* What the queue may become in a step of apply_to or remove_from *)
Shortens == UNCHANGED queue \/ (queue # << >> /\ queue' = Tail(queue))

(* A shorter queue has its events from the queue before. *)
LEMMA ShortensEvents ==
  ASSUME TypeOK, Shortens
  PROVE  /\ queue' \in Seq(Event) /\ Len(queue') <= MaxEvents
         /\ \A i \in DOMAIN queue' : \E k \in DOMAIN queue : queue'[i] = queue[k]
         /\ EventsApart => \A i, j \in DOMAIN queue' : i # j /\ queue'[i].kind = "apply_effect" =>
              queue'[j].handle # queue'[i].handle
<1>1. CASE UNCHANGED queue
  BY <1>1 DEF TypeOK, EventsApart
<1>2. CASE queue # << >> /\ queue' = Tail(queue)
  <2>1. /\ queue' \in Seq(Event) /\ Len(queue') <= MaxEvents
        /\ \A i \in DOMAIN queue' : i + 1 \in DOMAIN queue /\ i + 1 # 1 /\ queue'[i] = queue[i + 1]
    BY <1>2, ProcessQueue
  <2>2. \A i, j \in DOMAIN queue' : i # j => i + 1 # j + 1
    <3>1. DOMAIN queue' \subseteq Nat
      BY <2>1
    <3> QED
      BY <3>1
  <2> QED
    BY <2>1, <2>2 DEF EventsApart
<1> QED
  BY <1>1, <1>2 DEF Shortens

(* apply_to puts an effect on an object that was on none. *)
LEMMA ApplyToKeepsIInv ==
  ASSUME IInv, NEW o \in Obj, o \in objects, NEW h \in Handle, Valid(h), NEW d \in Desc,
         NEW after \in {"return", "adopt"}, ApplyTo(o, h.slot, d, after),
         OnNoObject(h), InNoCall(h),
         UNCHANGED <<objects, used, gen, own, held, dying>>, desc' \in [Slot -> Desc],
         Shortens, \A i \in DOMAIN queue' : queue'[i].handle # h
  PROVE  IInv'
<1> DEFINE n == Len(calls) + 1
           c == [handle |-> h, desc |-> d]
<1>1. TypeOK /\ OwnExact /\ Placement /\ Held /\ h.slot \in Slot /\ OwnHandle(h.slot) = h
  BY OwnOfValid DEF IInv, Handle
<1>2. c \in EffectHandle
  BY DEF EffectHandle
<1>3. applied' = [applied EXCEPT ![o] = @ \cup {c}] /\ mode' = Pinned({h}) /\ CanCall
      /\ Await(o, {h.slot}, TRUE, after)
  BY <1>1 DEF ApplyTo
<1>4. /\ calls' \in Seq(Call) /\ Len(calls') <= MaxCalls
      /\ DOMAIN calls' = DOMAIN calls \cup {n} /\ n \notin DOMAIN calls
      /\ \A i \in DOMAIN calls : calls'[i] = calls[i]
      /\ calls'[n].is_apply /\ calls'[n].after = after /\ calls'[n].runs \in Runs
  BY <1>1, <1>3, AwaitCalls
<1> HIDE DEF n
<1>5. \A p \in Obj : applied'[p] = IF p = o THEN applied[p] \cup {c} ELSE applied[p]
  BY <1>1, <1>3 DEF TypeOK
<1>6. \A p \in Obj : HandlesOn(p)' = IF p = o THEN HandlesOn(p) \cup {h} ELSE HandlesOn(p)
  <2>1. c.handle = h
    OBVIOUS
  <2> HIDE DEF c
  <2>2. ASSUME NEW p \in Obj
        PROVE  HandlesOn(p)' = {e.handle : e \in IF p = o THEN applied[p] \cup {c} ELSE applied[p]}
    BY <1>5 DEF HandlesOn
  <2> QED
    BY <2>1, <2>2 DEF HandlesOn
<1> HIDE DEF c
<1>7. \A i : Removes(i)' => Removes(i) /\ i \in DOMAIN calls /\ calls'[i] = calls[i]
  BY <1>4 DEF Removes
<1>8. \A g : OnNoObject(g) /\ g # h => OnNoObject(g)'
  BY <1>6 DEF OnNoObject
<1>9. TypeOK'
  <2>1. applied' \in [Obj -> SUBSET EffectHandle]
    BY <1>1, <1>2, <1>3 DEF TypeOK
  <2>2. mode' \in [Handle -> {"none", "VM_OWNED", "ENGINE_OWNED"}]
    BY <1>1, <1>3, PinnedTypes
  <2>3. queue' \in Seq(Event) /\ Len(queue') <= MaxEvents
    BY <1>1, ShortensEvents
  <2> QED
    BY <1>1, <1>4, <2>1, <2>2, <2>3 DEF TypeOK
<1>10. OwnExact'
  BY <1>1 DEF OwnExact
<1>11. Placement'
  <2>1. CallShape'
    BY <1>1, <1>4 DEF Placement, CallShape
  <2>2. OnlyExisting'
    BY <1>1, <1>5 DEF Placement, OnlyExisting
  <2>3. OneCopy'
    <3> SUFFICES ASSUME NEW o1 \in Obj, NEW o2 \in Obj,
                        NEW c1 \in applied'[o1], NEW c2 \in applied'[o2], c1.handle = c2.handle
                 PROVE  o1 = o2 /\ c1 = c2
      BY DEF OneCopy
    <3>1. \A p \in Obj : \A e \in applied[p] : e.handle # h
      BY DEF OnNoObject, HandlesOn
    <3>2. c.handle = h
      BY DEF c
    <3>3. (c1 \in applied[o1] \/ (c1 = c /\ o1 = o)) /\ (c2 \in applied[o2] \/ (c2 = c /\ o2 = o))
      BY <1>5
    <3> QED
      BY <1>1, <3>1, <3>2, <3>3 DEF Placement, OneCopy
  <2>4. RemovalsOff'
    <3> SUFFICES ASSUME NEW i \in DOMAIN calls', Removes(i)', NEW g \in calls'[i].batch
                 PROVE  OnNoObject(g)'
      BY DEF RemovalsOff
    <3>1. Removes(i) /\ i \in DOMAIN calls /\ g \in calls[i].batch
      BY <1>7
    <3>2. g # h
      BY <3>1 DEF InNoCall
    <3>3. OnNoObject(g)
      BY <1>1, <3>1 DEF Placement, RemovalsOff
    <3> QED
      BY <1>8, <3>2, <3>3
  <2>5. RemovalsApart'
    BY <1>1, <1>7 DEF Placement, RemovalsApart
  <2>6. EventsApart'
    <3> SUFFICES ASSUME NEW i \in DOMAIN queue'
                 PROVE  /\ queue'[i].kind = "apply_effect" =>
                             /\ OnNoObject(queue[i].handle)'
                             /\ \A j \in DOMAIN queue' : j # i => queue'[j].handle # queue'[i].handle
                        /\ queue'[i].kind = "remove_effect" =>
                             \A p \in Obj : queue'[i].handle \in HandlesOn(p)' => p = queue'[i].obj
      BY DEF EventsApart
    <3>1. PICK k \in DOMAIN queue : queue'[i] = queue[k]
      BY <1>1, ShortensEvents
    <3>2. queue'[i].kind = "apply_effect" => OnNoObject(queue[i].handle)'
      BY <1>1, <1>8, <3>1 DEF Placement, EventsApart
    <3>3. queue'[i].kind = "remove_effect" =>
            \A p \in Obj : queue'[i].handle \in HandlesOn(p)' => p = queue'[i].obj
      BY <1>1, <1>6, <3>1 DEF Placement, EventsApart
    <3> QED
      BY <1>1, <3>2, <3>3, ShortensEvents DEF Placement
  <2> QED
    BY <2>1, <2>2, <2>3, <2>4, <2>5, <2>6 DEF Placement
<1>12. Held'
  <2> SUFFICES ASSUME NEW g \in Handle, InUse(g)' PROVE Valid(g)' /\ mode'[g] = "ENGINE_OWNED"
    BY DEF Held
  <2>1. g = h \/ InUse(g)
    BY <1>6, <1>7 DEF InUse
  <2>2. Valid(g) /\ (g = h \/ mode[g] = "ENGINE_OWNED")
    BY <1>1, <2>1 DEF Held
  <2> QED
    BY <1>1, <1>3, <2>2, PinnedTypes DEF Valid
<1> QED
  BY <1>9, <1>10, <1>11, <1>12 DEF IInv

(* Taking effects off objects leaves the rest of the placement. *)
LEMMA FewerEvents ==
  ASSUME TypeOK, EventsApart, Shortens, \A p \in Obj : HandlesOn(p)' \subseteq HandlesOn(p)
  PROVE  EventsApart'
<1> SUFFICES ASSUME NEW i \in DOMAIN queue'
             PROVE  /\ queue'[i].kind = "apply_effect" =>
                         /\ OnNoObject(queue[i].handle)'
                         /\ \A j \in DOMAIN queue' : j # i => queue'[j].handle # queue'[i].handle
                    /\ queue'[i].kind = "remove_effect" =>
                         \A p \in Obj : queue'[i].handle \in HandlesOn(p)' => p = queue'[i].obj
  BY DEF EventsApart
<1>1. PICK k \in DOMAIN queue : queue'[i] = queue[k]
  BY ShortensEvents
<1>2. \A g : OnNoObject(g) => OnNoObject(g)'
  BY DEF OnNoObject
<1>3. queue'[i].kind = "apply_effect" => OnNoObject(queue[i].handle)'
  BY <1>1, <1>2 DEF EventsApart
<1>4. queue'[i].kind = "remove_effect" =>
        \A p \in Obj : queue'[i].handle \in HandlesOn(p)' => p = queue'[i].obj
  BY <1>1 DEF EventsApart
<1> QED
  BY <1>3, <1>4, ShortensEvents

(* remove_from takes effects from an object to a waiting removal, pinned. *)
LEMMA RemoveFromKeepsIInv ==
  ASSUME IInv, NEW o \in Obj, NEW S \in SUBSET Slot, NEW after \in {"release", "destroy", "clear"},
         RemoveFrom(o, S, after),
         UNCHANGED <<objects, poolVars, held, dying>>, Shortens
  PROVE  IInv'
<1> DEFINE n == Len(calls) + 1
           gone == Removable(o, S)
           batch == {OwnHandle(s) : s \in gone}
<1>1. TypeOK /\ OwnExact /\ Placement /\ Held /\ gone \in SUBSET Slot
  BY DEF IInv, Removable
<1>2. applied' = [applied EXCEPT ![o] = @ \ {Copy(s) : s \in gone}] /\ mode' = Pinned(batch) /\ CanCall
      /\ Await(o, gone, FALSE, after)
  BY DEF RemoveFrom
<1>3. /\ calls' \in Seq(Call) /\ Len(calls') <= MaxCalls
      /\ DOMAIN calls' = DOMAIN calls \cup {n} /\ n \notin DOMAIN calls
      /\ \A i \in DOMAIN calls : calls'[i] = calls[i]
      /\ ~calls'[n].is_apply /\ calls'[n].after = after /\ calls'[n].runs \in Runs
      /\ calls'[n].batch = batch
  BY <1>1, <1>2, AwaitCalls
<1>4. batch \subseteq HandlesOn(o) /\ batch \subseteq Handle
  <2>1. \A s \in gone : Copy(s) \in applied[o] /\ Copy(s).handle = OwnHandle(s)
    BY DEF Removable, Copy
  <2>2. \A s \in gone : OwnHandle(s) \in HandlesOn(o)
    BY <2>1 DEF HandlesOn
  <2> QED
    BY <1>1, <2>2, HandlesOnTypes
<1>5. \A p \in Obj : applied'[p] = IF p = o THEN applied[p] \ {Copy(s) : s \in gone} ELSE applied[p]
  BY <1>1, <1>2 DEF TypeOK
<1>6. \A p \in Obj : HandlesOn(p)' \subseteq HandlesOn(p)
  BY <1>5 DEF HandlesOn
<1>7. \A h \in batch : OnNoObject(h)'
  <2> SUFFICES ASSUME NEW s \in gone, NEW p \in Obj, NEW e \in applied'[p], e.handle = OwnHandle(s)
               PROVE  FALSE
    BY DEF OnNoObject, HandlesOn
  <2>1. Copy(s) \in applied[o] /\ Copy(s).handle = OwnHandle(s) /\ e \in applied[p]
    BY <1>5 DEF Removable, Copy
  <2>2. p = o /\ e = Copy(s)
    BY <1>1, <2>1 DEF Placement, OneCopy
  <2> QED
    BY <1>5, <2>2
<1>8. \A i : i # n /\ Removes(i)' => Removes(i) /\ i \in DOMAIN calls /\ calls'[i] = calls[i]
  BY <1>3 DEF Removes
<1>9. \A g : OnNoObject(g) => OnNoObject(g)'
  BY <1>6 DEF OnNoObject
<1> HIDE DEF n, gone, batch
<1>10. TypeOK'
  <2>1. applied' \in [Obj -> SUBSET EffectHandle]
    BY <1>1, <1>2 DEF TypeOK
  <2>2. mode' \in [Handle -> {"none", "VM_OWNED", "ENGINE_OWNED"}]
    BY <1>1, <1>2, PinnedTypes
  <2>3. queue' \in Seq(Event) /\ Len(queue') <= MaxEvents
    BY <1>1, ShortensEvents
  <2> QED
    BY <1>1, <1>3, <2>1, <2>2, <2>3 DEF TypeOK, poolVars
<1>11. OwnExact'
  BY <1>1 DEF OwnExact, poolVars
<1>12. Placement'
  <2>1. CallShape'
    BY <1>1, <1>3 DEF Placement, CallShape
  <2>2. OnlyExisting'
    BY <1>1, <1>5 DEF Placement, OnlyExisting
  <2>3. OneCopy'
    <3>1. \A p \in Obj : applied'[p] \subseteq applied[p]
      BY <1>5
    <3> QED
      BY <1>1, <3>1 DEF Placement, OneCopy
  <2>4. RemovalsOff'
    <3> SUFFICES ASSUME NEW i \in DOMAIN calls', Removes(i)', NEW g \in calls'[i].batch
                 PROVE  OnNoObject(g)'
      BY DEF RemovalsOff
    <3>1. CASE i = n
      BY <1>3, <1>7, <3>1
    <3>2. CASE i # n
      BY <1>1, <1>8, <1>9, <3>2 DEF Placement, RemovalsOff
    <3> QED
      BY <3>1, <3>2
  <2>5. RemovalsApart'
    <3>1. \A i \in DOMAIN calls : Removes(i) => calls[i].batch \cap batch = {}
      BY <1>1, <1>4 DEF Placement, RemovalsOff, OnNoObject
    <3>2. calls'[n].batch = batch
      BY <1>3
    <3> QED
      BY <1>1, <1>8, <3>1, <3>2 DEF Placement, RemovalsApart
  <2>6. EventsApart'
    BY <1>1, <1>6, FewerEvents DEF Placement
  <2> QED
    BY <2>1, <2>2, <2>3, <2>4, <2>5, <2>6 DEF Placement
<1>13. Held'
  <2> SUFFICES ASSUME NEW g \in Handle, InUse(g)' PROVE Valid(g)' /\ mode'[g] = "ENGINE_OWNED"
    BY DEF Held
  <2>1. InUse(g)
    <3>1. CASE g \in batch
      BY <1>4, <3>1 DEF InUse
    <3>2. CASE g \notin batch
      <4>1. calls'[n].batch = batch
        BY <1>3
      <4> QED
        BY <1>6, <1>8, <3>2, <4>1 DEF InUse
    <3> QED
      BY <3>1, <3>2
  <2>2. Valid(g) /\ mode[g] = "ENGINE_OWNED"
    BY <1>1, <2>1 DEF Held
  <2> QED
    BY <1>1, <1>2, <2>2, PinnedTypes DEF Valid, poolVars
<1> QED
  BY <1>10, <1>11, <1>12, <1>13 DEF IInv

-----------------------------------------------------------------------------
(* on_effects returns                                                       *)

(* With a call and effects of objects gone the placement is as good. *)
LEMMA ReturnPlacement ==
  ASSUME IInv, calls # << >>, calls' = Front(calls), UNCHANGED queue,
         \A p \in Obj : applied'[p] \subseteq applied[p],
         \A p \in Obj : applied'[p] # {} => p \in objects'
  PROVE  /\ Placement'
         /\ \A i : Removes(i)' => Removes(i) /\ i # Len(calls) /\ calls'[i] = calls[i]
         /\ \A p \in Obj : HandlesOn(p)' \subseteq HandlesOn(p)
<1>1. TypeOK /\ Placement
  BY DEF IInv
<1>2. /\ Len(calls) \in DOMAIN calls
      /\ DOMAIN calls' = DOMAIN calls \ {Len(calls)}
      /\ \A i \in DOMAIN calls' : calls'[i] = calls[i]
  BY <1>1, ReturnCalls
<1>3. \A i : Removes(i)' => Removes(i) /\ i # Len(calls) /\ i \in DOMAIN calls /\ calls'[i] = calls[i]
  BY <1>2 DEF Removes
<1>4. \A p \in Obj : HandlesOn(p)' \subseteq HandlesOn(p)
  BY DEF HandlesOn
<1>5. \A g : OnNoObject(g) => OnNoObject(g)'
  BY <1>4 DEF OnNoObject
<1>6. CallShape'
  BY <1>1, <1>2 DEF Placement, CallShape
<1>7. OnlyExisting' /\ OneCopy'
  BY <1>1 DEF Placement, OnlyExisting, OneCopy
<1>8. RemovalsOff'
  <2> SUFFICES ASSUME NEW i \in DOMAIN calls', Removes(i)', NEW g \in calls'[i].batch
               PROVE  OnNoObject(g)'
    BY DEF RemovalsOff
  <2> QED
    BY <1>1, <1>3, <1>5 DEF Placement, RemovalsOff
<1>9. RemovalsApart'
  BY <1>1, <1>3 DEF Placement, RemovalsApart
<1>10. EventsApart'
  BY <1>1, <1>4, FewerEvents DEF Placement, Shortens
<1> QED
  BY <1>3, <1>4, <1>6, <1>7, <1>8, <1>9, <1>10 DEF Placement

(* What else is in use than a removal's batch is other effects. *)
LEMMA BatchApart ==
  ASSUME IInv, NEW i \in DOMAIN calls, Removes(i), NEW g \in Handle,
         \/ \E o \in Obj : g \in HandlesOn(o)
         \/ \E j \in DOMAIN calls : Removes(j) /\ j # i /\ g \in calls[j].batch
  PROVE  g \notin calls[i].batch /\ Valid(g) /\ g.slot \notin Slots(calls[i].batch)
<1>1. g \notin calls[i].batch
  BY DEF IInv, Placement, RemovalsOff, RemovalsApart, OnNoObject
<1>2. Valid(g) /\ \A h \in calls[i].batch : h \in Handle /\ Valid(h)
  <2>1. calls[i].batch \subseteq Handle
    BY BatchTypes DEF IInv
  <2> QED
    BY <2>1 DEF IInv, Held, InUse
<1> QED
  BY <1>1, <1>2, ValidBySlot DEF Slots

(* An application returns: nothing is released. *)
LEMMA ApplyReturnsKeepsIInv ==
  ASSUME IInv, Disciplined, Return, Last(calls).is_apply PROVE IInv'
<1> DEFINE c == calls[Len(calls)]
<1>1. calls # << >> /\ calls' = Front(calls) /\ UNCHANGED <<held, queue>> /\ Last(calls) = c
  BY DEF Return, Last
<1>2. Len(calls) \in DOMAIN calls /\ calls' \in Seq(Call) /\ Len(calls') <= MaxCalls
  BY <1>1, ReturnCalls DEF IInv
<1>3. c.after \in {"return", "adopt"} /\ c.is_apply /\ c.runs
  BY <1>1, <1>2 DEF IInv, Placement, CallShape, Disciplined, Runs
<1>4. UNCHANGED <<objects, used, gen, own, desc, applied, dying>> /\ mode' = ModeAfter(c)
  BY <1>1, <1>3 DEF Return, poolVars
<1>5. mode' \in {mode, Owned(c.batch, "ENGINE_OWNED")}
  <2> HIDE DEF c
  <2> QED
    BY <1>3, <1>4 DEF ModeAfter
<1>6. TypeOK /\ Held /\ OwnExact
  BY DEF IInv
<1>7. TypeOK' /\ OwnExact'
  <2>1. mode' \in [Handle -> {"none", "VM_OWNED", "ENGINE_OWNED"}]
    BY <1>5, <1>6, OwnedTypes DEF TypeOK
  <2> QED
    BY <1>1, <1>2, <1>4, <1>6, <2>1 DEF TypeOK, OwnExact
<1>8. /\ Placement'
      /\ \A i : Removes(i)' => Removes(i) /\ calls'[i] = calls[i]
      /\ \A p \in Obj : HandlesOn(p)' \subseteq HandlesOn(p)
  BY <1>1, <1>4, ReturnPlacement DEF IInv, Placement, OnlyExisting
<1>9. \A h \in Handle : InUse(h)' => InUse(h)
  BY <1>8 DEF InUse, Removes
<1>10. Held'
  <2> SUFFICES ASSUME NEW h \in Handle, InUse(h)' PROVE Valid(h)' /\ mode'[h] = "ENGINE_OWNED"
    BY DEF Held
  <2>1. Valid(h) /\ mode[h] = "ENGINE_OWNED"
    BY <1>6, <1>9 DEF Held
  <2> QED
    BY <1>4, <1>5, <1>6, <2>1, OwnedEngineKeeps DEF Valid
<1> QED
  BY <1>7, <1>8, <1>10 DEF IInv

(* A removal returns and its effects may be destroyed: nobody else has them.*)
LEMMA RemovalReturnsKeepsIInv ==
  ASSUME IInv, Return, ~Last(calls).is_apply PROVE IInv'
<1> DEFINE n == Len(calls)
           c == calls[n]
           left == {h \in HandlesOn(c.obj) : Valid(h)}
<1>1. calls # << >> /\ calls' = Front(calls) /\ UNCHANGED <<held, queue>> /\ Last(calls) = c
  BY DEF Return, Last
<1>2. n \in DOMAIN calls /\ calls' \in Seq(Call) /\ Len(calls') <= MaxCalls
  BY <1>1, ReturnCalls DEF IInv
<1>3. TypeOK /\ OwnExact /\ Held /\ Placement /\ Removes(n)
  BY <1>1, <1>2 DEF IInv, Removes
<1>4. c.obj \in Obj /\ Slots(c.batch) \in SUBSET Slot
  BY <1>2, <1>3, BatchTypes DEF Call
<1>5. mode' = Owned(c.batch, "VM_OWNED")
  <2>1. ~c.is_apply /\ c.after # "adopt"
    BY <1>1, <1>2, <1>3 DEF Placement, CallShape
  <2>2. mode' = ModeAfter(c)
    BY <1>1 DEF Return
  <2> HIDE DEF c
  <2> QED
    BY <2>1, <2>2 DEF ModeAfter
<1>6. mode' \in [Handle -> {"none", "VM_OWNED", "ENGINE_OWNED"}]
  BY <1>3, <1>5, OwnedTypes
<1> HIDE DEF n, c, left
<1>7. ASSUME NEW S \in SUBSET Slot,
             Destroy(S) \/ UNCHANGED poolVars,
             UNCHANGED objects, dying' \in Seq(Obj),
             applied' \in [Obj -> SUBSET EffectHandle],
             \A p \in Obj : applied'[p] \subseteq applied[p],
             \A p \in Obj : applied'[p] # {} => p \in objects',
             \A g \in Handle : InUse(g)' /\ Valid(g) /\ g.slot \notin Slots(c.batch) => g.slot \notin S
      PROVE  IInv'
  <2>1. TypeOK' /\ OwnExact'
    <3>1. CASE Destroy(S)
      BY <1>1, <1>2, <1>3, <1>6, <1>7, <3>1, DestroyTypes, DestroyKeeps DEF TypeOK
    <3>2. CASE UNCHANGED poolVars
      BY <1>1, <1>2, <1>3, <1>6, <1>7, <3>2 DEF TypeOK, OwnExact, poolVars
    <3> QED
      BY <1>7, <3>1, <3>2
  <2>2. /\ Placement'
        /\ \A i : Removes(i)' => Removes(i) /\ i # n /\ calls'[i] = calls[i]
        /\ \A p \in Obj : HandlesOn(p)' \subseteq HandlesOn(p)
    BY <1>1, <1>7, ReturnPlacement DEF n
  <2>3. Held'
    <3> SUFFICES ASSUME NEW g \in Handle, InUse(g)' PROVE Valid(g)' /\ mode'[g] = "ENGINE_OWNED"
      BY DEF Held
    <3>1. \/ \E o \in Obj : g \in HandlesOn(o)
          \/ \E j \in DOMAIN calls : Removes(j) /\ j # n /\ g \in calls[j].batch
      BY <2>2 DEF InUse, Removes
    <3>2. g \notin c.batch /\ Valid(g) /\ g.slot \notin Slots(c.batch)
      BY <1>2, <1>3, <3>1, BatchApart DEF c
    <3>3. mode[g] = "ENGINE_OWNED"
      BY <1>3, <3>1 DEF Held, InUse
    <3>4. Valid(g)'
      <4>1. g.slot \notin S
        BY <1>7, <3>2
      <4>2. CASE Destroy(S)
        BY <1>3, <3>2, <4>1, <4>2, DestroyKeeps
      <4>3. CASE UNCHANGED poolVars
        BY <3>2, <4>3 DEF Valid, poolVars
      <4> QED
        BY <1>7, <4>2, <4>3
    <3> QED
      BY <1>3, <1>5, <3>2, <3>3, <3>4, OwnedOther
  <2> QED
    BY <2>1, <2>2, <2>3 DEF IInv
<1>8. CASE UNCHANGED <<objects, poolVars, applied, dying>>
  <2>1. {} \in SUBSET Slot
    OBVIOUS
  <2>2. dying' \in Seq(Obj) /\ applied' \in [Obj -> SUBSET EffectHandle]
        /\ \A p \in Obj : applied'[p] \subseteq applied[p] /\ (applied'[p] # {} => p \in objects')
    BY <1>3, <1>8 DEF TypeOK, Placement, OnlyExisting
  <2> QED
    BY <1>7, <1>8, <2>1, <2>2
<1>9. CASE Destroy(Slots(c.batch)) /\ UNCHANGED <<objects, applied, dying>>
  BY <1>3, <1>4, <1>7, <1>9 DEF TypeOK, Placement, OnlyExisting
<1>10. CASE /\ Destroy(Slots(c.batch) \cup Slots(left))
            /\ applied' = [applied EXCEPT ![c.obj] = {}]
            /\ dying' = Append(dying, c.obj)
            /\ UNCHANGED objects
  <2>1. left \subseteq Handle /\ Slots(left) \subseteq Slot
    BY <1>3, <1>4, HandlesOnTypes DEF left, Slots, Handle
  <2>2. /\ applied' \in [Obj -> SUBSET EffectHandle]
        /\ \A p \in Obj : applied'[p] = IF p = c.obj THEN {} ELSE applied[p]
    BY <1>3, <1>4, <1>10 DEF TypeOK
  <2>3. /\ dying' \in Seq(Obj)
        /\ \A p \in Obj : applied'[p] \subseteq applied[p]
        /\ \A p \in Obj : applied'[p] # {} => p \in objects'
    BY <1>3, <1>4, <1>10, <2>2 DEF TypeOK, Placement, OnlyExisting
  <2>4. ASSUME NEW g \in Handle, InUse(g)', Valid(g) PROVE g.slot \notin Slots(left)
    <3>1. g \notin HandlesOn(c.obj)
      <4>1. CASE \E o \in Obj : g \in HandlesOn(o)'
        <5>1. PICK o \in Obj : g \in HandlesOn(o)'
          BY <4>1
        <5>2. o # c.obj /\ g \in HandlesOn(o)
          BY <2>2, <5>1 DEF HandlesOn
        <5> QED
          BY <1>3, <1>4, <5>2 DEF Placement, OneCopy, HandlesOn
      <4>2. CASE \E i \in DOMAIN calls' : Removes(i)' /\ g \in calls'[i].batch
        <5>1. \A i : Removes(i)' => Removes(i) /\ calls'[i] = calls[i]
          BY <1>1, <2>3, ReturnPlacement
        <5>2. OnNoObject(g)
          BY <1>3, <4>2, <5>1 DEF Placement, RemovalsOff, Removes
        <5> QED
          BY <1>4, <5>2 DEF OnNoObject
      <4> QED
        BY <2>4, <4>1, <4>2 DEF InUse
    <3>2. \A h \in left : Valid(h) /\ h # g
      BY <3>1 DEF left
    <3> QED
      BY <2>1, <2>4, <3>2, ValidBySlot DEF Slots
  <2> QED
    BY <1>4, <1>7, <1>10, <2>1, <2>2, <2>3, <2>4
<1> QED
  BY <1>1, <1>8, <1>9, <1>10 DEF Return, left

-----------------------------------------------------------------------------
(* Events                                                                   *)

(* Steps between two calls that only take away: events, effects, objects. *)
LEMMA SettleStep ==
  ASSUME IInv, UNCHANGED calls, Shortens, TypeOK', OwnExact',
         \A p \in Obj : applied'[p] \subseteq applied[p],
         \A p \in Obj : applied'[p] # {} => p \in objects',
         \A h \in Handle : InUse(h)' => Valid(h)' /\ mode'[h] = "ENGINE_OWNED"
  PROVE  IInv'
<1>1. TypeOK /\ Placement
  BY DEF IInv
<1>2. \A p \in Obj : HandlesOn(p)' \subseteq HandlesOn(p)
  BY DEF HandlesOn
<1>3. \A g : OnNoObject(g) => OnNoObject(g)'
  BY <1>2 DEF OnNoObject
<1>4. CallShape' /\ OnlyExisting' /\ OneCopy'
  BY <1>1 DEF Placement, CallShape, OnlyExisting, OneCopy
<1>5. RemovalsOff'
  <2> SUFFICES ASSUME NEW i \in DOMAIN calls', Removes(i)', NEW g \in calls'[i].batch
               PROVE  OnNoObject(g)'
    BY DEF RemovalsOff
  <2> QED
    BY <1>1, <1>3 DEF Placement, RemovalsOff, Removes
<1>6. RemovalsApart' /\ EventsApart'
  BY <1>1, <1>2, FewerEvents DEF Placement, RemovalsApart, Removes
<1>7. Held'
  BY DEF Held
<1> QED
  BY <1>4, <1>5, <1>6, <1>7 DEF IInv, Placement

(* A new event stands at the end of the queue. *)
LEMMA EnqueueQueue ==
  ASSUME TypeOK, NEW ev \in Event, Enqueue(ev)
  PROVE  /\ queue' \in Seq(Event) /\ Len(queue') <= MaxEvents
         /\ DOMAIN queue' = DOMAIN queue \cup {Len(queue) + 1}
         /\ Len(queue) + 1 \notin DOMAIN queue
         /\ \A i \in DOMAIN queue : queue'[i] = queue[i]
         /\ queue'[Len(queue) + 1] = ev
<1>1. queue \in Seq(Event) /\ queue' = Append(queue, ev) /\ Len(queue) < MaxEvents
  BY DEF TypeOK, Enqueue
<1>2. queue' \in Seq(Event) /\ Len(queue') = Len(queue) + 1 /\ Len(queue) \in Nat
  BY <1>1
<1>3. Len(queue') <= MaxEvents
  BY <1>1, <1>2, BoundAssumption DEF BoundAssumption
<1> QED
  BY <1>1, <1>2, <1>3

(* An event may be queued that has its effect for itself, or that is about  *)
(* an effect which only its object has.                                     *)
LEMMA EnqueueKeepsIInv ==
  ASSUME IInv, NEW ev \in Event, Enqueue(ev),
         ev.kind = "apply_effect" => OnNoObject(ev.handle) /\ InNoEvent(ev.handle),
         ev.kind = "remove_effect" =>
           \A o \in Obj : ev.handle \in HandlesOn(o) <=> o = ev.obj
  PROVE  IInv'
<1> DEFINE n == Len(queue) + 1
<1>1. UNCHANGED <<objects, used, gen, own, desc, applied, mode, held, calls, dying>>
  BY DEF Enqueue, poolVars
<1>2. /\ queue' \in Seq(Event) /\ Len(queue') <= MaxEvents
      /\ DOMAIN queue' = DOMAIN queue \cup {n} /\ n \notin DOMAIN queue
      /\ \A i \in DOMAIN queue : queue'[i] = queue[i]
      /\ queue'[n] = ev
  BY EnqueueQueue DEF IInv
<1> HIDE DEF n
<1>3. TypeOK' /\ OwnExact' /\ Held'
  BY <1>1, <1>2 DEF IInv, TypeOK, OwnExact, Held, InUse, Removes, HandlesOn, Valid
<1>4. CallShape' /\ OnlyExisting' /\ OneCopy' /\ RemovalsOff' /\ RemovalsApart'
  BY <1>1 DEF IInv, Placement, CallShape, OnlyExisting, OneCopy, RemovalsOff, RemovalsApart, Removes,
              OnNoObject, HandlesOn
<1>5. ev.kind \in {"apply_effect", "remove_effect"} /\ ev.obj \in Obj
  BY DEF Event
<1>6. \A i \in DOMAIN queue : queue[i].kind = "apply_effect" => queue[i].handle # ev.handle
  BY <1>5 DEF IInv, Placement, EventsApart, OnNoObject, InNoEvent
<1>7. EventsApart
  BY DEF IInv, Placement
<1>8. EventsApart'
  <2> SUFFICES ASSUME NEW i \in DOMAIN queue'
               PROVE  /\ queue'[i].kind = "apply_effect" =>
                           /\ OnNoObject(queue'[i].handle)
                           /\ \A j \in DOMAIN queue' : j # i => queue'[j].handle # queue'[i].handle
                      /\ queue'[i].kind = "remove_effect" =>
                           \A o \in Obj : queue'[i].handle \in HandlesOn(o) => o = queue'[i].obj
    BY <1>1 DEF EventsApart, OnNoObject, HandlesOn
  <2>1. CASE i = n
    BY <1>2, <2>1 DEF InNoEvent
  <2>2. CASE i # n
    BY <1>2, <1>6, <1>7, <2>2 DEF EventsApart
  <2> QED
    BY <2>1, <2>2
<1> QED
  BY <1>3, <1>4, <1>8 DEF IInv, Placement

LEMMA QueueKeepsIInv ==
  ASSUME IInv, Disciplined, NEW o \in Obj,
         \/ \E h \in Handle : QueueApply(o, h)
         \/ \E s \in Slot : QueueRemove(o, s)
  PROVE  IInv'
<1>1. ASSUME NEW h \in Handle, QueueApply(o, h) PROVE IInv'
  <2> DEFINE ev == [kind |-> "apply_effect", obj |-> o, handle |-> h]
  <2>1. ev \in Event /\ Enqueue(ev) /\ OnNoObject(h) /\ InNoEvent(h)
    BY <1>1 DEF Event, QueueApply, MayApply, Disciplined
  <2> QED
    BY <2>1, EnqueueKeepsIInv
<1>2. ASSUME NEW s \in Slot, QueueRemove(o, s) PROVE IInv'
  <2> DEFINE ev == [kind |-> "remove_effect", obj |-> o, handle |-> OwnHandle(s)]
  <2>1. PICK h \in HandlesOn(o) : s = h.slot
    BY <1>2 DEF QueueRemove, Slots
  <2>2. h \in Handle /\ Valid(h)
    BY <2>1, HandlesOnTypes DEF IInv, Held, InUse
  <2>3. OwnHandle(s) = h
    BY <2>1, <2>2, OwnOfValid DEF IInv
  <2>4. \A p \in Obj : h \in HandlesOn(p) <=> p = o
    BY <2>1 DEF IInv, Placement, OneCopy, HandlesOn
  <2>5. ev \in Event /\ Enqueue(ev)
    BY <1>2, <2>2, <2>3 DEF Event, QueueRemove
  <2> QED
    BY <2>3, <2>4, <2>5, EnqueueKeepsIInv
<1> QED
  BY <1>1, <1>2

(* An event does what it does to its own effect. *)
LEMMA ProcessKeepsIInv ==
  ASSUME IInv, Process PROVE IInv'
<1> DEFINE ev == Head(queue)
           h == ev.handle
           s == ev.handle.slot
<1>1. calls = << >> /\ queue # << >> /\ queue' = Tail(queue) /\ UNCHANGED <<objects, held, dying>> /\ Shortens
  BY DEF Process, FromHost, Shortens
<1>2. /\ queue' \in Seq(Event) /\ Len(queue') <= MaxEvents
      /\ ev = queue[1] /\ 1 \in DOMAIN queue /\ ev \in Event
      /\ \A i \in DOMAIN queue' : i + 1 \in DOMAIN queue /\ i + 1 # 1 /\ queue'[i] = queue[i + 1]
  BY <1>1, ProcessQueue DEF IInv
<1>3. TypeOK /\ OwnExact /\ Placement /\ Held /\ h \in Handle /\ s \in Slot /\ ev.obj \in Obj
      /\ ev.kind \in {"apply_effect", "remove_effect"}
  BY <1>2 DEF IInv, Event, Handle
<1>4. \A i : ~Removes(i)
  BY <1>1 DEF Removes
<1>5. /\ ev.kind = "apply_effect" => OnNoObject(h) /\ \A i \in DOMAIN queue' : queue'[i].handle # h
      /\ ev.kind = "remove_effect" => \A o \in Obj : h \in HandlesOn(o) => o = ev.obj
  BY <1>2, <1>3 DEF Placement, EventsApart
<1> HIDE DEF ev
<1>6. CASE ev.kind = "apply_effect" /\ Valid(h) /\ ev.obj \in objects
           /\ ApplyTo(ev.obj, s, desc[s], "return") /\ UNCHANGED poolVars
  <2>1. InNoCall(h)
    BY <1>1 DEF InNoCall
  <2>2. desc[s] \in Desc /\ desc' \in [Slot -> Desc]
    BY <1>3, <1>6 DEF TypeOK, poolVars
  <2> QED
    BY <1>1, <1>3, <1>5, <1>6, <2>1, <2>2, ApplyToKeepsIInv DEF poolVars
<1>7. CASE RemoveFrom(ev.obj, {s}, "destroy") /\ UNCHANGED poolVars
  <2>1. {s} \in SUBSET Slot
    BY <1>3
  <2> QED
    BY <1>1, <1>3, <1>7, <2>1, RemoveFromKeepsIInv
<1>8. CASE Valid(h) /\ (ev.obj \notin objects \/ ev.kind = "apply_effect")
           /\ Destroy({s}) /\ UNCHANGED <<applied, mode, calls>>
  <2>1. OnNoObject(h)
    <3>1. ev.obj \notin objects => applied[ev.obj] = {}
      BY <1>3 DEF Placement, OnlyExisting
    <3> QED
      BY <1>3, <1>5, <1>8, <3>1 DEF OnNoObject, HandlesOn
  <2>2. {s} \in SUBSET Slot
    BY <1>3
  <2>3. TypeOK' /\ OwnExact'
    BY <1>1, <1>2, <1>3, <1>8, <2>2, DestroyTypes, DestroyKeeps DEF TypeOK
  <2>4. ASSUME NEW g \in Handle, InUse(g)' PROVE Valid(g)' /\ mode'[g] = "ENGINE_OWNED"
    <3>1. \E o \in Obj : g \in HandlesOn(o)
      BY <1>4, <1>8, <2>4 DEF InUse, HandlesOn, Removes
    <3>2. g # h /\ Valid(g) /\ mode[g] = "ENGINE_OWNED"
      BY <1>3, <2>1, <3>1 DEF Held, InUse, OnNoObject
    <3>3. g.slot # s
      BY <1>3, <1>8, <3>2, ValidBySlot
    <3> QED
      BY <1>3, <1>8, <2>2, <3>2, <3>3, DestroyKeeps
  <2>5. \A p \in Obj : applied'[p] # {} => p \in objects'
    BY <1>1, <1>3, <1>8 DEF Placement, OnlyExisting
  <2> QED
    BY <1>1, <1>8, <2>3, <2>4, <2>5, SettleStep
<1>9. CASE UNCHANGED <<poolVars, applied, mode, calls>>
  <2>1. TypeOK' /\ OwnExact'
    BY <1>1, <1>2, <1>3, <1>9 DEF TypeOK, OwnExact, poolVars
  <2>2. \A g \in Handle : InUse(g)' => Valid(g)' /\ mode'[g] = "ENGINE_OWNED"
    BY <1>3, <1>9 DEF Held, InUse, Removes, HandlesOn, Valid, poolVars
  <2>3. \A p \in Obj : applied'[p] # {} => p \in objects'
    BY <1>1, <1>3, <1>9 DEF Placement, OnlyExisting
  <2> QED
    BY <1>1, <1>9, <2>1, <2>2, <2>3, SettleStep
<1> QED
  BY <1>3, <1>6, <1>7, <1>8, <1>9 DEF Process, Resolves, ev

-----------------------------------------------------------------------------
(* Objects that die, and the natives that apply and remove                  *)

LEMMA DestroyObjectKeepsIInv ==
  ASSUME IInv, NEW o \in Obj, DestroyObject(o) PROVE IInv'
<1> DEFINE S == Slots(HandlesOn(o))
           left == {h \in HandlesOn(o) : Valid(h)}
<1>1. TypeOK /\ OwnExact /\ Placement /\ Held /\ S \in SUBSET Slot /\ left \subseteq Handle
      /\ Slots(left) \in SUBSET Slot
  BY HandlesOnTypes DEF IInv, Slots
<1>2. calls = << >> /\ UNCHANGED <<objects, held, queue>> /\ Shortens
  BY DEF DestroyObject, Shortens
<1>3. CASE RemoveFrom(o, S, "clear") /\ UNCHANGED <<poolVars, dying>>
  BY <1>1, <1>2, <1>3, RemoveFromKeepsIInv
<1>4. CASE /\ Destroy(Slots(left))
           /\ applied' = [applied EXCEPT ![o] = {}]
           /\ dying' = Append(dying, o)
           /\ UNCHANGED <<mode, calls>>
  <2>1. /\ applied' \in [Obj -> SUBSET EffectHandle]
        /\ \A p \in Obj : applied'[p] = IF p = o THEN {} ELSE applied[p]
    BY <1>1, <1>4 DEF TypeOK
  <2>2. TypeOK' /\ OwnExact'
    BY <1>1, <1>2, <1>4, <2>1, DestroyTypes, DestroyKeeps DEF TypeOK
  <2>3. /\ \A p \in Obj : applied'[p] \subseteq applied[p]
        /\ \A p \in Obj : applied'[p] # {} => p \in objects'
    BY <1>1, <1>2, <1>4, <2>1 DEF Placement, OnlyExisting
  <2>4. ASSUME NEW g \in Handle, InUse(g)' PROVE Valid(g)' /\ mode'[g] = "ENGINE_OWNED"
    <3>1. PICK p \in Obj : g \in HandlesOn(p)'
      BY <1>2, <1>4, <2>4 DEF InUse, Removes
    <3>2. p # o /\ g \in HandlesOn(p)
      BY <2>1, <3>1 DEF HandlesOn
    <3>3. g \notin HandlesOn(o) /\ Valid(g) /\ mode[g] = "ENGINE_OWNED"
      BY <1>1, <3>2 DEF Placement, OneCopy, HandlesOn, Held, InUse
    <3>4. g.slot \notin Slots(left)
      BY <1>1, <3>3, ValidBySlot DEF Slots
    <3> QED
      BY <1>1, <1>4, <3>3, <3>4, DestroyKeeps
  <2> QED
    BY <1>2, <1>4, <2>2, <2>3, <2>4, SettleStep
<1> QED
  BY <1>2, <1>3, <1>4 DEF DestroyObject

(* Under the discipline an effect to apply is on no object, in no waiting   *)
(* call and in no event.                                                    *)
LEMMA FreeToApply ==
  ASSUME Disciplined, NEW h, MayApply(h)
  PROVE  OnNoObject(h) /\ InNoCall(h) /\ \A i \in DOMAIN queue : queue[i].handle # h
BY DEF Disciplined, MayApply, InNoEvent

(* The effects that an object was given while it died are on no object when *)
(* it is gone.                                                              *)
LEMMA FreeObjectKeepsIInv ==
  ASSUME IInv, FreeObject PROVE IInv'
<1> DEFINE o == Last(dying)
<1>1. TypeOK /\ OwnExact /\ Placement /\ Held /\ Shortens
  BY DEF IInv, FreeObject, Shortens
<1>2. o \in Obj /\ dying' \in Seq(Obj)
  BY <1>1, LastAndFront DEF FreeObject, TypeOK
<1> HIDE DEF o
<1>3. /\ applied' \in [Obj -> SUBSET EffectHandle]
      /\ \A p \in Obj : applied'[p] = IF p = o THEN {} ELSE applied[p]
      /\ objects' = objects \ {o}
  BY <1>1, <1>2 DEF FreeObject, TypeOK, o
<1>4. TypeOK' /\ OwnExact'
  BY <1>1, <1>2, <1>3 DEF FreeObject, TypeOK, OwnExact, poolVars
<1>5. /\ \A p \in Obj : applied'[p] \subseteq applied[p]
      /\ \A p \in Obj : applied'[p] # {} => p \in objects'
  BY <1>1, <1>3 DEF Placement, OnlyExisting
<1>6. \A h \in Handle : InUse(h)' => Valid(h)' /\ mode'[h] = "ENGINE_OWNED"
  <2> SUFFICES ASSUME NEW h \in Handle, InUse(h)' PROVE Valid(h)' /\ mode'[h] = "ENGINE_OWNED"
    OBVIOUS
  <2>1. InUse(h)
    BY <1>5 DEF InUse, HandlesOn, Removes, FreeObject
  <2> QED
    BY <1>1, <2>1 DEF Held, Valid, FreeObject, poolVars
<1> QED
  BY <1>1, <1>4, <1>5, <1>6, SettleStep DEF FreeObject

LEMMA ApplyEffectKeepsIInv ==
  ASSUME IInv, Disciplined, NEW o \in Obj, NEW h \in Handle, ApplyEffect(o, h) PROVE IInv'
<1>1. TypeOK /\ Valid(h) /\ o \in objects /\ ApplyTo(o, h.slot, desc[h.slot], "adopt")
      /\ UNCHANGED <<objects, used, gen, own, desc, held, queue, dying>> /\ Shortens
  BY DEF IInv, ApplyEffect, Native, poolVars, Shortens
<1>2. OnNoObject(h) /\ InNoCall(h) /\ \A i \in DOMAIN queue' : queue'[i].handle # h
  BY <1>1, FreeToApply DEF ApplyEffect
<1>3. desc[h.slot] \in Desc /\ desc' \in [Slot -> Desc]
  BY <1>1 DEF TypeOK, Handle
<1> QED
  BY <1>1, <1>2, <1>3, ApplyToKeepsIInv

LEMMA RemoveEffectKeepsIInv ==
  ASSUME IInv, NEW o \in Obj, NEW h \in Handle, RemoveEffect(o, h) PROVE IInv'
<1>1. {h.slot} \in SUBSET Slot
  BY DEF Handle
<1> QED
  BY <1>1, RemoveFromKeepsIInv DEF RemoveEffect, Shortens

LEMMA ApplyItemEffectKeepsIInv ==
  ASSUME IInv, Disciplined, NEW o \in Obj, NEW item \in Obj, NEW h \in Handle,
         ApplyItemEffect(o, item, h)
  PROVE  IInv'
<1> DEFINE d == [desc[h.slot] EXCEPT !.creator = item]
<1>1. TypeOK /\ OwnExact /\ Held /\ Valid(h) /\ o \in objects /\ UNCHANGED <<objects, held, queue, dying>>
      /\ Shortens /\ h.slot \in Slot
  BY DEF IInv, ApplyItemEffect, Native, Shortens, Handle
<1>2. OnNoObject(h) /\ InNoCall(h) /\ \A i \in DOMAIN queue' : queue'[i].handle # h
  BY <1>1, FreeToApply DEF ApplyItemEffect
<1>3. d \in Desc
  BY <1>1 DEF TypeOK, Desc
<1>4. CASE /\ ApplyTo(o, h.slot, d, "return")
           /\ desc' = [desc EXCEPT ![h.slot] = d]
           /\ UNCHANGED <<used, gen, own>>
  <2>1. desc' \in [Slot -> Desc]
    BY <1>1, <1>3, <1>4 DEF TypeOK
  <2> HIDE DEF d
  <2> QED
    BY <1>1, <1>2, <1>3, <1>4, <2>1, ApplyToKeepsIInv
<1>5. CASE mode' = Owned({h}, "ENGINE_OWNED") /\ Destroy({h.slot}) /\ UNCHANGED <<applied, calls>>
  <2>1. {h.slot} \in SUBSET Slot
    BY <1>1
  <2>2. mode' \in [Handle -> {"none", "VM_OWNED", "ENGINE_OWNED"}]
    BY <1>1, <1>5, OwnedTypes
  <2>3. TypeOK' /\ OwnExact'
    BY <1>1, <1>5, <2>1, <2>2, DestroyTypes, DestroyKeeps DEF TypeOK
  <2>4. ASSUME NEW g \in Handle, InUse(g) PROVE Valid(g)' /\ mode'[g] = "ENGINE_OWNED"
    <3>1. g # h
      BY <1>2, <2>4 DEF InUse, OnNoObject, InNoCall
    <3>2. Valid(g) /\ mode[g] = "ENGINE_OWNED"
      BY <1>1, <2>4 DEF Held
    <3>3. g.slot # h.slot
      BY <1>1, <3>1, <3>2, ValidBySlot
    <3> QED
      BY <1>1, <1>5, <2>1, <3>2, <3>3, DestroyKeeps, OwnedEngineKeeps
  <2> QED
    BY <1>1, <1>5, <2>3, <2>4, PoolStep
<1> QED
  BY <1>4, <1>5 DEF ApplyItemEffect

LEMMA RemoveItemEffectsKeepsIInv ==
  ASSUME IInv, NEW o \in Obj, NEW item \in Obj, RemoveItemEffects(o, item) PROVE IInv'
<1> DEFINE S == {c.handle.slot : c \in {x \in applied[o] : x.desc.creator = item}}
<1>1. S \in SUBSET Slot
  BY DEF IInv, TypeOK, EffectHandle, Handle
<1> QED
  BY <1>1, RemoveFromKeepsIInv DEF RemoveItemEffects, Shortens

-----------------------------------------------------------------------------
LEMMA InitIInv ==
  ASSUME Init PROVE IInv
<1>1. TypeOK
  <2>1. 1 \in 1..MaxGeneration /\ 0 <= MaxEvents /\ 0 <= MaxCalls
    BY BoundAssumption DEF BoundAssumption
  <2>2. [type |-> None, creator |-> None] \in Desc
    BY DEF Desc
  <2> QED
    BY <2>1, <2>2 DEF Init, TypeOK
<1>2. OwnExact /\ Placement /\ Held
  BY DEF Init, OwnExact, Placement, CallShape, OnlyExisting, OneCopy, RemovalsOff, RemovalsApart,
         EventsApart, Held, InUse, Removes, HandlesOn
<1> QED
  BY <1>1, <1>2 DEF IInv

LEMMA NextKeepsIInv ==
  ASSUME Disciplined, IInv, [Next]_vars PROVE IInv'
<1>1. CASE Script
  BY <1>1, CreateKeepsIInv, SetTypeKeepsIInv, PinKeepsIInv, ScriptDestroyKeepsIInv, HoldingKeepsIInv,
     ApplyEffectKeepsIInv, RemoveEffectKeepsIInv, ApplyItemEffectKeepsIInv, RemoveItemEffectsKeepsIInv
  DEF Script
<1>2. CASE Engine
  BY <1>2, QueueKeepsIInv, DestroyObjectKeepsIInv DEF Engine
<1>7. CASE FreeObject
  BY <1>7, FreeObjectKeepsIInv
<1>3. CASE Process
  BY <1>3, ProcessKeepsIInv
<1>4. CASE Return
  BY <1>4, ApplyReturnsKeepsIInv, RemovalReturnsKeepsIInv
<1>5. CASE \E h \in Handle : Collect(h)
  BY <1>5, CollectKeepsIInv
<1>6. CASE UNCHANGED vars
  <2>1. TypeOK' /\ OwnExact'
    BY <1>6 DEF IInv, TypeOK, OwnExact, vars, poolVars
  <2>2. \A h \in Handle : InUse(h) => Valid(h)' /\ mode'[h] = "ENGINE_OWNED"
    BY <1>6 DEF IInv, Held, Valid, vars, poolVars
  <2> QED
    BY <1>6, <2>1, <2>2, PoolStep DEF vars
<1> QED
  BY <1>1, <1>2, <1>3, <1>4, <1>5, <1>6, <1>7 DEF Next

(* When no effect is applied that is on an object, in a waiting call or in  *)
(* an event, the effects of every object exist, whatever on_effects does in *)
(* the middle of apply_to and remove_from: remove_from and process destroy  *)
(* after it what they took off before, and core.effects.destroy and the     *)
(* collector look only at the owner.                                        *)
THEOREM AppliedExist ==
  ASSUME Disciplined PROVE Spec => []AppliedLive
<1>1. Init => IInv
  BY InitIInv
<1>2. IInv /\ [Next]_vars => IInv'
  BY NextKeepsIInv
<1>3. IInv => AppliedLive
  BY HandlesOnTypes DEF IInv, TypeOK, Held, InUse, AppliedLive
<1> QED
  BY <1>1, <1>2, <1>3, PTL DEF Spec

(* Under the same discipline the promise of dispatch_on_effects holds: the  *)
(* cell of an effect is ENGINE_OWNED as long as an object has the effect.   *)
THEOREM AppliedStayPinned ==
  ASSUME Disciplined PROVE Spec => []AppliedPinned
<1>1. Init => IInv
  BY InitIInv
<1>2. IInv /\ [Next]_vars => IInv'
  BY NextKeepsIInv
<1>3. IInv => AppliedPinned
  BY HandlesOnTypes DEF IInv, TypeOK, Held, InUse, AppliedPinned
<1> QED
  BY <1>1, <1>2, <1>3, PTL DEF Spec

-----------------------------------------------------------------------------
(* What an event does to other effects: nothing                             *)
LEMMA ProcessHitsItsEffect ==
  ASSUME IInv, Process, NEW h \in Handle, Valid(h), h # Head(queue).handle
  PROVE  Valid(h)' /\ \A o \in Obj : h \in HandlesOn(o) => h \in HandlesOn(o)'
<1> DEFINE ev == Head(queue)
           s == ev.handle.slot
<1>1. TypeOK /\ OwnExact /\ ev \in Event /\ ev.handle \in Handle /\ s \in Slot /\ ev.obj \in Obj
  BY ProcessQueue DEF IInv, Process, Event, Handle
<1> HIDE DEF ev
<1>2. CASE Valid(ev.handle) /\ ApplyTo(ev.obj, s, desc[s], "return") /\ UNCHANGED poolVars
  <2>1. \A o \in Obj : applied[o] \subseteq applied'[o]
    BY <1>1, <1>2 DEF ApplyTo, TypeOK
  <2> QED
    BY <1>2, <2>1 DEF Valid, HandlesOn, poolVars
<1>3. CASE Valid(ev.handle) /\ RemoveFrom(ev.obj, {s}, "destroy") /\ UNCHANGED poolVars
  <2>1. \A x \in {Copy(t) : t \in Removable(ev.obj, {s})} : x.handle = ev.handle
    <3>1. OwnHandle(s) = ev.handle
      BY <1>1, <1>3, OwnOfValid
    <3>2. \A t \in Removable(ev.obj, {s}) : t = s
      BY DEF Removable
    <3> QED
      BY <3>1, <3>2 DEF Copy
  <2>2. \A o \in Obj : \A x \in applied[o] : x.handle # ev.handle => x \in applied'[o]
    BY <1>1, <1>3, <2>1 DEF RemoveFrom, TypeOK
  <2> QED
    BY <1>3, <2>2 DEF Valid, HandlesOn, poolVars, ev
<1>4. CASE Valid(ev.handle) /\ Destroy({s}) /\ UNCHANGED applied
  <2>1. h.slot # s /\ {s} \in SUBSET Slot
    BY <1>1, <1>4, ValidBySlot DEF ev
  <2> QED
    BY <1>1, <1>4, <2>1, DestroyKeeps DEF HandlesOn
<1>5. CASE UNCHANGED <<poolVars, applied>>
  BY <1>5 DEF Valid, HandlesOn, poolVars
<1> QED
  BY <1>2, <1>3, <1>4, <1>5 DEF Process, Resolves, ev

(* process destroys, or takes off an object, the effect its event was       *)
(* queued for or nothing, however late it comes.                            *)
THEOREM EventsHit ==
  ASSUME Disciplined PROVE Spec => EventsHitTheirEffect
<1>1. Init => IInv
  BY InitIInv
<1>2. IInv /\ [Next]_vars => IInv'
  BY NextKeepsIInv
<1>3. IInv =>
        [Process => \A h \in Handle : Valid(h) /\ h # Head(queue).handle =>
           /\ Valid(h)'
           /\ \A o \in Obj : h \in HandlesOn(o) => h \in HandlesOn(o)']_vars
  BY ProcessHitsItsEffect
<1> QED
  BY <1>1, <1>2, <1>3, PTL DEF Spec, EventsHitTheirEffect

-----------------------------------------------------------------------------
(* What a caller destroys when on_effects returns                           *)
LEMMA ReturnHitsItsEffects ==
  ASSUME IInv, Return, NEW h \in Handle, Valid(h), ~Valid(h)'
  PROVE  \/ h \in Last(calls).batch
         \/ Last(calls).after = "clear" /\ h \in HandlesOn(Last(calls).obj)
<1> DEFINE c == Last(calls)
           left == {g \in HandlesOn(c.obj) : Valid(g)}
<1>1. /\ TypeOK /\ OwnExact /\ Held /\ Placement
      /\ Len(calls) \in DOMAIN calls /\ c = calls[Len(calls)]
  BY ReturnCalls DEF IInv, Return, Last
<1>2. c.obj \in Obj /\ c.batch \subseteq Handle /\ Slots(c.batch) \in SUBSET Slot
  BY <1>1, BatchTypes DEF Call
<1>3. left \subseteq Handle /\ Slots(left) \in SUBSET Slot
  BY <1>1, <1>2, HandlesOnTypes DEF Slots
<1>4. c.after \in {"destroy", "clear"} => \A g \in c.batch : Valid(g)
  BY <1>1, <1>2 DEF Placement, CallShape, Held, InUse, Removes
<1> HIDE DEF c
<1>5. ASSUME h.slot \in Slots(c.batch), c.after \in {"destroy", "clear"} PROVE h \in c.batch
  BY <1>2, <1>4, <1>5, ValidBySlot DEF Slots
<1>6. ASSUME h.slot \in Slots(left) PROVE h \in HandlesOn(c.obj)
  BY <1>3, <1>6, ValidBySlot DEF Slots
<1> HIDE DEF left
<1>7. CASE UNCHANGED poolVars
  BY <1>7 DEF Valid, poolVars
<1>8. CASE c.after = "destroy" /\ Destroy(Slots(c.batch))
  BY <1>1, <1>2, <1>5, <1>8, DestroyKeeps DEF c
<1>9. CASE c.after = "clear" /\ Destroy(Slots(c.batch) \cup Slots(left))
  <2>1. Slots(c.batch) \cup Slots(left) \in SUBSET Slot
    BY <1>2, <1>3
  <2>2. h.slot \in Slots(c.batch) \cup Slots(left)
    BY <1>1, <1>9, <2>1, DestroyKeeps
  <2> QED
    BY <1>5, <1>6, <1>9, <2>2 DEF c
<1> QED
  BY <1>7, <1>8, <1>9 DEF Return, c, left

(* The effects that a caller of remove_from destroys after on_effects are   *)
(* those it took off before, though it has only pointers to them: they were *)
(* pinned meanwhile, so that their slots have not been given to others.     *)
THEOREM ReturnsHit ==
  ASSUME Disciplined PROVE Spec => ReturnsHitTheirEffects
<1>1. Init => IInv
  BY InitIInv
<1>2. IInv /\ [Next]_vars => IInv'
  BY NextKeepsIInv
<1>3. IInv =>
        [Return => \A h \in Handle : Valid(h) /\ ~Valid(h)' =>
           \/ h \in Last(calls).batch
           \/ Last(calls).after = "clear" /\ h \in HandlesOn(Last(calls).obj)]_vars
  BY ReturnHitsItsEffects
<1> QED
  BY <1>1, <1>2, <1>3, PTL DEF Spec, ReturnsHitTheirEffects

-----------------------------------------------------------------------------
(* Handles of the past                                                      *)

(* A handle that was given out: its effect exists or its slot has moved on. *)
Issued(h) == h.gen < gen[h.slot] \/ Valid(h)

(* No slot is reused so often that its generation comes to the wrap. *)
Early == \A s \in Slot : gen[s] <= Reuses + 1 /\ (s \in used => gen[s] <= Reuses)

Known == (\A h \in held : Issued(h)) /\ \A i \in DOMAIN calls : \A h \in calls[i].batch : Issued(h)

(* Any step leaves the pool alone, destroys effects or creates one. *)
LEMMA PoolSteps ==
  ASSUME TypeOK, [Next]_vars
  PROVE  \/ UNCHANGED <<used, gen, own>>
         \/ \E S \in SUBSET Slot : Destroy(S)
         \/ \E s \in Slot : Create(s)
<1>1. CASE \E s \in Slot : Create(s)
  BY <1>1
<1>2. CASE \E h \in Handle : ScriptDestroy(h)
  BY <1>2 DEF ScriptDestroy, Handle
<1>3. CASE \E o \in Obj, item \in Obj, h \in Handle : ApplyItemEffect(o, item, h)
  BY <1>3 DEF ApplyItemEffect, Handle
<1>4. CASE Process
  <2>1. Head(queue).handle.slot \in Slot
    BY <1>4, ProcessQueue DEF Process, Event, Handle
  <2> QED
    BY <1>4, <2>1 DEF Process, poolVars
<1>5. CASE Return
  <2>1. Len(calls) \in DOMAIN calls
    BY <1>5, ReturnCalls DEF Return
  <2>2. Last(calls).obj \in Obj /\ Slots(Last(calls).batch) \in SUBSET Slot
    BY <2>1, BatchTypes DEF Call, Last
  <2>3. Slots({h \in HandlesOn(Last(calls).obj) : Valid(h)}) \in SUBSET Slot
    BY <2>2, HandlesOnTypes DEF Slots
  <2> QED
    BY <1>5, <2>2, <2>3 DEF Return, poolVars
<1>6. CASE \E o \in Obj : DestroyObject(o)
  <2>1. \A o \in Obj : Slots({h \in HandlesOn(o) : Valid(h)}) \in SUBSET Slot
    BY HandlesOnTypes DEF Slots
  <2> QED
    BY <1>6, <2>1 DEF DestroyObject, poolVars
<1>7. CASE UNCHANGED poolVars \/ UNCHANGED <<used, gen, own>>
  BY <1>7 DEF poolVars
<1>8. CASE UNCHANGED vars
  BY <1>8 DEF vars, poolVars
<1> QED
  BY <1>1, <1>2, <1>3, <1>4, <1>5, <1>6, <1>7, <1>8
  DEF Next, Script, Engine, SetType, Pin, Keep, Drop, ApplyEffect, RemoveEffect, RemoveItemEffects,
      QueueApply, QueueRemove, Enqueue, FreeObject, Collect

(* Before the wrap a handle of the past stays one. *)
LEMMA PastStaysPast ==
  ASSUME IInv, Early, Reuses < MaxGeneration, [Next]_vars
  PROVE  /\ Early'
         /\ \A h \in Handle : Issued(h) => Issued(h)'
         /\ \A h \in Handle : Issued(h) /\ ~Valid(h) => ~Valid(h)'
<1>1. TypeOK /\ OwnExact /\ Reuses \in Nat /\ MaxGeneration \in Nat
  BY BoundAssumption DEF BoundAssumption, IInv
<1>2. CASE UNCHANGED <<used, gen, own>>
  BY <1>2 DEF Early, Issued, Valid
<1>3. ASSUME NEW S \in SUBSET Slot, Destroy(S)
      PROVE  /\ Early'
             /\ \A h \in Handle : Issued(h) => Issued(h)'
             /\ \A h \in Handle : Issued(h) /\ ~Valid(h) => ~Valid(h)'
  <2> DEFINE gone == {s \in S : Valid(OwnHandle(s))}
  <2>1. \A s \in gone : s \in used
    BY DEF Valid, OwnHandle
  <2>2. \A s \in Slot : gen[s] \in Nat /\ gen'[s] = IF s \in gone THEN gen[s] + 1 ELSE gen[s]
    BY <1>1, <1>3, <2>1 DEF Destroy, NextGen, Early, TypeOK
  <2>3. used' = used \ gone
    BY <1>3 DEF Destroy
  <2> HIDE DEF gone
  <2>4. Early'
    BY <1>1, <2>1, <2>2, <2>3 DEF Early
  <2>5. ASSUME NEW h \in Handle, Issued(h) PROVE Issued(h)' /\ (~Valid(h) => ~Valid(h)')
    <3>1. h.slot \in Slot /\ h.gen \in Nat
      BY <1>1 DEF Handle
    <3> QED
      BY <2>2, <2>3, <2>5, <3>1 DEF Issued, Valid
  <2> QED
    BY <2>4, <2>5
<1>4. ASSUME NEW s \in Slot, Create(s)
      PROVE  /\ Early'
             /\ \A h \in Handle : Issued(h) => Issued(h)'
             /\ \A h \in Handle : Issued(h) /\ ~Valid(h) => ~Valid(h)'
  <2>1. s \notin used /\ gen[s] <= Reuses /\ used' = used \cup {s} /\ gen' = gen
    BY <1>4 DEF Create
  <2>2. \A h \in Handle : h.gen \in Nat /\ gen[h.slot] \in Nat
    BY <1>1 DEF Handle, TypeOK
  <2> QED
    BY <2>1, <2>2 DEF Early, Issued, Valid
<1> QED
  BY <1>1, <1>2, <1>3, <1>4, PoolSteps

(* A step adds to the waiting calls only effects that exist. *)
LEMMA NewBatches ==
  ASSUME IInv, [Next]_vars, NEW i \in DOMAIN calls', NEW h \in calls'[i].batch
  PROVE  h \in Handle /\ (Valid(h) \/ \E j \in DOMAIN calls : h \in calls[j].batch)
<1>1. TypeOK /\ OwnExact /\ Held
  BY DEF IInv
<1>2. \A j \in DOMAIN calls : calls[j].batch \subseteq Handle
  BY <1>1, BatchTypes
<1>3. CASE UNCHANGED calls
  BY <1>2, <1>3
<1>4. CASE Return
  BY <1>1, <1>2, <1>4, ReturnCalls DEF Return
<1>5. ASSUME NEW o \in Obj, NEW g \in Handle, Valid(g), NEW d,
             NEW after \in {"return", "adopt"}, ApplyTo(o, g.slot, d, after)
      PROVE  h \in Handle /\ (Valid(h) \/ \E j \in DOMAIN calls : h \in calls[j].batch)
  <2>1. OwnHandle(g.slot) = g /\ {g.slot} \in SUBSET Slot
    BY <1>1, <1>5, OwnOfValid DEF Handle
  <2>2. CanCall /\ Await(o, {g.slot}, TRUE, after)
    BY <1>5 DEF ApplyTo
  <2>3. /\ DOMAIN calls' = DOMAIN calls \cup {Len(calls) + 1}
        /\ \A j \in DOMAIN calls : calls'[j] = calls[j]
        /\ calls'[Len(calls) + 1].batch = {OwnHandle(s) : s \in {g.slot}}
    BY <1>1, <2>1, <2>2, AwaitCalls
  <2> QED
    BY <1>2, <1>5, <2>1, <2>3
<1>6. ASSUME NEW o \in Obj, NEW S \in SUBSET Slot, NEW after \in {"release", "destroy", "clear"},
             RemoveFrom(o, S, after)
      PROVE  h \in Handle /\ (Valid(h) \/ \E j \in DOMAIN calls : h \in calls[j].batch)
  <2>1. CanCall /\ Await(o, Removable(o, S), FALSE, after) /\ Removable(o, S) \in SUBSET Slot
    BY <1>6 DEF RemoveFrom, Removable
  <2>2. /\ DOMAIN calls' = DOMAIN calls \cup {Len(calls) + 1}
        /\ \A j \in DOMAIN calls : calls'[j] = calls[j]
        /\ calls'[Len(calls) + 1].batch = {OwnHandle(s) : s \in Removable(o, S)}
    BY <1>1, <2>1, AwaitCalls
  <2>3. \A s \in Removable(o, S) : OwnHandle(s) \in HandlesOn(o)
    BY DEF Removable, Copy, HandlesOn
  <2>4. \A s \in Removable(o, S) : OwnHandle(s) \in Handle /\ Valid(OwnHandle(s))
    BY <1>1, <2>3, HandlesOnTypes DEF Held, InUse
  <2> QED
    BY <1>2, <2>2, <2>4
<1>7. CASE \E o \in Obj, g \in Handle : ApplyEffect(o, g) \/ RemoveEffect(o, g)
  BY <1>5, <1>6, <1>7 DEF ApplyEffect, RemoveEffect, Native, Handle
<1>8. CASE \E o, item \in Obj, g \in Handle : ApplyItemEffect(o, item, g)
  BY <1>3, <1>5, <1>8 DEF ApplyItemEffect, Native
<1>9. CASE \E o, item \in Obj : RemoveItemEffects(o, item)
  <2>1. PICK o \in Obj, item \in Obj : RemoveItemEffects(o, item)
    BY <1>9
  <2> DEFINE S == {c.handle.slot : c \in {x \in applied[o] : x.desc.creator = item}}
  <2>2. S \in SUBSET Slot
    BY <1>1 DEF TypeOK, EffectHandle, Handle
  <2>3. RemoveFrom(o, S, "destroy")
    BY <2>1 DEF RemoveItemEffects
  <2> QED
    BY <1>6, <2>2, <2>3
<1>10. CASE Process
  <2>1. Head(queue).handle \in Handle /\ Head(queue).handle.slot \in Slot /\ Head(queue).obj \in Obj
    BY <1>1, <1>10, ProcessQueue DEF Process, Event, Handle
  <2> QED
    BY <1>3, <1>5, <1>6, <1>10, <2>1 DEF Process, Resolves
<1>11. CASE \E o \in Obj : DestroyObject(o)
  <2>1. \A o \in Obj : Slots(HandlesOn(o)) \in SUBSET Slot
    BY <1>1, HandlesOnTypes
  <2> QED
    BY <1>3, <1>6, <1>11, <2>1 DEF DestroyObject
<1> QED
  BY <1>3, <1>4, <1>7, <1>8, <1>9, <1>10, <1>11
  DEF Next, Script, Engine, Create, SetType, Pin, ScriptDestroy, Keep, Drop, QueueApply, QueueRemove,
      Enqueue, FreeObject, Collect, vars

LEMMA KnownKeeps ==
  ASSUME IInv, Known, Early, Reuses < MaxGeneration, [Next]_vars PROVE Known'
<1>1. \A h \in Handle : Issued(h) => Issued(h)'
  BY PastStaysPast
<1>2. TypeOK /\ \A i \in DOMAIN calls : calls[i].batch \subseteq Handle
  BY BatchTypes DEF IInv
<1>3. ASSUME NEW i \in DOMAIN calls', NEW h \in calls'[i].batch PROVE Issued(h)'
  <2>1. h \in Handle /\ (Valid(h) \/ \E j \in DOMAIN calls : h \in calls[j].batch)
    BY NewBatches
  <2> QED
    BY <1>1, <2>1 DEF Known, Issued
<1>4. ASSUME NEW h \in held' PROVE Issued(h)'
  <2>1. CASE h \in held
    BY <1>1, <1>2, <2>1 DEF Known, TypeOK
  <2>2. CASE \E s \in Slot : Create(s) /\ h \notin held
    BY <1>4, <2>2 DEF Create, Issued, Valid
  <2>3. CASE Keep(h)
    <3>1. h \notin held /\ calls # << >> /\ h \in Last(calls).batch
      BY <2>3 DEF Keep, Visible
    <3>2. Len(calls) \in DOMAIN calls
      BY <1>2, <3>1 DEF TypeOK
    <3> QED
      BY <1>1, <1>2, <3>1, <3>2 DEF Known, Last
  <2>4. h \in held \/ (\E s \in Slot : Create(s)) \/ Keep(h)
    BY <1>4 DEF Next, Script, Engine, SetType, Pin, ScriptDestroy, ApplyEffect, RemoveEffect,
       ApplyItemEffect, RemoveItemEffects, Keep, Drop, QueueApply, QueueRemove, Enqueue, DestroyObject,
       Process, Return, FreeObject, Collect, vars
  <2> QED
    BY <2>1, <2>2, <2>3, <2>4
<1> QED
  BY <1>3, <1>4 DEF Known

(* "Handles never reused" holds until the generation of a slot wraps: while *)
(* no slot is taken 2^24 - 1 times, a handle that a script kept past the    *)
(* end of its effect never names another effect.                            *)
THEOREM NoReuseBeforeWrap ==
  ASSUME Disciplined, Reuses < MaxGeneration PROVE Spec => StaleStaysStale
<1>1. Init => IInv /\ Early /\ Known
  <2>1. Init => IInv
    BY InitIInv
  <2>2. Init => Early /\ Known
    BY BoundAssumption DEF BoundAssumption, Init, Early, Known
  <2> QED
    BY <2>1, <2>2
<1>2. (IInv /\ Early /\ Known) /\ [Next]_vars => (IInv /\ Early /\ Known)'
  BY NextKeepsIInv, PastStaysPast, KnownKeeps
<1>3. (IInv /\ Early /\ Known) /\ [Next]_vars => [\A h \in held : ~Valid(h) /\ h \in held' => ~Valid(h)']_vars
  <2> SUFFICES ASSUME IInv, Early, Known, [Next]_vars, NEW h \in held, ~Valid(h)
               PROVE  ~Valid(h)'
    OBVIOUS
  <2>1. h \in Handle /\ Issued(h)
    BY DEF IInv, TypeOK, Known
  <2> QED
    BY <2>1, PastStaysPast
<1> QED
  BY <1>1, <1>2, <1>3, PTL DEF Spec, StaleStaysStale

-----------------------------------------------------------------------------
(* What holds for every program                                             *)

(* The types of what apply_to and remove_from change *)
LEMMA ApplyToTypes ==
  ASSUME TypeOK, NEW o \in Obj, NEW s \in Slot, NEW d \in Desc, NEW after \in {"return", "adopt"},
         ApplyTo(o, s, d, after)
  PROVE  /\ applied' \in [Obj -> SUBSET EffectHandle]
         /\ mode' \in [Handle -> {"none", "VM_OWNED", "ENGINE_OWNED"}]
         /\ calls' \in Seq(Call) /\ Len(calls') <= MaxCalls
<1>1. [handle |-> OwnHandle(s), desc |-> d] \in EffectHandle
  BY HandleOf DEF EffectHandle
<1>2. applied' \in [Obj -> SUBSET EffectHandle]
  BY <1>1 DEF TypeOK, ApplyTo
<1>3. calls' \in Seq(Call) /\ Len(calls') <= MaxCalls
  BY AwaitCalls DEF ApplyTo
<1>4. mode' = Pinned({OwnHandle(s)})
  BY DEF ApplyTo
<1> QED
  BY <1>2, <1>3, <1>4 DEF TypeOK, Pinned

LEMMA RemoveFromTypes ==
  ASSUME TypeOK, NEW o \in Obj, NEW S \in SUBSET Slot, NEW after \in {"release", "destroy", "clear"},
         RemoveFrom(o, S, after)
  PROVE  /\ applied' \in [Obj -> SUBSET EffectHandle]
         /\ mode' \in [Handle -> {"none", "VM_OWNED", "ENGINE_OWNED"}]
         /\ calls' \in Seq(Call) /\ Len(calls') <= MaxCalls
<1> DEFINE gone == Removable(o, S)
<1>1. gone \in SUBSET Slot
  BY DEF Removable
<1>2. /\ CanCall /\ Await(o, gone, FALSE, after)
      /\ applied' = [applied EXCEPT ![o] = @ \ {Copy(s) : s \in gone}]
      /\ mode' = Pinned({OwnHandle(s) : s \in gone})
  BY DEF RemoveFrom
<1> HIDE DEF gone
<1>3. calls' \in Seq(Call) /\ Len(calls') <= MaxCalls
  BY <1>1, <1>2, AwaitCalls
<1>4. applied' \in [Obj -> SUBSET EffectHandle]
  BY <1>2 DEF TypeOK
<1> QED
  BY <1>2, <1>3, <1>4 DEF TypeOK, Pinned

LEMMA ReturnTypes ==
  ASSUME TypeOK, Return PROVE TypeOK'
<1> DEFINE c == Last(calls)
<1>1. /\ calls # << >> /\ calls' = Front(calls) /\ mode' = ModeAfter(c) /\ UNCHANGED <<held, queue>>
  BY DEF Return
<1>2. calls' \in Seq(Call) /\ Len(calls') <= MaxCalls /\ Len(calls) \in DOMAIN calls
  BY <1>1, ReturnCalls
<1>3. c \in Call /\ c.obj \in Obj /\ Slots(c.batch) \in SUBSET Slot
  BY <1>2, BatchTypes DEF Last, Call
<1>4. mode' \in [Handle -> {"none", "VM_OWNED", "ENGINE_OWNED"}]
  <2>1. \E m \in {"VM_OWNED", "ENGINE_OWNED"} : mode' = Owned(c.batch, m) \/ mode' = mode
    BY <1>1 DEF ModeAfter
  <2> QED
    BY <2>1, OwnedTypes DEF TypeOK
<1>5. /\ used' \subseteq Slot /\ gen' \in [Slot -> 1..MaxGeneration] /\ UNCHANGED <<own, desc>>
      /\ applied' \in [Obj -> SUBSET EffectHandle] /\ dying' \in Seq(Obj)
  <2>1. CASE c.after \in {"return", "adopt", "release"} /\ UNCHANGED <<poolVars, applied, dying>>
    BY <2>1 DEF TypeOK, poolVars
  <2>2. CASE Destroy(Slots(c.batch)) /\ UNCHANGED <<applied, dying>>
    BY <1>3, <2>2, DestroyTypes DEF TypeOK
  <2>3. CASE /\ Destroy(Slots(c.batch) \cup Slots({h \in HandlesOn(c.obj) : Valid(h)}))
             /\ applied' = [applied EXCEPT ![c.obj] = {}]
             /\ dying' = Append(dying, c.obj)
    <3>1. Slots(c.batch) \cup Slots({h \in HandlesOn(c.obj) : Valid(h)}) \in SUBSET Slot
      BY <1>3, HandlesOnTypes DEF Slots
    <3>2. dying' \in Seq(Obj)
      BY <1>3, <2>3 DEF TypeOK
    <3>3. applied' \in [Obj -> SUBSET EffectHandle]
      BY <2>3 DEF TypeOK
    <3> QED
      BY <2>3, <3>1, <3>2, <3>3, DestroyTypes
  <2> QED
    BY <2>1, <2>2, <2>3 DEF Return
<1> QED
  BY <1>1, <1>2, <1>4, <1>5 DEF TypeOK, Return

LEMMA ItemTypes ==
  ASSUME TypeOK, NEW o \in Obj, NEW item \in Obj, NEW h \in Handle, ApplyItemEffect(o, item, h)
  PROVE  TypeOK'
<1> DEFINE d == [desc[h.slot] EXCEPT !.creator = item]
<1>1. h.slot \in Slot /\ d \in Desc
  <2>1. h.slot \in Slot
    BY DEF Handle
  <2>2. desc[h.slot] \in Desc
    BY <2>1 DEF TypeOK
  <2> QED
    BY <2>1, <2>2 DEF Desc
<1>2. CASE /\ ApplyTo(o, h.slot, d, "return")
           /\ desc' = [desc EXCEPT ![h.slot] = d]
           /\ UNCHANGED <<used, gen, own>>
  <2>1. desc' \in [Slot -> Desc]
    BY <1>1, <1>2 DEF TypeOK
  <2> QED
    BY <1>1, <1>2, <2>1, ApplyToTypes DEF ApplyItemEffect, TypeOK
<1>3. CASE /\ mode' = Owned({h}, "ENGINE_OWNED")
           /\ Destroy({h.slot})
           /\ UNCHANGED <<applied, calls>>
  BY <1>1, <1>3, OwnedTypes, DestroyTypes DEF ApplyItemEffect, TypeOK
<1> QED
  BY <1>2, <1>3 DEF ApplyItemEffect

LEMMA ProcessTypes ==
  ASSUME TypeOK, Process
  PROVE  TypeOK'
<1> DEFINE ev == Head(queue)
           s == ev.handle.slot
<1>1. /\ queue' \in Seq(Event) /\ Len(queue') <= MaxEvents /\ UNCHANGED <<objects, held, dying>>
      /\ ev.obj \in Obj /\ s \in Slot /\ desc[s] \in Desc /\ {s} \in SUBSET Slot
  <2>1. /\ queue' \in Seq(Event) /\ Len(queue') <= MaxEvents /\ UNCHANGED <<objects, held, dying>>
        /\ ev \in Event
    BY ProcessQueue DEF Process
  <2> QED
    BY <2>1 DEF Event, Handle, TypeOK
<1>2. CASE UNCHANGED <<poolVars, applied, mode, calls>>
  BY <1>1, <1>2 DEF TypeOK, poolVars
<1>3. CASE ApplyTo(ev.obj, s, desc[s], "return") /\ UNCHANGED poolVars
  BY <1>1, <1>3, ApplyToTypes DEF TypeOK, poolVars
<1>4. CASE RemoveFrom(ev.obj, {s}, "destroy") /\ UNCHANGED poolVars
  BY <1>1, <1>4, RemoveFromTypes DEF TypeOK, poolVars
<1>5. CASE Destroy({s}) /\ UNCHANGED <<applied, mode, calls>>
  BY <1>1, <1>5, DestroyTypes DEF TypeOK
<1> QED
  BY <1>2, <1>3, <1>4, <1>5 DEF Process

LEMMA DestroyObjectTypes ==
  ASSUME TypeOK, NEW o \in Obj, DestroyObject(o)
  PROVE  TypeOK'
<1>1. Slots(HandlesOn(o)) \in SUBSET Slot /\ Slots({h \in HandlesOn(o) : Valid(h)}) \in SUBSET Slot
  BY HandlesOnTypes DEF Slots
<1>2. CASE RemoveFrom(o, Slots(HandlesOn(o)), "clear") /\ UNCHANGED <<poolVars, dying>>
  BY <1>1, <1>2, RemoveFromTypes DEF DestroyObject, TypeOK, poolVars
<1>3. CASE /\ Destroy(Slots({h \in HandlesOn(o) : Valid(h)}))
           /\ applied' = [applied EXCEPT ![o] = {}]
           /\ dying' = Append(dying, o)
           /\ UNCHANGED <<mode, calls>>
  BY <1>1, <1>3, DestroyTypes DEF DestroyObject, TypeOK
<1> QED
  BY <1>2, <1>3 DEF DestroyObject

LEMMA ScriptTypes ==
  ASSUME TypeOK, Script
  PROVE  TypeOK'
<1>1. ASSUME NEW s \in Slot, Create(s)
      PROVE  TypeOK'
  <2>1. [slot |-> s, gen |-> gen[s]] \in Handle
    BY DEF TypeOK, Handle
  <2>2. /\ mode' \in [Handle -> {"none", "VM_OWNED", "ENGINE_OWNED"}] /\ held' \subseteq Handle
       
    BY <1>1, <2>1 DEF TypeOK, Create
  <2>3. own' \in [Slot -> 1..MaxGeneration] /\ desc' \in [Slot -> Desc] /\ used' \subseteq Slot
    BY <1>1 DEF TypeOK, Create, Desc
  <2> QED
    BY <1>1, <2>2, <2>3 DEF TypeOK, Create
<1>2. ASSUME NEW h \in Handle, NEW t \in Type, SetType(h, t)
      PROVE  TypeOK'
  <2>1. desc' \in [Slot -> Desc]
    BY <1>2, ZenonT(60) DEF TypeOK, SetType, Desc, Handle
  <2> QED
    BY <1>2, <2>1 DEF TypeOK, SetType
<1>3. ASSUME NEW h \in Handle, Pin(h)
      PROVE  TypeOK'
  BY <1>3, OwnedTypes DEF TypeOK, Pin, poolVars
<1>4. ASSUME NEW h \in Handle, ScriptDestroy(h)
      PROVE  TypeOK'
  <2>1. {h.slot} \in SUBSET Slot
    BY DEF Handle
  <2> QED
    BY <1>4, <2>1, DestroyTypes DEF TypeOK, ScriptDestroy
<1>5. ASSUME NEW h \in Handle, Keep(h) \/ Drop(h)
      PROVE  TypeOK'
  BY <1>5 DEF TypeOK, Keep, Drop, poolVars
<1>6. ASSUME NEW o \in Obj, NEW h \in Handle, ApplyEffect(o, h)
      PROVE  TypeOK'
  <2>1. h.slot \in Slot /\ desc[h.slot] \in Desc
    BY DEF TypeOK, Handle
  <2> QED
    BY <1>6, <2>1, ApplyToTypes DEF TypeOK, ApplyEffect, poolVars
<1>7. ASSUME NEW o \in Obj, NEW h \in Handle, RemoveEffect(o, h)
      PROVE  TypeOK'
  <2>1. {h.slot} \in SUBSET Slot
    BY DEF Handle
  <2> QED
    BY <1>7, <2>1, RemoveFromTypes DEF TypeOK, RemoveEffect, poolVars
<1>8. ASSUME NEW o \in Obj, NEW item \in Obj, RemoveItemEffects(o, item)
      PROVE  TypeOK'
  <2>1. {c.handle.slot : c \in {x \in applied[o] : x.desc.creator = item}} \in SUBSET Slot
    BY DEF TypeOK, EffectHandle, Handle
  <2> QED
    BY <1>8, <2>1, RemoveFromTypes DEF TypeOK, RemoveItemEffects, poolVars
<1> QED
  BY <1>1, <1>2, <1>3, <1>4, <1>5, <1>6, <1>7, <1>8, ItemTypes DEF Script

LEMMA QueueTypes ==
  ASSUME TypeOK, NEW o \in Obj,
         \/ \E h \in Handle : QueueApply(o, h)
         \/ \E s \in Slot : QueueRemove(o, s)
  PROVE  TypeOK'
<1>1. PICK ev \in Event : Enqueue(ev)
  <2>1. \A s \in Slot : OwnHandle(s) \in Handle
    BY HandleOf
  <2> QED
    BY <2>1 DEF Event, QueueApply, QueueRemove
<1>2. queue' \in Seq(Event) /\ Len(queue') <= MaxEvents
  BY <1>1, EnqueueQueue
<1> QED
  BY <1>1, <1>2 DEF Enqueue, TypeOK, poolVars

LEMMA CollectTypes ==
  ASSUME TypeOK, NEW h \in Handle, Collect(h) PROVE TypeOK'
BY DEF TypeOK, Collect, poolVars

LEMMA FreeObjectTypes ==
  ASSUME TypeOK, FreeObject PROVE TypeOK'
<1>1. Last(dying) \in Obj /\ dying' \in Seq(Obj)
  BY LastAndFront DEF FreeObject, TypeOK
<1>2. applied' \in [Obj -> SUBSET EffectHandle]
  BY <1>1 DEF FreeObject, TypeOK
<1> QED
  BY <1>1, <1>2 DEF FreeObject, TypeOK, poolVars

LEMMA StepTypes ==
  ASSUME TypeOK, [Next]_vars PROVE TypeOK'
<1>1. CASE UNCHANGED vars
  BY <1>1 DEF TypeOK, vars, poolVars
<1> QED
  BY <1>1, ScriptTypes, QueueTypes, DestroyObjectTypes, ProcessTypes, ReturnTypes, FreeObjectTypes,
     CollectTypes
  DEF Next, Engine

(* Every handle, event, call and copy of a handle is of its type, whatever  *)
(* the programs do: handles that wrapped and events that come late too.     *)
THEOREM TypeCorrect == Spec => []TypeOK
<1>1. Init => TypeOK
  BY InitIInv DEF IInv
<1>2. TypeOK /\ [Next]_vars => TypeOK'
  BY StepTypes
<1> QED
  BY <1>1, <1>2, PTL DEF Spec

-----------------------------------------------------------------------------
(* What is on an object can be removed from it                              *)

(* The copies on the objects say what the effects say of themselves. *)
CopiesExact == \A o \in Obj : \A c \in applied[o] : c = Copy(c.handle.slot)

(* What is written to the memory of an effect is written when no object has *)
(* the effect.                                                              *)
LEMMA MemoryOfAppliedStays ==
  ASSUME IInv, "change_applied" \notin Liberties, [Next]_vars,
         NEW h \in Handle, ~OnNoObject(h)
  PROVE  own'[h.slot] = own[h.slot] /\ desc'[h.slot] = desc[h.slot]
<1>1. TypeOK /\ Valid(h) /\ h.slot \in Slot
  BY DEF IInv, Held, InUse, OnNoObject, Handle
<1>2. ASSUME NEW g \in Handle, Valid(g), OnNoObject(g) PROVE g.slot # h.slot
  BY <1>1, <1>2, ValidBySlot
<1>3. CASE UNCHANGED <<own, desc>>
  BY <1>3
<1>4. CASE \E s \in Slot : Create(s)
  <2>1. PICK s \in Slot : Create(s)
    BY <1>4
  <2>2. s # h.slot
    BY <1>1, <2>1 DEF Create, Valid
  <2> QED
    BY <1>1, <2>1, <2>2 DEF Create, TypeOK
<1>5. CASE \E g \in Handle, t \in Type : SetType(g, t)
  <2>1. PICK g \in Handle, t \in Type : SetType(g, t)
    BY <1>5
  <2>2. g.slot # h.slot
    BY <1>2, <2>1 DEF SetType, Native, MayChange
  <2> QED
    BY <1>1, <2>1, <2>2 DEF SetType, TypeOK
<1>6. CASE \E o, item \in Obj, g \in Handle : ApplyItemEffect(o, item, g)
  <2>1. PICK o \in Obj, item \in Obj, g \in Handle : ApplyItemEffect(o, item, g)
    BY <1>6
  <2>2. g.slot # h.slot
    BY <1>2, <2>1 DEF ApplyItemEffect, Native, MayChange
  <2> QED
    BY <1>1, <2>1, <2>2 DEF ApplyItemEffect, Destroy, TypeOK
<1>7. CASE UNCHANGED vars
  BY <1>7 DEF vars, poolVars
<1> QED
  BY <1>3, <1>4, <1>5, <1>6, <1>7
  DEF Next, Script, Engine, Pin, ScriptDestroy, Keep, Drop, ApplyEffect, RemoveEffect, RemoveItemEffects,
      QueueApply, QueueRemove, Enqueue, DestroyObject, Process, Return, FreeObject, Collect, Destroy, poolVars

(* What an object gets is a copy of what the effect says after the step. *)
LEMMA NewCopies ==
  ASSUME IInv, [Next]_vars, NEW o \in Obj, NEW c \in applied'[o], c \notin applied[o]
  PROVE  \E s \in Slot : /\ c = [handle |-> OwnHandle(s), desc |-> desc'[s]]
                         /\ own' = own
<1>1. TypeOK
  BY DEF IInv
<1>2. ASSUME NEW p \in Obj, NEW s \in Slot, NEW d, NEW after, ApplyTo(p, s, d, after)
      PROVE  c = [handle |-> OwnHandle(s), desc |-> d]
  BY <1>1, <1>2 DEF ApplyTo, TypeOK
<1>3. ASSUME NEW p \in Obj, NEW S, NEW after, RemoveFrom(p, S, after) PROVE FALSE
  BY <1>1, <1>3 DEF RemoveFrom, TypeOK
<1>4. CASE \E p \in Obj, h \in Handle : ApplyEffect(p, h)
  BY <1>2, <1>4 DEF ApplyEffect, poolVars, Handle
<1>5. CASE \E p, item \in Obj, h \in Handle : ApplyItemEffect(p, item, h)
  <2>1. PICK p \in Obj, item \in Obj, h \in Handle : ApplyItemEffect(p, item, h)
    BY <1>5
  <2> DEFINE d == [desc[h.slot] EXCEPT !.creator = item]
  <2>2. h.slot \in Slot
    BY DEF Handle
  <2>3. ApplyTo(p, h.slot, d, "return") /\ desc' = [desc EXCEPT ![h.slot] = d] /\ own' = own
    BY <2>1 DEF ApplyItemEffect
  <2>4. desc'[h.slot] = d
    BY <1>1, <2>2, <2>3 DEF TypeOK
  <2> QED
    BY <1>2, <2>2, <2>3, <2>4
<1>6. CASE Process
  <2>1. Head(queue).obj \in Obj /\ Head(queue).handle.slot \in Slot
    BY <1>1, <1>6, ProcessQueue DEF Process, Event, Handle
  <2> QED
    BY <1>2, <1>3, <1>6, <2>1 DEF Process, poolVars
<1>7. CASE Return
  <2>1. applied' = applied \/ applied' = [applied EXCEPT ![Last(calls).obj] = {}]
    BY <1>7 DEF Return
  <2> QED
    BY <1>1, <2>1 DEF TypeOK
<1>8. CASE \E p \in Obj : DestroyObject(p)
  <2>1. PICK p \in Obj : DestroyObject(p)
    BY <1>8
  <2>2. applied' = [applied EXCEPT ![p] = {}]
    BY <1>3, <2>1 DEF DestroyObject
  <2> QED
    BY <1>1, <2>2 DEF TypeOK
<1>9. CASE UNCHANGED applied
  BY <1>9
<1>10. CASE \E p \in Obj, h \in Handle : RemoveEffect(p, h)
  BY <1>3, <1>10 DEF RemoveEffect
<1>11. CASE \E p, item \in Obj : RemoveItemEffects(p, item)
  BY <1>3, <1>11 DEF RemoveItemEffects
<1>12. CASE UNCHANGED vars
  BY <1>9, <1>12 DEF vars
<1>13. CASE FreeObject
  BY <1>1, <1>13 DEF FreeObject, TypeOK
<1> QED
  BY <1>4, <1>5, <1>6, <1>7, <1>8, <1>9, <1>10, <1>11, <1>12, <1>13
  DEF Next, Script, Engine, Create, SetType, Pin, ScriptDestroy, Keep, Drop, QueueApply, QueueRemove,
      Enqueue, Collect

LEMMA CopiesStayExact ==
  ASSUME IInv, CopiesExact, "change_applied" \notin Liberties, [Next]_vars
  PROVE  CopiesExact'
<1> SUFFICES ASSUME NEW o \in Obj, NEW c \in applied'[o] PROVE c = Copy(c.handle.slot)'
  BY DEF CopiesExact
<1>1. CASE c \in applied[o]
  <2>1. c.handle \in Handle /\ ~OnNoObject(c.handle)
    BY <1>1 DEF IInv, TypeOK, EffectHandle, OnNoObject, HandlesOn
  <2>2. own'[c.handle.slot] = own[c.handle.slot] /\ desc'[c.handle.slot] = desc[c.handle.slot]
    BY <2>1, MemoryOfAppliedStays
  <2>3. c = Copy(c.handle.slot)
    BY <1>1 DEF CopiesExact
  <2> QED
    BY <2>2, <2>3 DEF Copy, OwnHandle
<1>2. CASE c \notin applied[o]
  <2>1. PICK s \in Slot : c = [handle |-> OwnHandle(s), desc |-> desc'[s]] /\ own' = own
    BY <1>2, NewCopies
  <2>2. c.handle.slot = s
    BY <2>1 DEF OwnHandle
  <2> QED
    BY <2>1, <2>2 DEF Copy, OwnHandle
<1> QED
  BY <1>1, <1>2

(* A program that does not change an applied effect, and applies an effect  *)
(* to one object at a time, can remove what it applied: remove_from looks   *)
(* for the entry that equals what the effect says of itself, and finds it.  *)
THEOREM RemovalFindsItsEntry ==
  ASSUME Disciplined, "change_applied" \notin Liberties PROVE Spec => []AppliedRemovable
<1>1. Init => IInv /\ CopiesExact
  BY InitIInv DEF Init, CopiesExact
<1>2. (IInv /\ CopiesExact) /\ [Next]_vars => (IInv /\ CopiesExact)'
  BY NextKeepsIInv, CopiesStayExact
<1>3. IInv /\ CopiesExact => AppliedRemovable
  BY DEF IInv, TypeOK, CopiesExact, AppliedRemovable
<1> QED
  BY <1>1, <1>2, <1>3, PTL DEF Spec

=============================================================================
