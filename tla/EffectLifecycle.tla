--------------------------- MODULE EffectLifecycle ---------------------------
(***************************************************************************)
(* The life of an effect, between the five parts that hold on to it: the   *)
(* pool that owns the memory (HandlePool.cpp), the effects of each object  *)
(* (effects.cpp), the runtime's registry of handles (runtime.cpp), the     *)
(* scripts that hold handle cells, and the event queue (EventSystem.cpp).  *)
(*                                                                         *)
(* Everything runs in one thread, yet applying or removing an effect calls *)
(* the script on_effects of the policy module in the middle, and that      *)
(* script may create, apply, remove and destroy effects in turn.  "calls"  *)
(* is the stack of apply_to and remove_from calls that wait for on_effects.*)
(* An object whose effects are cleared exists until the items it carries   *)
(* are destroyed, and their on_effects may reach it: it is in "dying".     *)
(*                                                                         *)
(* Engine code passes raw Effect pointers: a pointer is a pool slot, and   *)
(* means whichever effect the slot has when it is used.  Scripts and       *)
(* events pass handles, a slot and a generation, checked by the pool.      *)
(***************************************************************************)
EXTENDS Integers, Sequences, FiniteSets, SequencesExt

CONSTANTS
  Obj,            \* object handles; ObjectManager never issues one twice
  Slot,           \* slots of the effect pool (the bound on the pool)
  Type,           \* effect types
  Mask,           \* the pairs type, object that register_type_metadata allows
  None,           \* no object
  MaxGeneration,  \* TypedHandlePool: (1 << 24) - 1
  Reuses,         \* a slot is allocated at generations 1..Reuses only
  MaxCalls,       \* bound on the nesting of on_effects, and of destroys
  MaxEvents,      \* bound on the event queue
  Natives,        \* the native functions the scripts call
  Liberties       \* what the programs do beyond the discipline below

AllNatives == {"set_type", "pin", "destroy", "apply", "remove", "item", "keep"}
AllLiberties == {"apply_applied", "apply_queued", "change_applied", "heap_full"}

ASSUME SetAssumption ==
  /\ IsFiniteSet(Slot)
  /\ None \notin Obj
  /\ Mask \subseteq Type \X Obj
ASSUME BoundAssumption ==
  /\ MaxGeneration \in Nat \ {0} /\ Reuses \in 1..MaxGeneration
  /\ MaxCalls \in Nat /\ MaxEvents \in Nat
ASSUME ProgramAssumption ==
  /\ Natives \subseteq AllNatives
  /\ Liberties \subseteq AllLiberties

VARIABLES
  objects,  \* the objects that exist
  used,     \* slots whose free_list_next is the sentinel
  gen,      \* TypedHandleHeader::generation
  own,      \* Effect::handle_.runtime_handle in the slot's memory, its generation
  desc,     \* Effect::handle_.type and creator in the slot's memory
  applied,  \* ObjectBase::effects_, copies of EffectHandle
  mode,     \* Runtime::global_handle_registry_
  held,     \* handles whose cell a script can reach
  queue,    \* EventSystem::queue_, events of the current tick
  calls,    \* the calls that wait for on_effects
  dying     \* the objects that ObjectManager::destroy has to free, innermost last

poolVars == <<used, gen, own, desc>>
vars == <<objects, poolVars, applied, mode, held, queue, calls, dying>>

Handle == [slot : Slot, gen : 1..MaxGeneration]
Desc == [type : Type \cup {None}, creator : Obj \cup {None}]
EffectHandle == [handle : Handle, desc : Desc]
Event == [kind : {"apply_effect", "remove_effect"}, obj : Obj, handle : Handle]
Call == [is_apply : BOOLEAN, obj : Obj, batch : SUBSET Handle, runs : BOOLEAN,
         after : {"return", "adopt", "release", "destroy", "clear"}]

TypeOK ==
  /\ objects \subseteq Obj
  /\ used \subseteq Slot
  /\ gen \in [Slot -> 1..MaxGeneration]
  /\ own \in [Slot -> 1..MaxGeneration]
  /\ desc \in [Slot -> Desc]
  /\ applied \in [Obj -> SUBSET EffectHandle]
  /\ mode \in [Handle -> {"none", "VM_OWNED", "ENGINE_OWNED"}]
  /\ held \subseteq Handle
  /\ queue \in Seq(Event) /\ Len(queue) <= MaxEvents
  /\ calls \in Seq(Call) /\ Len(calls) <= MaxCalls
  /\ dying \in Seq(Obj)

Init ==
  /\ objects = Obj
  /\ used = {}
  /\ gen = [s \in Slot |-> 1]
  /\ own = [s \in Slot |-> 1]
  /\ desc = [s \in Slot |-> [type |-> None, creator |-> None]]
  /\ applied = [o \in Obj |-> {}]
  /\ mode = [h \in Handle |-> "none"]
  /\ held = {}
  /\ queue = << >>
  /\ calls = << >>
  /\ dying = << >>

-----------------------------------------------------------------------------
(* The pool                                                                 *)

(* TypedHandlePool::get finds something. *)
Valid(h) == h.slot \in used /\ gen[h.slot] = h.gen

(* Mutants of NextGen: the wrap yields the invalid generation 0; destroy    *)
(* leaves the generation alone.                                             *)
NextGenZero(g) == (g + 1) % MaxGeneration
NextGenSame(g) == g

NextGen(g) == IF g = MaxGeneration THEN 1 ELSE g + 1

(* Effect::handle() through a pointer to slot s *)
OwnHandle(s) == [slot |-> s, gen |-> own[s]]
Copy(s) == [handle |-> OwnHandle(s), desc |-> desc[s]]

(* EffectSystem::destroy of the pointers S: a pointer to a free slot names a *)
(* handle of the past, which the pool refuses.                              *)
Destroy(S) ==
  LET gone == {s \in S : Valid(OwnHandle(s))} IN
  /\ used' = used \ gone
  /\ gen' = [s \in Slot |-> IF s \in gone THEN NextGen(gen[s]) ELSE gen[s]]
  /\ UNCHANGED <<own, desc>>

-----------------------------------------------------------------------------
(* The registry of handles                                                  *)

Registered(h) == mode[h] # "none"

(* set_handle_ownership changes only what is registered. *)
Owned(S, m) == [h \in Handle |-> IF h \in S /\ Registered(h) THEN m ELSE mode[h]]

(* What dispatch_on_effects does before on_effects: intern, then pin *)
Pinned(S) == [h \in Handle |-> IF h \in S THEN "ENGINE_OWNED" ELSE mode[h]]

-----------------------------------------------------------------------------
(* apply_to and remove_from                                                 *)

CanCall == Len(calls) < MaxCalls
Accepts(o, s) == <<desc[s].type, o>> \in Mask

(* The pointers of S whose effect leaves the object in remove_from *)
Removable(o, S) == {s \in S : Accepts(o, s) /\ Copy(s) \in applied[o]}

(* dispatch_on_effects runs on_effects unless the heap has no room for the  *)
(* array of its arguments.                                                  *)
Runs == IF "heap_full" \in Liberties THEN BOOLEAN ELSE {TRUE}

Await(o, S, isApply, after) ==
  \E runs \in Runs :
    calls' = Append(calls, [is_apply |-> isApply, obj |-> o, batch |-> {OwnHandle(s) : s \in S},
                            runs |-> runs, after |-> after])

(* Mutant of ApplyTo: the object copies the handle before it is changed. *)
ApplyToEarly(o, s, d, after) ==
  /\ CanCall
  /\ <<d.type, o>> \in Mask
  /\ applied' = [applied EXCEPT ![o] = @ \cup {Copy(s)}]
  /\ mode' = Pinned({OwnHandle(s)})
  /\ Await(o, {s}, TRUE, after)

(* apply_to up to on_effects, for an effect the object accepts; d is what   *)
(* the effect says of itself when it is applied.                            *)
ApplyTo(o, s, d, after) ==
  /\ CanCall
  /\ <<d.type, o>> \in Mask
  /\ applied' = [applied EXCEPT ![o] = @ \cup {[handle |-> OwnHandle(s), desc |-> d]}]
  /\ mode' = Pinned({OwnHandle(s)})
  /\ Await(o, {s}, TRUE, after)

(* Mutant of RemoveFrom: the pins are let go of before on_effects. *)
RemoveFromUnpinned(o, S, after) ==
  LET gone == Removable(o, S) IN
  /\ CanCall
  /\ gone # {}
  /\ applied' = [applied EXCEPT ![o] = @ \ {Copy(s) : s \in gone}]
  /\ mode' = Owned({OwnHandle(s) : s \in gone}, "VM_OWNED")
  /\ Await(o, gone, FALSE, after)

(* remove_from up to on_effects, for pointers some of which are removable *)
RemoveFrom(o, S, after) ==
  LET gone == Removable(o, S) IN
  /\ CanCall
  /\ gone # {}
  /\ applied' = [applied EXCEPT ![o] = @ \ {Copy(s) : s \in gone}]
  /\ mode' = Pinned({OwnHandle(s) : s \in gone})
  /\ Await(o, gone, FALSE, after)

Slots(S) == {h.slot : h \in S}
HandlesOn(o) == {c.handle : c \in applied[o]}

(* Mutant of ModeAfter: the pins of an application are released too. *)
ModeAfterUnpins(c) == Owned(c.batch, "VM_OWNED")

(* The pins are released after a removal, and when on_effects did not run;  *)
(* core.object.apply_effect makes the engine the owner in any case.         *)
ModeAfter(c) ==
  CASE c.after = "adopt" -> Owned(c.batch, "ENGINE_OWNED")
    [] c.after # "adopt" /\ (~c.is_apply \/ ~c.runs) -> Owned(c.batch, "VM_OWNED")
    [] OTHER -> mode

(* on_effects returns to dispatch_on_effects, which lets go of the handles  *)
(* of a removal, and the caller of apply_to or remove_from goes on.         *)
Return ==
  /\ calls # << >>
  /\ LET c == Last(calls) IN
     /\ calls' = Front(calls)
     /\ mode' = ModeAfter(c)
     /\ \/ /\ c.after \in {"return", "adopt", "release"}
           /\ UNCHANGED <<poolVars, applied, dying>>
        \/ /\ c.after = "destroy"
           /\ Destroy(Slots(c.batch))
           /\ UNCHANGED <<applied, dying>>
        \/ /\ c.after = "clear"
           /\ Destroy(Slots(c.batch) \cup Slots({h \in HandlesOn(c.obj) : Valid(h)}))
           /\ applied' = [applied EXCEPT ![c.obj] = {}]
           /\ dying' = Append(dying, c.obj)
     /\ UNCHANGED <<objects, held, queue>>

-----------------------------------------------------------------------------
(* Scripts.  They name an effect by a cell they can reach; in on_effects    *)
(* the batch is an argument.                                                *)

ScriptRuns == IF calls = << >> THEN dying = << >> ELSE Last(calls).runs

Visible == held \cup (IF calls = << >> THEN {} ELSE Last(calls).batch)

(* The discipline of the programs: an effect is applied to one object at a  *)
(* time and only when nobody waits to apply, remove or destroy it, and an   *)
(* applied effect is not changed.  Nothing in the code asks for it:         *)
(* Liberties are the parts of it that a run drops.                          *)
OnNoObject(h) == \A o \in Obj : h \notin HandlesOn(o)
InNoCall(h) == \A i \in DOMAIN calls : h \notin calls[i].batch
InNoEvent(h) == \A i \in DOMAIN queue : queue[i].handle # h

MayApply(h) ==
  /\ "apply_applied" \in Liberties \/ (OnNoObject(h) /\ InNoCall(h))
  /\ "apply_queued" \in Liberties \/ InNoEvent(h)
MayChange(h) == "change_applied" \in Liberties \/ OnNoObject(h)

Native(n, h) == n \in Natives /\ h \in Visible /\ Valid(h)

(* core.effects.create: the pool's slot, the cell that make_value interns. *)
(* Which free slot the pool takes is left open.                            *)
Create(s) ==
  /\ s \notin used
  /\ gen[s] <= Reuses
  /\ used' = used \cup {s}
  /\ own' = [own EXCEPT ![s] = gen[s]]
  /\ desc' = [desc EXCEPT ![s] = [type |-> None, creator |-> None]]
  /\ LET h == [slot |-> s, gen |-> gen[s]] IN
     /\ mode' = [mode EXCEPT ![h] = IF Registered(h) THEN @ ELSE "VM_OWNED"]
     /\ held' = held \cup {h}
  /\ UNCHANGED <<objects, gen, applied, queue, calls, dying>>

(* core.effects.set_type *)
SetType(h, t) ==
  /\ Native("set_type", h)
  /\ MayChange(h)
  /\ desc' = [desc EXCEPT ![h.slot].type = t]
  /\ UNCHANGED <<objects, used, gen, own, applied, mode, held, queue, calls, dying>>

(* core.effects.apply, which applies nothing.  Reading the effects of an    *)
(* AttackData does the same, and a scheduled attack forgets them after it.  *)
Pin(h) ==
  /\ Native("pin", h)
  /\ mode' = Owned({h}, "ENGINE_OWNED")
  /\ UNCHANGED <<objects, poolVars, applied, held, queue, calls, dying>>

(* Mutant of ScriptDestroy: the owner is not looked up. *)
ScriptDestroyAny(h) ==
  /\ Native("destroy", h)
  /\ Destroy({h.slot})
  /\ UNCHANGED <<objects, applied, mode, held, queue, calls, dying>>

(* core.effects.destroy *)
ScriptDestroy(h) ==
  /\ Native("destroy", h)
  /\ mode[h] = "VM_OWNED"
  /\ Destroy({h.slot})
  /\ UNCHANGED <<objects, applied, mode, held, queue, calls, dying>>

(* core.object.apply_effect *)
ApplyEffect(o, h) ==
  /\ Native("apply", h)
  /\ MayApply(h)
  /\ o \in objects
  /\ ApplyTo(o, h.slot, desc[h.slot], "adopt")
  /\ UNCHANGED <<objects, poolVars, held, queue, dying>>

(* core.object.remove_effect *)
RemoveEffect(o, h) ==
  /\ Native("remove", h)
  /\ o \in objects
  /\ RemoveFrom(o, {h.slot}, "release")
  /\ UNCHANGED <<objects, poolVars, held, queue, dying>>

(* core.item.apply_item_effect *)
ApplyItemEffect(o, item, h) ==
  /\ Native("item", h)
  /\ MayApply(h) /\ MayChange(h)
  /\ {o, item} \subseteq objects
  /\ LET d == [desc[h.slot] EXCEPT !.creator = item] IN
     \/ /\ ApplyTo(o, h.slot, d, "return")
        /\ desc' = [desc EXCEPT ![h.slot] = d]
        /\ UNCHANGED <<used, gen, own>>
     \/ /\ <<d.type, o>> \notin Mask
        /\ mode' = Owned({h}, "ENGINE_OWNED")
        /\ Destroy({h.slot})
        /\ UNCHANGED <<applied, calls>>
  /\ UNCHANGED <<objects, held, queue, dying>>

(* core.item.remove_item_effects *)
RemoveItemEffects(o, item) ==
  /\ "item" \in Natives
  /\ {o, item} \subseteq objects
  /\ RemoveFrom(o, {c.handle.slot : c \in {x \in applied[o] : x.desc.creator = item}}, "destroy")
  /\ UNCHANGED <<objects, poolVars, held, queue, dying>>

(* on_effects stores an effect of its batch, and later lets go of it. *)
Keep(h) ==
  /\ "keep" \in Natives
  /\ h \in Visible \ held
  /\ held' = held \cup {h}
  /\ UNCHANGED <<objects, poolVars, applied, mode, queue, calls, dying>>

Drop(h) ==
  /\ h \in held
  /\ held' = held \ {h}
  /\ UNCHANGED <<objects, poolVars, applied, mode, queue, calls, dying>>

(* The collector frees the cell of a handle: Runtime::destruct_object takes *)
(* it off the registry.  The library registers no destructor for the handle *)
(* type of effects, so the effect stays in the pool.  Cells that are not    *)
(* VM_OWNED are roots, and so are the arguments of calls.                   *)
Collect(h) ==
  /\ mode[h] = "VM_OWNED"
  /\ h \notin held
  /\ InNoCall(h)
  /\ mode' = [mode EXCEPT ![h] = "none"]
  /\ UNCHANGED <<objects, poolVars, applied, held, queue, calls, dying>>

-----------------------------------------------------------------------------
(* The engine, between two calls of a script                                *)

FromHost == calls = << >> /\ dying = << >>

Enqueue(ev) ==
  /\ FromHost
  /\ Len(queue) < MaxEvents
  /\ queue' = Append(queue, ev)
  /\ UNCHANGED <<objects, poolVars, applied, mode, held, calls, dying>>

(* EventSystem::add of an effect to apply *)
QueueApply(o, h) ==
  /\ Valid(h)
  /\ MayApply(h)
  /\ o \in objects
  /\ Enqueue([kind |-> "apply_effect", obj |-> o, handle |-> h])

(* One turn of queue_remove_effect_by.  The handle of the event is the one  *)
(* the effect has when it is queued.                                        *)
QueueRemove(o, s) ==
  /\ o \in objects
  /\ s \in Slots(HandlesOn(o))
  /\ Enqueue([kind |-> "remove_effect", obj |-> o, handle |-> OwnHandle(s)])

(* The effect of an event exists: the handle is looked up, never the pointer.*)
(* Mutant of Resolves: the pointer is used.                                 *)
ResolvesPointer(ev) == ev.handle.slot \in used

Resolves(ev) == Valid(ev.handle)

(* EventSystem::process, one event *)
Process ==
  /\ FromHost
  /\ queue # << >>
  /\ LET ev == Head(queue)
         s == ev.handle.slot
     IN
     /\ queue' = Tail(queue)
     /\ \/ /\ ~Resolves(ev)
           /\ UNCHANGED <<poolVars, applied, mode, calls>>
        \/ /\ Resolves(ev)
           /\ ev.kind = "apply_effect" /\ ev.obj \in objects
           /\ ApplyTo(ev.obj, s, desc[s], "return")
           /\ UNCHANGED poolVars
        \/ /\ Resolves(ev)
           /\ ev.kind = "remove_effect" /\ ev.obj \in objects
           /\ RemoveFrom(ev.obj, {s}, "destroy")
           /\ UNCHANGED poolVars
        \/ /\ Resolves(ev)
           /\ \/ ev.obj \notin objects
              \/ ev.kind = "apply_effect" /\ ~Accepts(ev.obj, s)
           /\ Destroy({s})
           /\ UNCHANGED <<applied, mode, calls>>
        \/ /\ Resolves(ev)
           /\ ev.kind = "remove_effect" /\ ev.obj \in objects
           /\ Removable(ev.obj, {s}) = {}
           /\ UNCHANGED <<poolVars, applied, mode, calls>>
  /\ UNCHANGED <<objects, held, dying>>

(* ObjectManager::destroy and ObjectBase::clear_effects, up to on_effects   *)
(* or to the end when no effect can be removed.  The host destroys objects, *)
(* and an object that dies destroys the items it carries, whichever these   *)
(* are: an item that carries it may even destroy it again.                  *)
DestroyObject(o) ==
  /\ calls = << >> /\ Len(dying) < MaxCalls
  /\ o \in objects
  /\ \/ /\ RemoveFrom(o, Slots(HandlesOn(o)), "clear")
        /\ UNCHANGED <<poolVars, dying>>
     \/ /\ Removable(o, Slots(HandlesOn(o))) = {}
        /\ Destroy(Slots({h \in HandlesOn(o) : Valid(h)}))
        /\ applied' = [applied EXCEPT ![o] = {}]
        /\ dying' = Append(dying, o)
        /\ UNCHANGED <<mode, calls>>
  /\ UNCHANGED <<objects, held, queue>>

(* The object is freed with the effects it was given meanwhile: its memory  *)
(* goes, and no destructor destroys them.                                   *)
FreeObject ==
  /\ calls = << >> /\ dying # << >>
  /\ dying' = Front(dying)
  /\ objects' = objects \ {Last(dying)}
  /\ applied' = [applied EXCEPT ![Last(dying)] = {}]
  /\ UNCHANGED <<poolVars, mode, held, queue, calls>>

Script ==
  /\ ScriptRuns
  /\ \/ \E s \in Slot : Create(s)
     \/ \E h \in Handle, t \in Type : SetType(h, t)
     \/ \E h \in Handle : Pin(h) \/ ScriptDestroy(h) \/ Keep(h) \/ Drop(h)
     \/ \E o \in Obj, h \in Handle : ApplyEffect(o, h) \/ RemoveEffect(o, h)
     \/ \E o, item \in Obj, h \in Handle : ApplyItemEffect(o, item, h)
     \/ \E o, item \in Obj : RemoveItemEffects(o, item)

Engine ==
  \/ \E o \in Obj, h \in Handle : QueueApply(o, h)
  \/ \E o \in Obj, s \in Slot : QueueRemove(o, s)
  \/ \E o \in Obj : DestroyObject(o)

Next ==
  \/ Script
  \/ Engine
  \/ Process
  \/ Return
  \/ FreeObject
  \/ \E h \in Handle : Collect(h)

Spec == Init /\ [][Next]_vars

-----------------------------------------------------------------------------
(* An object has only effects that exist: no effect is destroyed, by a      *)
(* script, an event, the collector or a caller that waited for on_effects,  *)
(* while it is applied.                                                     *)
AppliedLive == \A o \in objects : \A h \in HandlesOn(o) : Valid(h)

(* "For apply: keep handles ENGINE_OWNED so the GC cannot collect them      *)
(* while the effects remain on the object" (dispatch_on_effects).           *)
AppliedPinned == \A o \in objects : \A h \in HandlesOn(o) : mode[h] = "ENGINE_OWNED"

(* The copy of the handle that an object keeps, which remove_from compares, *)
(* is what the effect says of itself, so that the effect can be removed.    *)
AppliedRemovable ==
  \A o \in objects : \A c \in applied[o] : Valid(c.handle) => c = Copy(c.handle.slot)

(* "Handles never reused (generation prevents ABA problem)": a handle that  *)
(* a script kept past the end of its effect never names another one.        *)
StaleStaysStale == [][\A h \in held : ~Valid(h) /\ h \in held' => ~Valid(h)']_vars

(* An event removes or destroys the effect it was queued for, or nothing. *)
EventsHitTheirEffect ==
  [][Process => \A h \in Handle : Valid(h) /\ h # Head(queue).handle =>
       /\ Valid(h)'
       /\ \A o \in Obj : h \in HandlesOn(o) => h \in HandlesOn(o)']_vars

(* What a caller of remove_from destroys when on_effects returns are the    *)
(* effects it took off before, and for an object that dies also what it was *)
(* given meanwhile: never an effect that on_effects made in a slot of these.*)
ReturnsHitTheirEffects ==
  [][Return => \A h \in Handle : Valid(h) /\ ~Valid(h)' =>
       \/ h \in Last(calls).batch
       \/ Last(calls).after = "clear" /\ h \in HandlesOn(Last(calls).obj)]_vars
=============================================================================
