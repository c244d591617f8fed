--------------------------- MODULE ObjectManager ---------------------------
(***************************************************************************)
(* The objects of the game: ObjectArray hands out slots and handles with   *)
(* versions, ObjectManager loads and destroys objects, keeps the tag index *)
(* and empties inventories.  Loading an object loads the items it carries, *)
(* destroying one destroys them, and in between scripts run that move      *)
(* items: the C++ calls in progress are the variable calls.                *)
(***************************************************************************)
EXTENDS Integers, Sequences, FiniteSets, SequencesExt

CONSTANTS
  Type,         \* the types of object that are used
  Tag,          \* the tags that are used
  NoTag,        \* the tag of an object without one
  NoObject,     \* the nullptr of a slot without an object
  MaxVersion,   \* ObjectHandle::max_version, 2^24 - 1 in the code
  MaxSlots,     \* bound: the slots of both arrays
  MaxObjects,   \* bound: the objects there ever are
  MaxLoads,     \* bound: nesting of loads
  MaxContents,  \* bound: the items in inventories
  MaxNesting    \* bound: the nesting of calls at which scripts still put items away

ASSUME ObjectAssumption ==
  /\ Type \subseteq {"area", "creature", "item", "module", "placeable", "player", "store"}
  /\ NoTag \notin Tag
  /\ MaxVersion \in Nat \ {0} /\ MaxSlots \in Nat /\ MaxObjects \in Nat
  /\ MaxLoads \in Nat /\ MaxContents \in Nat /\ MaxNesting \in Nat

VARIABLES
  slots,      \* for each array the objects and versions of its slots
  free,       \* for each array the list of free slots
  byTag,      \* object_tag_map_: for each tag the handles, in the order of insertion
  contents,   \* the inventories: pairs of an owner and an item
  calls,      \* the calls of load, load_instance and destroy in progress, the innermost last
  visited     \* for each of them the items that its loop over an inventory has come to

vars == <<slots, free, byTag, contents, calls, visited>>

Array == {"object", "player"}
ArrayOf(type) == IF type = "player" THEN "player" ELSE "object"

Handle == [id : Nat \ {0}, type : Type, version : 0 .. MaxVersion]
Object == [type : Type, tag : Tag \cup {NoTag}]
ASSUME NoObjectAssumption == NoObject \notin Object

\* ObjectArray::get: an id beyond the array or another version gives nothing.
SlotOf(h) == slots[ArrayOf(h.type)][h.id]
Valid(h) ==
  /\ h.id <= Len(slots[ArrayOf(h.type)])
  /\ SlotOf(h).version = h.version
  /\ SlotOf(h).obj # NoObject

Top == calls[Len(calls)]
FromHost == calls = << >>

(* Where scripts run: the host calls them, the callback of instantiate     *)
(* does, and on_effects does while the effects of an object are cleared.   *)
InScript == ~FromHost => Top.step \in {"instantiating", "effects"}

(***************************************************************************)
(* ObjectArray                                                             *)
(***************************************************************************)
(* Mutant of Reusable: a slot is reused whatever its version. *)
ReusableAlways(version) == TRUE

(* Mutant of Reusable: a slot is retired one version early. *)
ReusableBelow(version) == version + 1 < MaxVersion

Reusable(version) == version < MaxVersion

(* The handle that alloc gives to the next object of a type *)
NewHandle(type) ==
  LET a == ArrayOf(type)
      id == IF free[a] = << >> THEN Len(slots[a]) + 1 ELSE Head(free[a])
  IN  [id |-> id, type |-> type,
       version |-> IF free[a] = << >> THEN 0 ELSE slots[a][id].version % (MaxVersion + 1)]

\* How many objects have been in a slot
Used(s) == s.version + (IF s.obj = NoObject THEN 0 ELSE 1)
Made == MapThenSumSet(LAMBDA a : FoldSeq(LAMBDA s, n : Used(s) + n, 0, slots[a]), Array)

Alloc(type) ==
  LET a == ArrayOf(type)
      o == [type |-> type, tag |-> NoTag]
  IN  \/ /\ free[a] = << >>
         /\ Len(slots["object"]) + Len(slots["player"]) < MaxSlots /\ Made < MaxObjects
         /\ slots' = [slots EXCEPT ![a] = Append(@, [obj |-> o, version |-> 0])]
         /\ UNCHANGED free
      \/ /\ free[a] # << >> /\ Made < MaxObjects
         /\ slots' = [slots EXCEPT ![a][Head(free[a])].obj = o]
         /\ free' = [free EXCEPT ![a] = Tail(@)]

(* Mutant of Release: the version is not counted up. *)
ReleaseSame(h) ==
  LET a == ArrayOf(h.type)
  IN  /\ slots' = [slots EXCEPT ![a][h.id].obj = NoObject]
      /\ free' = [free EXCEPT ![a] = <<h.id>> \o @]

(* Mutant of Release: a slot that is not reused keeps its object. *)
ReleaseReusable(h) ==
  LET a == ArrayOf(h.type)
      version == SlotOf(h).version + 1
  IN  IF Reusable(version)
      THEN /\ slots' = [slots EXCEPT ![a][h.id] = [obj |-> NoObject, version |-> version]]
           /\ free' = [free EXCEPT ![a] = <<h.id>> \o @]
      ELSE UNCHANGED <<slots, free>>

(* ObjectArray::destroy of a valid handle *)
Release(h) ==
  LET a == ArrayOf(h.type)
      version == SlotOf(h).version + 1
  IN  /\ slots' = [slots EXCEPT ![a][h.id] = [obj |-> NoObject, version |-> version]]
      /\ free' = IF Reusable(version) THEN [free EXCEPT ![a] = <<h.id>> \o @] ELSE free

(***************************************************************************)
(* The tag index and the inventories                                       *)
(***************************************************************************)
Insert(tag, h) == IF tag = NoTag THEN byTag ELSE [byTag EXCEPT ![tag] = Append(@, h)]

(* Mutant of Erase: the first entry with the tag goes. *)
EraseFirst(tag, h) ==
  IF tag = NoTag \/ byTag[tag] = << >> THEN byTag ELSE [byTag EXCEPT ![tag] = Tail(@)]

(* destroy looks among the entries with the tag of the object for its own. *)
Erase(tag, h) ==
  IF tag = NoTag \/ ~\E i \in DOMAIN byTag[tag] : byTag[tag][i] = h THEN byTag
  ELSE [byTag EXCEPT ![tag] = RemoveAt(@, CHOOSE i \in DOMAIN @ : @[i] = h)]

Items(owner) == {i \in {p[2] : p \in contents} : <<owner, i>> \in contents}
Without(owner) == {p \in contents : p[1] # owner}

(* Mutant of Sweeps: the destructors leave inventories alone. *)
SweepsNot(type) == FALSE

(* The types whose destructor removes the inventory again *)
Sweeps(type) == type \in {"creature", "item", "player"}

(***************************************************************************)
(* Loading                                                                 *)
(***************************************************************************)
Call(op, h, step, items) == [op |-> op, obj |-> h, step |-> step, items |-> items]
Loading(h) == \E k \in DOMAIN calls : calls[k].op # "destroy" /\ calls[k].obj = h
Loads == {k \in DOMAIN calls : calls[k].op # "destroy"}

(* make, also by load of a missing resource, which returns nullptr and     *)
(* leaves the object it made                                               *)
Make ==
  /\ FromHost
  /\ \E type \in Type : Alloc(type)
  /\ UNCHANGED <<byTag, contents, calls, visited>>

(* load and load_file read a blueprint, load_instance an instance.  The    *)
(* items in an instance are loaded while it is read, those of a blueprint  *)
(* when it is instantiated.                                                *)
Nests(type) ==
  /\ type = "item"
  /\ <<Top.op, Top.step>> \in {<<"instance", "reading">>, <<"load", "instantiating">>}

Load ==
  /\ Cardinality(Loads) < MaxLoads
  /\ \E type \in Type, op \in {"load", "instance"} :
       /\ ~FromHost => Nests(type) /\ op = Top.op
       /\ Alloc(type)
       /\ calls' = Append(calls, Call(op, NewHandle(type), "reading", {}))
  /\ visited' = Append(visited, {})
  /\ UNCHANGED <<byTag, contents>>

(* deserialize succeeds and has set the tag. *)
Read ==
  /\ ~FromHost /\ Top.step = "reading"
  /\ \E tag \in Tag \cup {NoTag} :
       /\ slots' = [slots EXCEPT ![ArrayOf(Top.obj.type)][Top.obj.id].obj.tag = tag]
       /\ byTag' = IF Top.op = "load" THEN Insert(tag, Top.obj) ELSE byTag
  /\ calls' = [calls EXCEPT ![Len(calls)].step = "instantiating"]
  /\ UNCHANGED <<free, contents, visited>>

(* instantiate succeeds; a nested load returns the item to its owner, for  *)
(* the inventory or an equipment slot, which destroy does not look at.     *)
Loaded ==
  /\ ~FromHost /\ Top.step = "instantiating"
  /\ byTag' = IF Top.op = "instance" THEN Insert(SlotOf(Top.obj).obj.tag, Top.obj) ELSE byTag
  /\ calls' = Front(calls) /\ visited' = Front(visited)
  /\ \/ UNCHANGED contents
     \/ /\ Len(calls) > 1 /\ Cardinality(contents) < MaxContents
        /\ contents' = contents \cup {<<calls[Len(calls) - 1].obj, Top.obj>>}
  /\ UNCHANGED <<slots, free>>

(***************************************************************************)
(* Destroying                                                              *)
(***************************************************************************)
(* ObjectManager::destroy up to clear_effects, for a valid handle *)
Begin(h, outer) ==
  /\ byTag' = Erase(SlotOf(h).obj.tag, h)
  /\ calls' = Append(outer, Call("destroy", h, "effects", {}))
  /\ UNCHANGED <<slots, free, contents>>

Destroy ==
  /\ FromHost
  /\ \E type \in Type, id \in 1 .. MaxSlots, version \in 0 .. MaxVersion :
       LET h == [id |-> id, type |-> type, version |-> version]
       IN  Valid(h) /\ SlotOf(h).obj.type = type /\ Begin(h, calls)
  /\ visited' = Append(visited, {})

(* Mutant of LoadFails: the load goes on. *)
LoadFailsOn ==
  /\ ~FromHost /\ Top.op # "destroy"
  /\ Begin(Top.obj, calls)
  /\ visited' = Append(visited, {})

(* deserialize or instantiate fails: the object is destroyed and the load *)
(* returns nullptr.                                                        *)
LoadFails ==
  /\ ~FromHost /\ Top.op # "destroy"
  /\ Begin(Top.obj, Front(calls))
  /\ UNCHANGED visited

(* The destroy callback, then ObjectComponentSystem::remove: the inventory *)
(* is out of the tables before its items are destroyed.                    *)
RemoveComponents ==
  /\ ~FromHost /\ Top.step = "effects"
  /\ calls' = [calls EXCEPT ![Len(calls)] = Call("destroy", Top.obj, "components", Items(Top.obj))]
  /\ contents' = Without(Top.obj)
  /\ UNCHANGED <<slots, free, byTag, visited>>

(* Inventory::destroy comes to each item once, in some order, and destroys *)
(* it unless it is gone.                                                   *)
Emptying == ~FromHost /\ Top.step \in {"components", "destructor"}
ToCome == Top.items \ Last(visited)
DestroyItem ==
  /\ Emptying
  /\ \E i \in ToCome :
       /\ Valid(i) /\ Begin(i, calls)
       /\ visited' = Append([visited EXCEPT ![Len(visited)] = @ \cup {i}], {})

(* Mutant of Emptied: the loop does not get past an item that is gone. *)
EmptiedNever == Emptying /\ ToCome = {}

Emptied == Emptying /\ \A i \in ToCome : ~Valid(i)

(* ObjectArray::destroy, whose call of the destructor may find an          *)
(* inventory that a script made after the components were removed          *)
FreeObject ==
  /\ Emptied /\ Top.step = "components"
  /\ IF Valid(Top.obj)
     THEN /\ Release(Top.obj)
          /\ calls' = [calls EXCEPT ![Len(calls)] =
                          Call("destroy", Top.obj, "destructor", IF Sweeps(Top.obj.type) THEN Items(Top.obj) ELSE {})]
          /\ contents' = IF Sweeps(Top.obj.type) THEN Without(Top.obj) ELSE contents
          /\ visited' = [visited EXCEPT ![Len(visited)] = {}]
     ELSE /\ calls' = Front(calls) /\ visited' = Front(visited)
          /\ UNCHANGED <<slots, free, contents>>
  /\ UNCHANGED byTag

Destroyed ==
  /\ Emptied /\ Top.step = "destructor"
  /\ calls' = Front(calls) /\ visited' = Front(visited)
  /\ UNCHANGED <<slots, free, byTag, contents>>

(***************************************************************************)
(* Scripts                                                                 *)
(***************************************************************************)
Live == {h \in [id : 1 .. MaxSlots, type : Type, version : 0 .. MaxVersion] :
           Valid(h) /\ SlotOf(h).obj.type = h.type}

(* core.item.inventory_add_item.  Discipline: nobody puts an item away      *)
(* that is still being loaded.                                             *)
AddItem ==
  /\ InScript /\ Len(calls) <= MaxNesting
  /\ Cardinality(contents) < MaxContents
  /\ \E owner, item \in Live :
       /\ item.type = "item" /\ ~Loading(item)
       /\ <<owner, item>> \notin contents
       /\ contents' = contents \cup {<<owner, item>>}
  /\ UNCHANGED <<slots, free, byTag, calls, visited>>

(* core.item.inventory_remove_item *)
RemoveItem ==
  /\ InScript
  /\ \E p \in contents :
       /\ Valid(p[1]) /\ Valid(p[2])
       /\ contents' = contents \ {p}
  /\ UNCHANGED <<slots, free, byTag, calls, visited>>

Init ==
  /\ slots = [a \in Array |-> << >>]
  /\ free = [a \in Array |-> << >>]
  /\ byTag = [t \in Tag |-> << >>]
  /\ contents = {}
  /\ calls = << >>
  /\ visited = << >>

Returning == LoadFails \/ Read \/ Loaded \/ RemoveComponents \/ DestroyItem \/ FreeObject \/ Destroyed

Next == Make \/ Load \/ Destroy \/ Returning \/ AddItem \/ RemoveItem

Spec == Init /\ [][Next]_vars
FairSpec == Spec /\ WF_vars(Returning)

(***************************************************************************)
(* Properties                                                              *)
(***************************************************************************)
Calls ==
  [op : {"load", "instance"}, obj : Handle, step : {"reading", "instantiating"}, items : {{}}]
  \cup [op : {"destroy"}, obj : Handle, step : {"effects", "components", "destructor"}, items : SUBSET Handle]

(* Versions fit the 24 bits of a handle. *)
TypeOK ==
  /\ slots \in [Array -> Seq([obj : Object \cup {NoObject}, version : 0 .. MaxVersion])]
  /\ free \in [Array -> Seq(Nat \ {0})]
  /\ byTag \in [Tag -> Seq(Handle)]
  /\ contents \subseteq Handle \X Handle
  /\ calls \in Seq(Calls)
  /\ visited \in Seq(SUBSET Handle)

(* The free list has each slot without an object once, but not those whose *)
(* versions are used up; an object keeps away from the last version.       *)
SlotsExact ==
  \A a \in Array :
    /\ \A i, j \in DOMAIN free[a] : free[a][i] = free[a][j] => i = j
    /\ ToSet(free[a]) =
         {id \in DOMAIN slots[a] : slots[a][id].obj = NoObject /\ slots[a][id].version < MaxVersion}
    /\ \A id \in DOMAIN slots[a] : slots[a][id].obj # NoObject => slots[a][id].version < MaxVersion

(* Every entry of the tag index is an object that lives and has the tag, *)
(* and no object is in it twice.                                           *)
TagsExact ==
  \A t \in Tag :
    /\ \A i \in DOMAIN byTag[t] : Valid(byTag[t][i]) /\ SlotOf(byTag[t][i]).obj.tag = t
    /\ \A i, j \in DOMAIN byTag[t] : byTag[t][i] = byTag[t][j] => i = j

(* The objects that a call in progress has a pointer to, and still uses,   *)
(* exist: no nested destroy takes them away.                               *)
CallersLive ==
  \A k \in DOMAIN calls : calls[k].step \in {"reading", "instantiating", "effects"} => Valid(calls[k].obj)

(* An inventory does not outlive its owner. *)
OwnersLive == \A p \in contents : Valid(p[1])

(* When the slot of an object is freed after its inventory was emptied, or *)
(* a call returns, none of the items that were to be destroyed is left,    *)
(* whatever their destroys, and the scripts in these, have done.           *)
ContentsDie ==
  [][~FromHost => \A owner \in {Top.obj}, i \in Top.items :
       Len(calls') < Len(calls) \/ (Valid(owner) /\ ~Valid(owner)') => ~Valid(i)']_vars

(* The index loses an entry only to the destruction of its object. *)
EntriesStay ==
  [][\A t \in Tag : \A i \in DOMAIN byTag[t] :
       (\A j \in DOMAIN byTag'[t] : byTag'[t][j] # byTag[t][i])
         => calls' # << >> /\ Last(calls').op = "destroy" /\ Last(calls').obj = byTag[t][i]]_vars

(* Every call returns, also when items carry each other in a circle, unless *)
(* the scripts it runs put items into inventories again and again.          *)
CallsReturn == []<>FromHost \/ []<><<~FromHost /\ AddItem>>_vars

(* The handles and the tag index are an ObjectRegistry: what a handle names *)
(* is an index with a version, and each is used for one object.            *)
Names == Array \X (1 .. MaxSlots) \X (0 .. MaxVersion)
NameOf(h) == <<ArrayOf(h.type), h.id, h.version>>
Issued == {n \in Names : n[2] \in DOMAIN slots[n[1]] /\ n[3] < Used(slots[n[1]][n[2]])}
Existing == {n \in Issued : slots[n[1]][n[2]].obj # NoObject /\ slots[n[1]][n[2]].version = n[3]}
Published == [t \in Tag |-> {NameOf(byTag[t][i]) : i \in DOMAIN byTag[t]}]

Registry == INSTANCE ObjectRegistry WITH
  issued <- Issued, live <- Existing, published <- Published
ImplementsRegistry == Registry!Spec
=============================================================================
