# rollnw, specified in TLA+

rollnw is a reimplementation of the Neverwinter Nights object, rules and
resource layers, with a scripting language of its own, *smalls*, and a set of
tools. This directory holds TLA+ specifications of the parts whose correctness
depends on the order in which things happen, TLC configurations that check them
on small instances, and TLAPS proofs.

Nearly all of the engine runs on one thread. What makes it hard is not
parallelism but re-entrance: an allocation that collects, a store that must tell
a collector which is halfway through its work, a script called from the middle
of an attack, an event that schedules an event.

## The system

| component | state | operations | talks to |
|---|---|---|---|
| script heap and garbage collector (`smalls/ScriptHeap`, `GarbageCollector`) | blocks with headers (colour, generation, age), list of young objects, remembered set, gray stack, two phase variables | `allocate`, `free`, write barriers, `on_allocation`, `collect_minor`, `collect_minor_step`, `collect_major` | called by the runtime at every allocation and pointer store; scans VM frames, module globals, handle registry |
| virtual machine (`VirtualMachine`) | registers, frames, open upvalues, gas, an error flag | instructions, calls and returns, failure, nested entries from C++ | runtime, collector, natives |
| runtime (`runtime.cpp`) | types, modules, globals, handle registry, root stack | allocation and store functions, module loading, native calls | heap, VM, object manager |
| propset pool (`PropsetPool`) | for each propset a table of rows by object id, each with its owner; a cache of 16 rows | `get_or_create`, `find`, `read_field`, `write_field`, `free_object_propsets` | scripts, the callbacks of the object manager |
| compiler (`Parser`, `AstCompiler`, ...) | syntax trees, bytecode | translation | runtime |
| object manager (`objects/ObjectManager`) | two arrays of slots with versions and free lists, tag index, inventories | `alloc`, `destroy`, `get`, `get_by_tag`, load | every rule and script that names an object; scripts and callbacks in the middle of loading and destroying |
| handle pools (`util/HandlePool`) | slots with generations | allocate, free, validate | effects, runtime |
| event system (`kernel/EventSystem`) | queue of timed events, current tick | `add`, `add_in`, `add_custom`, `advance`, `process` | combat, effects, scripts |
| combat scheduler (`rules/combat_scheduler`) | attack state of each creature, its pending event | `start`, `stop`, the callback of an attack | event system, scripts, effects |
| effects (`rules/effects`) | pools of effects, effects of each object | create, apply, remove, destroy, expiry | object manager, scripts |
| resources, formats, models, i18n | containers, caches, parsed files | lookup, load, save | everything |
| client, editor, language server | UI state, transactions, a bridge thread | user commands | everything |

What makes each right, in a sentence: the collector frees exactly what scripts
cannot reach; the VM leaves no frame or upvalue behind; a handle names the object
it was made for or nothing, and an object takes its inventory with it; a propset
belongs to one object; the event queue delivers each event once and in
order; an attacker has at most one attack pending and none after it stopped; an
effect that was applied is removed once. The components that are not modelled
are listed in `PROJECT.json` with the reason.

## Modules

| module | what it is |
|---|---|
| `ScriptGC` | the heap, the collector, and the opcodes and runtime functions that allocate and store pointers |
| `ManagedHeap` | what the heap promises to scripts; `ScriptGC` is checked, and for records and strings proved, to implement it |
| `MCScriptGC` | instances for TLC, the symmetry |
| `ScriptGC_proofs` | theorems about `ScriptGC` for every kind of object |
| `RecordHeap_proofs` | theorems about `ScriptGC` for scripts of records and strings |
| `EffectLifecycle` | effects from creation to destruction, across the effect pool, the effects of objects, the handle registry, scripts and the event queue |
| `MCEffectLifecycle` | instances for TLC |
| `EffectLifecycle_proofs` | theorems about `EffectLifecycle` |
| `AutoAttack` | attacks on a schedule: the combat scheduler over the event queue with its clock |
| `MCAutoAttack` | an instance for TLC |
| `AutoAttack_proofs` | theorems about `AutoAttack` |
| `VirtualMachine` | the register file and frames, captured variables, gas, failures, and the calls from C++ that nest |
| `CallStack` | what the machine promises to scripts; `VirtualMachine` implements it, checked and proved |
| `MCVirtualMachine` | an instance for TLC |
| `VirtualMachine_proofs` | theorems about `VirtualMachine` |
| `CallStack_proofs` | the refinement of `CallStack`, from the invariant of `VirtualMachine_proofs` |
| `ObjectManager` | slots, handles, the tag index and inventories, while objects are loaded and destroyed with scripts in between |
| `ObjectRegistry` | what it promises to holders of handles; `ObjectManager` implements it, checked and proved |
| `MCObjectManager` | the instance for TLC |
| `ObjectManager_proofs` | theorems about `ObjectManager` |
| `PropsetPool` | the rows of objects, their cache and the references of scripts |
| `PropsetValues` | what propsets promise to scripts; `PropsetPool` implements it, checked and proved |
| `MCPropsetPool` | instances for TLC |
| `PropsetPool_proofs` | theorems about `PropsetPool` |

They are independent, each with the part of its neighbours that it can see.
`VirtualMachine` has upvalues as the frames see them, open or closed, `ScriptGC`
as the collector does; there a call is nothing but moves of pointers.
`PropsetPool` has of `ObjectManager` the making of an object, the destroy
callback and the release of the slot. What a handle cell is to the collector is one bit in
`EffectLifecycle` (`Collect` may run on a cell that nothing holds), and
`ScriptGC` leaves handle cells out. `EffectLifecycle` has the effect events of
the event queue, at one tick, `AutoAttack` the custom ones, with ticks.

### ScriptGC and the code

*State.* `live`, `kind`, `field`, `color`, `gen`, `age` are the blocks and their
headers; a freed address is handed out again, so an address in a register may
come to name another object. `young` is the list linked by `next_young`,
`oldBytes` is `old_bytes_` with every object one byte. `root` holds every slot
`mark_roots` scans: `Reg` the slots written without a barrier (registers, frame
slots, the runtime's root stack), `Glob` those written with
`write_barrier_root`. `pending` and `retained` are the remembered set from the
scan cursor on and the list being rebuilt; `sweepTodo` and `sweepKept` stand for
`young_sweep_current_` and `young_sweep_prev_`. `pc` names the function on top
of the stack, `caller` who called the collection.

*Steps.* Script code runs in state `run`, one action per operation on pointers.
A call of the collector is a sequence of steps, cut where the code chooses an
order: one object traced, one remembered object scanned, one object swept. An
allocation is `BeginAlloc`, `Reserve` (with the emergency collection),
`OnAllocation` (start or advance a major collection), `MarkStep`*, perhaps the
end of the major collection (`Drain`*, `SweepAll`), and `Link`.
`collect_minor_step` may return between any two steps (`StepReturns`), its work
and time budgets left open; `collect_minor` runs to its end.

*Kinds.* Six kinds of object, because the collector and the stores treat them
differently: records (structs, tuples, arrays, maps: one barrier, one way of
tracing), sums (filled in by `SUMINIT` without a barrier), string backings and
strings (traced straight to black, born pointing at their backing), closures and
upvalue cells (the cell is not traced by itself).

*Abstractions.* The gray stack and the remembered set have no order. A struct
has one pointer field in the runs. The card table is left out: the collector
writes it and never reads it. Native handle cells, value structs stored inline
and statistics are left out. `EntryPoints` are the calls the host makes, at any
time script runs: `CollectMajor` has no condition, as `collect_major` has none,
and may come between two steps of a minor collection. `CloseUpvalues(R)` closes
the registers of one frame, which are any set of registers here.

### EffectLifecycle and the code

*State.* `used` and `gen` are the slots of the pool; `own` and `desc` what the
memory of a slot says of its effect (`Effect::handle_`), which outlives the
effect. `applied` is `ObjectBase::effects_`, the copies of `EffectHandle` made at
the application; `mode` is the handle registry with its owners; `held` the
handles whose cell a script can reach; `queue` the effect events due now.
`calls` is the stack of `apply_to` and `remove_from` calls that wait for the
policy script's `on_effects`, each with what its caller does afterwards
(`after`): nothing, adopt the handle (`apply_effect`), release it
(`remove_effect`), destroy the effects (items, events), or clear the object.
`dying` are the objects whose effects `ObjectManager::destroy` has cleared and
which it has not freed yet: the scripts of the items they carry run in between.

*Pointers and handles.* Engine code keeps `Effect*`, which the model turns into
slots: an old pointer means whichever effect has the slot now, and
`EffectSystem::destroy` of a pointer destroys the handle the memory says. Scripts
and events keep handles, which the pool checks.

*Steps.* `ApplyTo` and `RemoveFrom` are those functions up to `on_effects`; while
it runs, any native may be called, nested up to `MaxCalls`, and `Return` does
what is left of the top call. The natives are `Create`, `SetType`, `Pin`,
`ScriptDestroy`, `ApplyEffect`, `RemoveEffect`, `ApplyItemEffect`,
`RemoveItemEffects`. Between scripts the engine queues events, processes one, or
destroys an object. `DestroyObject` is `destroy` to the end of `clear_effects`
(with `Return`, when an effect was removed); the object stays, may be given
effects again by scripts of a nested `destroy`, may even be destroyed again, and
goes in `FreeObject`, with no destructor for the effects it has by then.

`Collect` is `destruct_object` of a handle cell (`runtime.cpp:5182`). The library
registers no destructor for the handle type of effects (`core_effects.cpp:16`), so
the registry entry goes and the effect stays in the pool: an effect that a script
creates and drops leaks. `spec.md:1493` only calls such effects collectable, so
this is reported here and not as a disagreement.

`runs` of a call says whether `on_effects` runs: when the heap has no room for the
array of its arguments, `dispatch_on_effects` leaves it out and releases the pins,
those of an application too (`effects.cpp:76`). The liberty `heap_full` lets that
happen at any call.

*Discipline.* Nothing in the code stops a script from applying one effect twice,
to two objects, or while an event waits to remove it, and each of these breaks
what the code relies on. `MayApply` and `MayChange` say what programs must not
do; `Liberties` are the parts of that a run drops.

*Abstractions.* What an effect is, is its type and its creator, the two things
applications decide on. The set `applied[o]` stands for a list: it differs from
one only when an effect is applied twice to one object. Any free slot may be
taken next. The C++ functions of an effect type are left out, as the library
registers none. A policy module with `on_effects` is assumed. The queue has one
tick.

### AutoAttack and the code

*State.* `queue` is `EventSystem::queue_` in the order the heap gives events out,
by tick and then by sequence; `tick` is `current_tick_`. `state` is
`auto_attack_states`, an entry for each creature, of generation 0 when there is
none. `processing` says that `process` runs, `current` is the event whose
callback is inside `resolve_attack`.

*Steps.* `Start`, `Stop`, `ScheduleAttack`, `SetVitals`, `DestroyObject` and
`Advance` are calls of the host (`resolve_attack_and_schedule` is an attack
followed by `ScheduleAttack`). All but `Advance` may also happen while `process`
runs, from the host's effect callback in an attack or from its own custom events.
An event whose callback returns early is one step, one that attacks is two
(`AutoAttackResolves`, `AutoAttackResolved`), with anything in between.

*Abstractions.* What an attack does to the world is what `SetVitals` and the
host's callbacks do. The cooldown script may return any of `Cooldowns`, whose
cast to `uint32_t` is modelled with `Wrap` for 2^32. Inside `process` the host
adds events with a delay of at least 1: one that adds an event for the current
tick each time keeps `process` from returning, which is its own doing. Nested
calls of `process` are left out.

### VirtualMachine and the code

*State.* `vm` is the `VirtualMachine` object: `registers`, `frames` with their
lists of open upvalues, `stackTop`, `currentBase`, the error flag and the gas.
An upvalue has a `location`, the register it points at, or `None` when it is
closed. `runs` is the C++ stack, a record for each activation of `execute` or
`execute_closure` that has not returned, with what it keeps in locals: the depth
at entry, the saved register 0, the gas that a module load interrupts, and the
destination of the native it is in.

*Steps.* The member functions are operators from a machine to a machine
(`PushFrame`, `PopFrame`, `CloseUpvalues`, `Reset`, ...), an instruction is an
action that composes them. `ExecuteCompiled`, `ExecuteDirect` and `LoadModule`
are the entries: from the host, or from a native in progress. `LeaveRun` is what
follows the loop: register 0 is put back, and `execute_compiled` clears a failure.

*Abstractions.* Instructions that compute a value are `Assign`, those that fail
`Raise`. A closure has one upvalue and may be kept anywhere. What a popped frame
left in the registers is forgotten, as no instruction reads a register its
function has not written. `last_result_` and value structs on the stacks of
frames are left out, as is the step limit, which only tools set. `Entered` is one
step: `execute` resolves the external references of a module after `reset` and
before the frame is pushed (`VirtualMachine.cpp:713`), which is left out when it
succeeds and is `Refused` when it fails. References are resolved when a module is
compiled; they are open here only after a generic could not be instantiated, and
then the modules that are loaded run `__init` at that place, with the budget of
the call that is about to begin.

### ObjectManager and the code

*State.* `slots` and `free` are the two `ObjectArrayInternal`s, `byTag` is
`object_tag_map_`, `contents` the inventory tables of `ObjectComponentSystem` as
pairs of owner and item. `calls` is the C++ stack of `load`, `load_instance` and
`destroy`, each with its object, how far it is, and the items its
`Inventory::destroy` goes through (`items`), of which it has come to `visited`.

*Steps.* `Load` allocates, `Read` is the deserializer with the tag, `Loaded` ends
it; items are loaded inside, at the time the two kinds of load do it. `Begin` is
`destroy` up to `clear_effects`, where scripts run; `RemoveComponents` the callback
and the tables; `DestroyItem` one turn of `Inventory::destroy`, which ends when
the loop has come to every item (`Emptied`); `FreeObject`
releases the slot and runs the destructor, which looks for an inventory again.
Scripts call `AddItem` and `RemoveItem` where the code lets scripts run
(`InScript`): from the host, in the instantiate callback, and in the `on_effects`
of every `destroy`, nested ones of the same object included, as an object may be
given effects again while it is being destroyed.

*Abstractions.* Contents are sets, places in an inventory and whether an item
fits are left open. Equipment is left out: `destroy` does not look at it. Types
are those with an inventory, and players for their own array. The free list and
the versions are as in the code, `MaxVersion` is a constant.

### PropsetPool and the code

*State.* `rows` are the pools: for each propset and object id the owner and the
value of a row, or `None` when it is not alive. `cache` is `g_propset_cache`, a
propset, id and version for each line; the row it points to follows from them.
`refs` are the references scripts hold. `live`, `dying` and `version` are what the
pool sees of objects.

*Steps.* `GetOrCreate` has the fast path (`FromCache`) and the slow one
(`FromPool`), which takes the row of an older object over. `DestroyCallback`
frees the rows and the cache lines of an object; scripts may still run until
`Release`, in the effects of the items it carries, and make the rows again.

*Abstractions.* A row has one field. `Line` may be any function of propset and
id; the code's is a hash. `prune_invalid_owners` has no caller.

## Runs

The runs of `ScriptGC` bound the heap by the number of addresses (`Obj`); nothing else is
bounded, so scripts are of any length. `MajorThreshold = 0` starts a major
collection at the first allocation after a promotion and `WorkBudget = 1` marks
one object per allocation: both make the interleavings that the defaults (80% of
the heap, 100 objects) would need thousands of objects for.

| run | instance | shows |
|---|---|---|
| `records` | 4 objects, records and strings, promotion after 2, emergency collection above 1 object | scripts that use barriered stores only: `ReachableLive`, an exact remembered set, young list and old size, a minor collection that keeps no garbage; incremental marking: `BlackSeesNoWhite`, and `RescanFixpoint`, which `finish_major_gc` asserts; `ManagedHeap` is implemented |
| `kinds` | 3 objects, all kinds, `collect_minor` and `collect_major` | the cells of open upvalues stay live |
| `returns` | 2 objects, `collect_minor` and `collect_minor_step` | every call of the collector returns; with script between the steps of a minor collection, the major collections of allocations never sweep there |
| `sums`, `closures` | 2 and 3 objects | disagreements, below |

Marking takes four objects: one black, one gray, its white child, and the one whose
allocation started the collection. With three, a string can be made from another
string and a closure in a closure.

Symmetry of addresses and registers is used in the runs that check invariants
and the refinement (a step property of a specification that treats addresses
alike), never in `returns`.

The runs of `EffectLifecycle` bound the slots of the pool, how often each is
taken (`Reuses`), the nesting of `on_effects` and the queue. Two slots are enough
for an effect to be confused with another one, two uses of a slot for it to be
confused with a later one, two calls for a removal nested in an application and
the reverse, one event for it to be late. They are bounded, so they may stop:
deadlock is not checked.

| run | instance | shows |
|---|---|---|
| `effects` | 2 slots, 2 creatures, an item, 1 nested call or destroy, a heap that may be full at any call | types; an object can remove what it has (`AppliedRemovable`) |
| `nested` | 2 slots taken twice, 2 creatures, 2 nested calls or destroys, 1 event | `AppliedLive` and `AppliedPinned`; an old handle stays invalid; a late event touches its own effect only (`EventsHitTheirEffect`), and so does a removal or destroy that goes on after `on_effects` (`ReturnsHitTheirEffects`) |

The run of `AutoAttack` bounds the clock, the starts and stops of a creature and
the events the host adds. Chains of different creatures share nothing but the
queue, so one creature is enough: it attacks a thing, which may be destroyed, or
itself, which may also die. Three generations give an old chain, the current one
and one that was stopped in between.

| run | instance | shows |
|---|---|---|
| `attacks` | 1 creature, 1 thing, 3 ticks, 3 generations, 3 events | an active auto attack has exactly one event that goes on with it, a stopped one none (`ChainExact`); `process` returns for every int the cooldown script gives (`ProcessReturns`) |

The run of `VirtualMachine` bounds the register file, the frames, the upvalues
and the nesting of C++; scripts are of any length. Two functions, of one and two
registers, make windows of different sizes; three frames and two activations
give a native that calls a script that calls another; four registers and a
budget of three run out before the frames do and after, so that each way
`push_frame` gives up happens.

The run of `ObjectManager` bounds slots, versions, the objects there ever are,
the contents, and with `MaxNesting` the depth of calls at which scripts still put
items away. An item in an item is a container, two items can carry each other,
and a third slot is needed for an object that takes the slot of one that was
destroyed in between; two versions retire a slot. A script in the `destroy` of an
item nested in that of its owner is at depth 2.

`MaxNesting` cuts off a recursion that need not end: an object that is being
destroyed is valid until its slot is freed (`ObjectManager.cpp:232`), so an item
in it that carries it destroys it again, effects included (line 227); if the
scripts put the two into each other each time, `destroy` never returns.
`CallsReturn` says that this is the only way: every call returns, or scripts put
items into inventories inside calls for ever. The second case does not happen
within the bound.

The runs of `PropsetPool` put all rows of an id into one cache line, so that each
access replaces another; two ids and three versions give rows of older objects.

| run | instance | shows |
|---|---|---|
| `vm` | 2 functions, 4 registers, 3 frames, 2 activations, 2 upvalues | the frames tile the registers and no upvalue points into a dead frame (`StackShape`); frames are left behind by failures only, and never by `execute_compiled`; `CallStack` is implemented: locals belong to one activation, captured variables are shared and outlive it, nested scripts are not noticed |
| `objects` | items and players, 3 slots of 2 versions, 4 objects, nested loads, 2 contents, scripts to depth 2 | slots and tag index exact; no call is left with a dead object, no inventory without an owner; no container is freed and no `destroy` ends before what the loop over its inventory found is gone (`ContentsDie`); calls return, in circles too; `ObjectRegistry` is implemented |
| `propsets` | creatures and items, 2 ids of 3 versions, 2 propsets | the cache answers with the row of the object, references stay with it, `PropsetValues` is implemented |
| `players` | creatures and players | a disagreement, below |

*Fairness.* `FairSpec` of `ObjectManager` asks weak fairness of `Returning`, the
steps of a `load` or `destroy` in progress: the code is one thread, and what runs
in between is a script with limited gas or a load of finitely many items. What scripts
do in between, `AddItem` above all, is under no fairness. `VirtualMachine`
and `PropsetPool` have no liveness properties and no fairness. `Spec` of `AutoAttack` asks weak fairness of `Process`, the steps of
the loop in `EventSystem::process`: it runs in one thread, scripts have a gas
limit (`default_gas_limit`), and the callbacks of the host are taken to return.
Nothing is asked of the host. In `ScriptGC`, `FairSpec` asks weak fairness of `Collector`, the steps a call of the
collector is made of: nothing else runs until the function returns. Scripts are
under no obligation.

### Disagreements

Each is a run that ends in a violation; the sequence TLC prints is a script.

* `sums`: `NEWSUM`, then the code of the payload, then `SUMINIT`. If that code
  collects often enough for the sum to be promoted, the payload is stored into
  an old object without a barrier, and the next minor collection frees it. The
  barriered overload of `write_sum_payload` has no caller.
* `closures`: a captured variable whose cell is old gets a young value, from
  `close_upvalues` without a barrier, or from `SETUPVAL`, whose barrier remembers
  the cell. The collector traces closures, not cells, so the value is freed.
* `players`: a creature and a player have the same id and version, as players have
  an array of their own. A script reads a propset of the creature, then of the
  player: the cache looks at id and version only and answers with the row of the
  creature. When the line has been replaced, `get_or_create` frees the row of the
  creature instead, taking it for one of an older version.

Other instances violate a property too and have no run of their own.

* `ReachableLive`, kinds `string` and `backing`: `substr` or `trim` while a major
  collection marks makes a string that is born black over a backing that may be
  white; the scan of the roots at the end does not look into black objects.
* `AppliedLive`, with the liberties to take an effect that an event waits for: a
  removal is queued for one object, a script moves the effect to another, the first
  object dies, and `process` destroys the effect (`EventSystem.cpp:142`).
* `ImplementsCallStack`, with 0 in `Captured`: `execute` puts register 0 of the
  interrupted frame back after a nested run (`VirtualMachine.cpp:753`), so what a
  closure wrote to that variable is lost; after a failure the write goes to
  whatever frame is last (`VirtualMachine.cpp:761`).
* `execute_compiled` that fails inside a native resets the whole machine
  (`runtime.cpp:1878`), the outer scripts included, and the outermost `execute`
  returns its last result as a success. `call_closure`, script operators and
  `__init` that fail when the host calls them leave their frames; the next call
  takes itself for a nested one and fails at once, as the flag is still set.
* `RefsOwn`, with `KeepRefs`: a reference kept past the end of its object passes the
  check for dangling references once the id has a row again.
* Between the destroy callback and the end of an object a script can make its rows
  again; they stay until the id is used again.
* `get_by_tag` with `nth` equal to the number of objects with the tag returns the
  next entry of the index, which has another tag (`ObjectManager.cpp:250`); `load` of
  a missing resource leaves the object it made (`ObjectManager.hpp:311`); equipped
  items are not destroyed with a creature. None of the three is an action or
  breaks a property here.

With `collect_minor_step` as an entry point `ReachableLive` fails: the
roots are scanned once, and script between the steps moves a pointer to a
register (the engine calls `collect_minor`, which leaves no gap; tests call the
step). With `collect_major` as well, `SweepTodoYoung` fails in 11 states and
`ReachableLive` in 16, with two objects: the major collection sweeps what the minor
sweep still points to. `spec.md:65` calls collections on demand test and debug
APIs, and nothing promises that they can be mixed. `collect_major` keeps what an
interrupted marking left gray. With the
liberty `apply_applied`, `AppliedPinned` fails: removing an effect from one of two
objects makes its cell collectable. With `heap_full`, `AppliedPinned` and
`AppliedLive` fail: an application whose `on_effects` is left out releases its pin.
With `MaxGeneration = Reuses`,
`StaleStaysStale` fails: the generation has wrapped. And a cell stays
`ENGINE_OWNED` when its effect is destroyed by an event or an item, as nothing in
the library calls `unregister_handle`.

`records` shows that these are the exceptions, and `RecordHeap_proofs` proves it: with
records and strings alone and no gaps, the collector is right. `effects`, `nested`, `vm` and
`propsets` show the same for effects, calls and propsets under the disciplines
named.

## Proofs

`ScriptGC_proofs` proves, for every heap, every threshold and every mix of kinds,
from the assumptions stated in `ScriptGC` on its constants and one more,
`SeparateEntryPoints`: the host calls `collect_minor_step` or `collect_major`, not
both. Without it the second theorem is false, as said above, and then an object in
the sweep may be freed or old, which the invariant excludes.

* `TypeCorrect`: `Spec => []TypeOK`;
* `SweepsDoNotMeet`: `Spec => []SweepTodoYoung`: what waits for a minor sweep is
  live and young, whatever script runs and allocates between its steps;
* `OpenUpvaluesStayLive`: `Spec => []OpenUpvaluesLive`, for every kind of object.

The first two come from one inductive invariant, `IInv`. `TypeOK` alone is not inductive:
the sweep adds one to an age, so that an age stays within the threshold needs
that what it sweeps is young and that young objects are below the threshold
(`Ages`); that it is young needs that no major collection sweeps during a minor
one (`Sweeping`), which `on_allocation` sees to and a call of `collect_major` does
not (`Stepping`: without `collect_minor_step` there is no such moment); and the
address `Link` uses is an address because of who can have called it (`Control`). Each action has a lemma; script actions share one
(`ScriptKeepsIInv`), as do marking steps and the steps that only pass control.
The third adds that an open upvalue a sweep may come to before the roots are
scanned again (`Due`) is not white (`OpenSafe`): open upvalues are roots of both
markings, and one that opens during a minor collection is at an address the sweep
does not know. That closed upvalues lose their values, a disagreement above, does
not touch it.

`RecordHeap_proofs` proves more of the same specification under one assumption,
`RecordsAndStrings`: the script makes records and strings, and minor collections
run to their end once they have begun (`collect_minor_step` is not called). The
disagreements above are what the assumption leaves out, and each of them breaks
the first theorem. Heap, fields, registers, globals, thresholds and budgets are
arbitrary, and `collect_minor` and `collect_major` may be called by the host.

* `ReachableStaysLive` (`ReachableLive`), `OldToYoungStaysRemembered`,
  `YoungListStaysExact`, `OldBytesStayExact`, `BlackNeverSeesWhite`,
  `RescanReachesFixpoint` and `MinorStaysPrecise`: every invariant of the run
  `records`;
* `ManagedHeapImplemented`: `Spec => ImplementsManagedHeap`.

That reachable objects are live says nothing of an object that a sweep has decided to
free and not freed yet, so the invariant (`HInv`, on top of `IInv`) splits the heap
in two: what is `Doomed`, the white objects a minor sweep still has to free, and the
rest, `Safe`, which holds the roots and is closed under pointers (`SafeClosed`).
`Safe` is a closed set, so everything that can be reached is in it. It is closed when
the sweep begins because marking is complete: no black object points to a white one
(`Tricolor`), no root is white (`RootsMarked`), and no old object has a white young
child, since such an object is remembered (`Remembered`) and was scanned (`MinorInv`).
The same two notions serve the major collection with every object in place of the
young ones (`MajorInv`); they hold between its increments because of the barriers,
and the request of a string whose backing was made before a marking began is part of it.
`Anchored` says for `MinorPrecise` that marking reached nothing but what the roots and
old objects lead to; the sweep keeps it because what it frees no safe object points to,
and what it promotes becomes an anchor itself. Strings need `Shapes`: a backing
is set black without being traced, which is right as it holds no pointer.
The refinement maps the live objects with their fields to the records of `ManagedHeap`,
in which an object is reclaimed when it is freed, not when it is doomed.

`EffectLifecycle_proofs` proves, for any number of slots, objects, nested calls
and events:

* `AppliedExist` and `AppliedStayPinned`, for programs that do not apply an effect
  that is on an object, in a waiting call or in an event, with room for the
  arguments of `on_effects` (`Disciplined`; effects that are changed while applied
  are allowed);
* `EventsHit` (`EventsHitTheirEffect`) and `ReturnsHit` (`ReturnsHitTheirEffects`),
  under the same assumption;
* `NoReuseBeforeWrap`, if also no slot is taken as often as there are generations;
* `RemovalFindsItsEntry` (`AppliedRemovable`), if also no applied effect is changed;
* `TypeCorrect`, for every program, disciplined or not.

Its inductive invariant has two halves. `Placement` says where a handle can be:
on one object, in one waiting removal and then on none, in one event to apply it;
an event to remove it allows it on the object of the event only. `Held` says that
what is on an object or in a waiting removal exists and is `ENGINE_OWNED`. They
need each other: a script and the collector destroy only what is `VM_OWNED`, so
`Held` keeps effects alive; a removal that returns makes its effects `VM_OWNED`
and perhaps destroys them, and `Placement` says that nobody else has them.
Each action has a lemma; `apply_to`, `remove_from`, the return of each, and steps
that only take away share theirs. `TypeCorrect` does not use this invariant.
`ReturnsHit` does: the caller has pointers, so it destroys what is in the slots of
its batch by then, and that is the batch because its effects stayed in use.
For `RemovalFindsItsEntry`, the memory of an effect on an object is written by no step
(`MemoryOfAppliedStays`), and a new entry is a copy of that memory (`NewCopies`).

`AutoAttack_proofs` proves, for any number of creatures, starts, stops and
events, and any set of cooldowns, `TypeCorrect` and `OneAttackEach`:
`Spec => []ChainExact`. The count is restated as "exactly one" (`Chains`), which
a start keeps only because no event already has the generation it moves to
(`Past`). The bounds on the clock and on generations are constants of the
module: the proof covers every value of them, so every run of the code that does
not wrap a 64 bit counter.

`PropsetPool_proofs` proves, for any propsets, types, ids and versions, and any
choice of cache lines:

* `TypeCorrect`, with players or without: no object has a row of a propset for
  another type, although the cache does not look at types;
* `CacheIsRight`, when players are not among the objects;
* `RefsAreRight` and `ValuesAreOwn` (`Spec => ImplementsValues`), when also scripts
  drop references with their object (`Disciplined`).

The invariant has to follow a row past the death of its owner: the owner lives or
its version is used up (`OwnersIssued`), and whatever the cache has of a row has the
version of the row's owner (`CacheFresh`). A hit for a living object then has the
current version of its id, which no object of the past had (`Versions`). The
refinement maps an object to the values of the rows it owns; taking a row over
changes nothing that can be asked for, and a write hits the object it is for
because of `RefsOwn`.

`VirtualMachine_proofs` proves, for any functions, captured registers, register
file, depth, gas and nesting of C++ activations:

* `TypeCorrect`, `FramesInShape` (`StackShape`) and `OnlyFailuresLeave`
  (`LeftoversFailed`);
* `CompiledIsClean`: `Spec => CompiledLeavesClean`.

`StackShape` says how neighbouring frames meet. To close the upvalues of one frame
only, the proof needs that any two windows are apart (`Apart`), which would follow
by induction over the frames; it is part of the invariant instead. The others
are that an open upvalue lies in the window of its frame (`UpvaluesInFrames`), that
closures refer to upvalues that were made (`ClosuresMade`), and that the outermost
activation began with no frames (`RunsKept`): this is what makes the reset of
`execute_compiled` complete. Each operator on machines has a lemma that it keeps
a sound machine sound and says which part it leaves alone; an action follows from
the operators it composes.

`CallStack_proofs` proves `MachineIsCallStack`: `Spec => ImplementsCallStack`, for the
same constants under one assumption, `CapturesApart`: register 0 is not captured, and
no value is an upvalue. The second only says that two kinds of thing in the model are
different. The first leaves out a disagreement above: what `execute` puts back into
register 0 after a nested run was saved before it (`VirtualMachine.cpp:753`), so a
closure that wrote to that variable in between is not heard.

The refinement maps a frame to an activation whose locals are its window of the
registers, where a register that an upvalue points at stands for the upvalue, and the
upvalues that were made to the cells. While the result of a nested run is in register 0
of the frame below, the local is what `execute` saved (`Shown`). A machine that failed
has no activations, so a failure is an abort whatever frames it leaves.

Two things are added to the invariant. `Firm`: a frame returns to a register of the frame
below it, without which the result of a call would be written past its window, and
no upvalue points at a base. `Nested`, about the C++ activations: each but the last has a
native in progress and the next one starts above it, or from no frames after a reset;
those whose first frame is still there (`Current`) find the frame they interrupted, with
a register for the result of the native, and the register 0 they saved is still the
one in that frame while theirs are above it (`Resumable`). It holds only of a machine
that has not failed: after a failure frames and activations no longer match, which is
why the refinement forgets them at once. The lemmas follow the operators: what a write, a
captured register, a pushed and a popped frame, and `Reset` show of variables and cells
(`WriteShows`, `CaptureShows`, `PushShows`, `PopShows`, `ResetShows`), then which native
a frame waits for when runs start and end (`RunStartsShows`, `NativeShows`), then
one lemma for each action.

`ObjectManager_proofs` proves, for any types and tags, any number of slots,
versions and objects and any nesting of loads and destroys:

* `TypeCorrect`, `FreeListsExact` (`SlotsExact`), `IndexExact` (`TagsExact`),
  `CallersSafe` (`CallersLive`), `EntriesRemain` (`EntriesStay`);
* `ContentsGone`: `Spec => ContentsDie`: when a `destroy` frees its object, and when it
  returns, each item that its loop over the inventory began with is gone, however
  scripts moved, carried or destroyed it meanwhile;
* `OwnersSurvive` (`OwnersLive`), if all types in use are creatures, items or
  players. Their destructors look for an inventory that a script made while the
  object was being destroyed. Those of areas, modules, placeables and stores do
  not, and for them the property does not hold;
* `RegistryImplemented`: `Spec => ImplementsRegistry`.

A handle that was given out is `Known`: its object is in the slot, or the version
of the slot has moved on, so that it never fits again. The invariant says of every
call in progress (`CallOK`) that its handles are known, that an object being
loaded exists and is in no inventory, and that one being destroyed, loaded or
made into an instance is not in the tag index, so that an entry is added and
erased once. Of the items a loop has come to, only the one whose `destroy` is the
next call can still exist (`VisitOK`): the loop goes on when that call has returned,
a returning `destroy` leaves its object's slot empty, and a handle that is stale
stays so. Loads in progress have objects of their own (`LoadsApart`), and
scripts run in the innermost `clear_effects` only (`EffectsLast`). A `destroy`
goes through inventories, and an object that is being loaded is in none: this is why
no nested `destroy` takes it from its load. `OwnersSurvive` needs in addition where an
item that is being loaded goes (`LoadsNest`), the refinement that no array has
more slots than objects there ever were (`SlotsBound`).

Only model-checked: `CollectorReturns`, `ProcessReturns` and `CallsReturn`, as liveness is
out of the prover's reach. Every other property of a passing run is proved, under the
assumptions named above.

## Plan

1. The effects an attack carries, `commit_attack_effects` and the pins they
   leave, with `EffectLifecycle`.
2. Heap fields of propsets and value structs, composed with `ScriptGC`; areas and
   equipment in `ObjectManager`.
3. Kernel service start and shutdown; editor transactions.

## Not modelled

The compiler, the parsers of file formats, the NWScript front end and
localisation are sequential translations of large data with no state that
outlives a call. Models, graphics and rendering are data loading and work on the
GPU. The resource manager, kernel services and the tools have state worth a
model, which the plan names. `PROJECT.json` lists each component with what is
left out of it.
