------------------------------ MODULE ScriptGC ------------------------------
(***************************************************************************)
(* The garbage collector of the smalls script heap: GarbageCollector.cpp,  *)
(* ScriptHeap.cpp and the places of VirtualMachine.cpp and runtime.cpp     *)
(* that create objects and store pointers.                                 *)
(*                                                                         *)
(* One thread runs everything.  Script code ("run") alternates with calls  *)
(* into the collector, which are cut at the finest step whose order the    *)
(* code chooses: one object popped from the gray stack, one remembered     *)
(* object scanned, one young object swept.  The variable pc says which     *)
(* function is on top of the stack, caller who waits for collect_minor.    *)
(*                                                                         *)
(* Addresses are the elements of Obj: an address that was freed is handed  *)
(* out again, as the offset allocator does.                                *)
(***************************************************************************)
EXTENDS Integers, FiniteSets

CONSTANTS
  Obj,                 \* heap addresses (the bound on the heap)
  Field,               \* pointer slots of an object
  Reg,                 \* slots scanned but never barriered: VM registers, frame slots, Runtime::stack_
  Glob,                \* slots written with write_barrier_root: module globals, config roots
  Null,                \* HeapPtr{0}
  Kinds,               \* the kinds of object the script creates
  EntryPoints,         \* the collector functions the host calls by name
  PromotionThreshold,  \* GCConfig::promotion_threshold
  MajorThreshold,      \* major_threshold_percent * committed, in objects
  WorkBudget,          \* GCConfig::incremental_work_budget
  EmergencyLimit       \* ScriptHeap::MAX_ALLOCS / 2

Root == Reg \cup Glob
AllKinds == {"struct", "sum", "backing", "string", "closure", "upvalue"}
AllEntryPoints == {"collect_minor", "collect_major", "collect_minor_step"}

ASSUME SlotAssumption == Null \notin Obj /\ Reg \cap Glob = {} /\ Null \notin Reg
ASSUME HeapAssumption == IsFiniteSet(Obj) /\ Field # {}
ASSUME KindsAssumption == Kinds \subseteq AllKinds /\ EntryPoints \subseteq AllEntryPoints
ASSUME ConfigAssumption ==
  /\ PromotionThreshold \in 1..15  \* an age has four bits; 0 behaves as 1
  /\ MajorThreshold \in Nat
  /\ EmergencyLimit \in Nat
  /\ WorkBudget \in Nat \ {0}     \* 0 makes collect_minor_step spin: mark_step(0) never drains

VARIABLES
  live,        \* addresses whose back pointer is valid (try_get_header # nullptr)
  kind,        \* ObjectHeader::type_id, as far as trace_object looks at it
  field,       \* pointer slots: heap refs, StringRepr::backing, Closure::upvalues, Upvalue::closed
  color,       \* ObjectHeader::mark_color
  gen,         \* ObjectHeader::generation, 0 young and 1 old
  age,         \* ObjectHeader::age
  young,       \* the list ScriptHeap::young_objects_ / next_young
  oldBytes,    \* ScriptHeap::old_bytes_, every object one byte
  root,        \* the pointer in each root slot
  open,        \* CallFrame::open_upvalues: the open upvalue of a register
  phase,       \* GarbageCollector::phase_
  minorPhase,  \* GarbageCollector::minor_phase_
  gray,        \* gray_stack_, its order left open
  pending,     \* remembered_objects_ from remembered_scan_cursor_ on
  retained,    \* remembered_retained_
  sweepTodo,   \* the young list from young_sweep_current_ on
  sweepKept,   \* young_sweep_prev_ # 0
  pc,          \* the function that runs
  caller,      \* who called the collection in progress
  budget,      \* work left in this call of mark_step
  req          \* the arguments of the allocation in progress

heapVars == <<live, kind, field, gen, age, young, oldBytes>>
rootVars == <<root, open>>
markVars == <<color, gray>>
rememberedVars == <<pending, retained>>
sweepVars == <<sweepTodo, sweepKept>>
phaseVars == <<phase, minorPhase>>
controlVars == <<pc, caller, budget, req>>
vars == <<heapVars, rootVars, markVars, rememberedVars, sweepVars, phaseVars, controlVars>>

NoReq == [kind |-> "none", dest |-> Null, from |-> Null, init |-> Null, addr |-> Null]
Request == [kind : AllKinds \cup {"none"}, dest : Reg \cup {Null}, from : Reg \cup {Null},
            init : Obj \cup {Null}, addr : Obj \cup {Null}]

TypeOK ==
  /\ live \subseteq Obj
  /\ kind \in [Obj -> AllKinds]
  /\ field \in [Obj -> [Field -> Obj \cup {Null}]]
  /\ color \in [Obj -> {"white", "gray", "black"}]
  /\ gen \in [Obj -> {0, 1}]
  /\ age \in [Obj -> 0..PromotionThreshold]
  /\ young \subseteq Obj
  /\ oldBytes \in Nat
  /\ root \in [Root -> Obj \cup {Null}]
  /\ open \in [Reg -> Obj \cup {Null}]
  /\ phase \in {"idle", "mark_roots", "mark_incremental", "sweep"}
  /\ minorPhase \in {"idle", "mark_roots", "scan_remembered", "trace_gray", "sweep_promote"}
  /\ gray \subseteq Obj
  /\ pending \subseteq Obj
  /\ retained \subseteq Obj
  /\ sweepTodo \subseteq Obj
  /\ sweepKept \in BOOLEAN
  /\ pc \in {"run", "alloc", "account", "mark", "finish", "link", "minor"}
  /\ caller \in {"none", "script", "alloc", "step", "major"}
  /\ budget \in 0..WorkBudget
  /\ req \in Request

-----------------------------------------------------------------------------
(* What the collector looks at                                              *)

(* The pointers an object holds. *)
Refs(o) == {field[o][f] : f \in Field} \ {Null}

(* The pointers trace_object follows.  An upvalue cell is allocated with    *)
(* invalid_type_id, for which trace_object returns at once: its value is    *)
(* seen only through a closure that captured it.                            *)
Traced(o) ==
  CASE kind[o] = "upvalue" -> {}
    [] kind[o] = "closure" -> Refs(o) \cup UNION {Refs(u) : u \in Refs(o)}
    [] OTHER -> Refs(o)

TraceTargets(o, youngOnly) == {x \in Traced(o) \cap live : youngOnly => gen[x] = 0}

(* Mutant of RootValues: open upvalues are not scanned. *)
RootValuesNoOpen ==
  {root[r] : r \in Root} \ {Null}

(* mark_roots: root slots, open upvalues, and the upvalues of the closures  *)
(* that are in registers.                                                   *)
RootValues ==
  LET slots == {root[r] : r \in Root} \cup {open[r] : r \in Reg}
      closures == {c \in {root[r] : r \in Reg} \cap live : kind[c] = "closure"}
  IN  (slots \cup UNION {Traced(c) : c \in closures}) \ {Null}

RootTargets(youngOnly) == {x \in RootValues \cap live : youngOnly => gen[x] = 0}

Whitened(S) == [o \in Obj |-> IF o \in S THEN "white" ELSE color[o]]

(* shade_gray of every white object of S, colors being col *)
Shaded(col, S) == [o \in Obj |-> IF o \in S /\ col[o] = "white" THEN "gray" ELSE col[o]]
Pushed(col, S) == {o \in S : col[o] = "white"}

ShadeGray(S) ==
  /\ color' = Shaded(color, S)
  /\ gray' = gray \cup Pushed(color, S)

(* One iteration of mark_step and process_gray_stack(_step): pop o, trace   *)
(* it, set it black.  The backing of a string goes straight to black.  A    *)
(* popped pointer whose object is gone is skipped by try_get_header.        *)
PopGray(o, youngOnly) ==
  LET white == {x \in TraceTargets(o, youngOnly) : o \in live /\ color[x] = "white"}
      direct == {x \in white : kind[o] = "string"}
  IN  /\ o \in gray
      /\ color' = [x \in Obj |-> IF (x = o /\ o \in live) \/ x \in direct THEN "black"
                                 ELSE IF x \in white THEN "gray" ELSE color[x]]
      /\ gray' = (gray \ {o}) \cup (white \ direct)

-----------------------------------------------------------------------------
(* Initially the heap is empty and the collector idle.                      *)
Init ==
  /\ live = {} /\ young = {} /\ oldBytes = 0
  /\ kind = [o \in Obj |-> "struct"]
  /\ field = [o \in Obj |-> [f \in Field |-> Null]]
  /\ color = [o \in Obj |-> "white"]
  /\ gen = [o \in Obj |-> 0]
  /\ age = [o \in Obj |-> 0]
  /\ root = [r \in Root |-> Null]
  /\ open = [r \in Reg |-> Null]
  /\ phase = "idle" /\ minorPhase = "idle"
  /\ gray = {} /\ pending = {} /\ retained = {}
  /\ sweepTodo = {} /\ sweepKept = FALSE
  /\ pc = "run" /\ caller = "none" /\ budget = 0 /\ req = NoReq

-----------------------------------------------------------------------------
(* Script code.  It runs only between collector calls.                      *)

(* Mutant of Remembers: the generations are compared the wrong way round. *)
RemembersSwapped(t, v) == {t, v} \subseteq live /\ gen[t] = 0 /\ gen[v] = 1

(* Mutant of BarrierShades: only the minor collection is thought of. *)
BarrierShadesMinorOnly(t, v) == {t, v} \subseteq live /\ minorPhase # "idle" /\ gen[v] = 0

(* write_barrier(target, value) *)
Remembers(t, v) == {t, v} \subseteq live /\ gen[t] = 1 /\ gen[v] = 0

BarrierShades(t, v) ==
  /\ {t, v} \subseteq live
  /\ \/ minorPhase # "idle" /\ gen[v] = 0
     \/ phase = "mark_incremental" /\ color[t] = "black"

Collecting == phase = "mark_incremental" \/ minorPhase # "idle"

WriteBarrier(t, v) ==
  /\ age' = IF v # Null /\ t \in live /\ gen[t] = 0 /\ (Collecting => v \in live)
             THEN [age EXCEPT ![t] = 0] ELSE age
  /\ pending' = IF Remembers(t, v) THEN pending \cup ({t} \ retained) ELSE pending
  /\ ShadeGray(IF BarrierShades(t, v) THEN {v} ELSE {})

(* write_barrier_root(value) *)
WriteBarrierRoot(v) ==
  LET marking == phase = "mark_incremental" \/ (minorPhase # "idle" /\ gen[v] = 0)
  IN  ShadeGray(IF v \in live /\ marking THEN {v} ELSE {})

Script == pc = "run" /\ UNCHANGED <<live, kind, gen, young, oldBytes, retained, sweepVars, phaseVars>>
InReg(r, k) == root[r] \in live /\ kind[root[r]] = k

(* Read a slot of an object into a register. *)
Load(d, s, f) ==
  /\ Script
  /\ InReg(s, "struct") \/ InReg(s, "sum")
  /\ root' = [root EXCEPT ![d] = field[root[s]][f]]
  /\ UNCHANGED <<field, age, open, markVars, pending, controlVars>>

(* Copy a root slot into a register (a move, GETGLOBAL). *)
Move(d, s) ==
  /\ Script
  /\ root' = [root EXCEPT ![d] = root[s]]
  /\ UNCHANGED <<field, age, open, markVars, pending, controlVars>>

(* A register is overwritten by a scalar, or its frame is popped. *)
Clear(d) ==
  /\ Script
  /\ root' = [root EXCEPT ![d] = Null]
  /\ UNCHANGED <<field, age, open, markVars, pending, controlVars>>

(* SETGLOBAL *)
SetGlobal(g, s) ==
  /\ Script
  /\ root' = [root EXCEPT ![g] = root[s]]
  /\ WriteBarrierRoot(root[s])
  /\ UNCHANGED <<field, age, open, pending, controlVars>>

(* write_struct_field, array_set, map_set, write_tuple_element *)
Store(t, f, s) ==
  /\ Script
  /\ InReg(t, "struct")
  /\ field' = [field EXCEPT ![root[t]][f] = root[s]]
  /\ WriteBarrier(root[t], root[s])
  /\ UNCHANGED <<rootVars, controlVars>>

(* SUMINIT: the payload goes through the overload of write_sum_payload for  *)
(* raw data, which has no barrier.  The compiler emits NEWSUM, the code of  *)
(* the payload and SUMINIT in this order: what the payload's code does to   *)
(* the heap comes between the two, and only the register t has the sum.     *)
SumInit(t, s) ==
  /\ Script
  /\ InReg(t, "sum")
  /\ Refs(root[t]) = {}
  /\ \A r \in Root \ {t} : root[r] # root[t]
  /\ \A o \in live : root[t] \notin Refs(o)
  /\ field' = [field EXCEPT ![root[t]] = [f \in Field |-> root[s]]]
  /\ UNCHANGED <<age, rootVars, markVars, pending, controlVars>>

(* GETUPVAL and SETUPVAL of the variable that the closure in c captured.    *)
(* While the upvalue is open the variable is the register itself.           *)
OpenAt(u, r) == open[r] = u
IsOpen(u) == \E r \in Reg : OpenAt(u, r)

GetUpval(d, c, u) ==
  /\ Script
  /\ InReg(c, "closure")
  /\ u \in Refs(root[c])
  /\ \/ \E r \in Reg : OpenAt(u, r) /\ root' = [root EXCEPT ![d] = root[r]]
     \/ \E f \in Field : ~IsOpen(u) /\ root' = [root EXCEPT ![d] = field[u][f]]
  /\ UNCHANGED <<field, age, open, markVars, pending, controlVars>>

SetUpval(c, u, s) ==
  /\ Script
  /\ InReg(c, "closure")
  /\ u \in Refs(root[c])
  /\ \/ /\ \E r \in Reg : OpenAt(u, r) /\ root' = [root EXCEPT ![r] = root[s]]
        /\ UNCHANGED <<field, age, markVars, pending>>
     \/ /\ ~IsOpen(u)
        /\ field' = [field EXCEPT ![u] = [f \in Field |-> root[s]]]
        /\ WriteBarrier(u, root[s])
        /\ UNCHANGED root
  /\ UNCHANGED <<open, controlVars>>

(* close_upvalues of the frame with the registers R: their open upvalues    *)
(* take the values of the registers; no barrier.                            *)
CloseUpvalues(R) ==
  /\ Script
  /\ \E r \in R : open[r] # Null
  /\ field' = [o \in Obj |-> IF \E r \in R : OpenAt(o, r)
                             THEN [f \in Field |-> root[CHOOSE r \in R : OpenAt(o, r)]]
                             ELSE field[o]]
  /\ open' = [r \in Reg |-> IF r \in R THEN Null ELSE open[r]]
  /\ UNCHANGED <<age, root, markVars, pending, controlVars>>

-----------------------------------------------------------------------------
(* Allocation: ScriptHeap::allocate and the functions that wrap it.         *)

(* The call of allocate.  The bound: addresses are left for what the call   *)
(* allocates, a string and a captured register take two.                    *)
BeginAlloc(k, d, from, init) ==
  /\ Script
  /\ k \in Kinds
  /\ \E a \in Obj \ live : (k = "backing" \/ from # Null) => live # Obj \ {a}
  /\ pc' = "alloc"
  /\ req' = [kind |-> k, dest |-> d, from |-> from, init |-> init, addr |-> Null]
  /\ UNCHANGED <<field, age, rootVars, markVars, pending, caller, budget>>

(* alloc_struct and its siblings; alloc_sum *)
AllocPlain(d) == \E k \in {"struct", "sum"} : BeginAlloc(k, d, Null, Null)

(* alloc_string: the backing first, the repr when the backing is there (Link). *)
AllocString(d) == BeginAlloc("backing", d, Null, Null)

(* string.substr and string.trim: alloc_string_view, a new repr over the    *)
(* backing of the string in s, read before the allocation.                  *)
AllocView(d, s) ==
  /\ d # s
  /\ InReg(s, "string")
  /\ \E f \in Field : BeginAlloc("string", d, Null, field[root[s]][f])

(* CLOSURE with one captured variable: a register, or an upvalue of the     *)
(* running closure.                                                         *)
AllocClosure(d) ==
  \/ \E r \in Reg \ {d} : BeginAlloc("closure", d, r, Null)
  \/ \E c \in Reg : InReg(c, "closure") /\ \E u \in Refs(root[c]) : BeginAlloc("closure", d, Null, u)

(* The head of allocate: the emergency collection, if the pool is over half *)
(* full and it has not just been made, and then the address is taken.       *)
Reserve ==
  /\ pc = "alloc"
  /\ \/ /\ caller = "none" /\ Cardinality(live) > EmergencyLimit
        /\ pc' = "minor" /\ caller' = "alloc"
        /\ UNCHANGED req
     \/ /\ caller = "alloc" \/ Cardinality(live) <= EmergencyLimit
        /\ \E a \in Obj \ live : req' = [req EXCEPT !.addr = a]
        /\ pc' = "account" /\ caller' = "none"
  /\ UNCHANGED <<heapVars, rootVars, markVars, rememberedVars, sweepVars, phaseVars, budget>>

(* Mutant of LeavesMajorAlone: the minor cycle in progress is not looked at. *)
LeavesMajorAloneUnchecked == phase = "idle" /\ oldBytes <= MajorThreshold

(* on_allocation up to its call of mark_step, with start_major_gc           *)
StartsMajor == phase = "idle" /\ oldBytes > MajorThreshold
LeavesMajorAlone == minorPhase # "idle" \/ (phase = "idle" /\ ~StartsMajor)

OnAllocation ==
  /\ pc = "account"
  /\ IF LeavesMajorAlone
     THEN pc' = "link" /\ UNCHANGED <<color, gray, phase, budget>>
     ELSE /\ pc' = "mark"
          /\ budget' = WorkBudget
          /\ phase' = "mark_incremental"
          /\ LET col == IF StartsMajor THEN Whitened(live) ELSE color
                 found == IF StartsMajor THEN RootTargets(FALSE) ELSE {}
             IN  /\ color' = Shaded(col, found)
                 /\ gray' = gray \cup Pushed(col, found)
  /\ UNCHANGED <<heapVars, rootVars, rememberedVars, sweepVars, minorPhase, caller, req>>

(* mark_step *)
MarkStep(o) ==
  /\ pc = "mark"
  /\ budget > 0
  /\ PopGray(o, FALSE)
  /\ budget' = budget - 1
  /\ UNCHANGED <<heapVars, rootVars, rememberedVars, sweepVars, phaseVars, pc, caller, req>>

(* Mutant of Rescan: finish_major_gc trusts the roots of start_major_gc. *)
RescanSkipped == UNCHANGED markVars

(* mark_step returns: out of budget, or drained and on to finish_major_gc,  *)
(* which scans the roots again.                                             *)
Rescan == ShadeGray(RootTargets(FALSE))

MarkStepReturns ==
  /\ pc = "mark"
  /\ \/ gray = {} /\ Rescan /\ pc' = "finish"
     \/ gray # {} /\ budget = 0 /\ pc' = "link" /\ UNCHANGED markVars
  /\ budget' = 0
  /\ UNCHANGED <<heapVars, rootVars, rememberedVars, sweepVars, phaseVars, caller, req>>

(* The rest of allocate and of the wrapper: colour, link, fill, hand out.   *)
Link ==
  LET a == req.addr
      d == req.dest
      again(r) == pc' = "alloc" /\ req' = r
      done == pc' = "run" /\ req' = NoReq
      slots(v) == [f \in Field |-> v]
  IN
  /\ pc = "link"
  /\ live' = live \cup {a}
  /\ young' = young \cup {a}
  /\ kind' = [kind EXCEPT ![a] = req.kind]
  /\ color' = [color EXCEPT ![a] = IF phase = "mark_incremental" THEN "black" ELSE "white"]
  /\ gen' = [gen EXCEPT ![a] = 0]
  /\ age' = [age EXCEPT ![a] = 0]
  /\ \/ /\ req.kind \in {"struct", "sum", "string"}
        /\ field' = [field EXCEPT ![a] = slots(req.init)]
        /\ root' = [root EXCEPT ![d] = a]
        /\ done
        /\ UNCHANGED open
     \/ /\ req.kind = "backing"
        /\ field' = [field EXCEPT ![a] = slots(Null)]
        /\ root' = [root EXCEPT ![d] = a]
        /\ again([NoReq EXCEPT !.kind = "string", !.dest = d, !.init = a])
        /\ UNCHANGED open
     \/ /\ req.kind = "closure"
        /\ root' = [root EXCEPT ![d] = a]
        /\ IF req.from = Null
           THEN field' = [field EXCEPT ![a] = slots(req.init)] /\ done
           ELSE IF open[req.from] # Null
           THEN field' = [field EXCEPT ![a] = slots(open[req.from])] /\ done
           ELSE /\ field' = [field EXCEPT ![a] = slots(Null)]
                /\ again([NoReq EXCEPT !.kind = "upvalue", !.dest = d, !.from = req.from])
        /\ UNCHANGED open
     \/ /\ req.kind = "upvalue"
        /\ field' = [field EXCEPT ![a] = slots(Null), ![root[d]] = slots(a)]
        /\ open' = [open EXCEPT ![req.from] = a]
        /\ done
        /\ UNCHANGED root
  /\ UNCHANGED <<oldBytes, gray, rememberedVars, sweepVars, phaseVars, caller, budget>>

(* The blocks of S go back to the allocator, which poisons them: what they  *)
(* held is not kept in the state.                                           *)
Wiped(S) ==
  /\ live' = live \ S
  /\ field' = [o \in Obj |-> IF o \in S THEN [f \in Field |-> Null] ELSE field[o]]
  /\ kind' = [o \in Obj |-> IF o \in S THEN "struct" ELSE kind[o]]

-----------------------------------------------------------------------------
(* The end of a major collection: the drain of finish_major_gc and of       *)
(* collect_major, and sweep_all.                                            *)
(* Mutant of OldSize: sweep_all leaves old_bytes_ as it was. *)
OldSizeStale(S) == oldBytes

OldSize(S) == Cardinality({o \in S : gen[o] = 1})

Drain(o) ==
  /\ pc = "finish"
  /\ PopGray(o, FALSE)
  /\ UNCHANGED <<heapVars, rootVars, rememberedVars, sweepVars, phaseVars, controlVars>>

SweepAll ==
  /\ pc = "finish"
  /\ gray = {}
  /\ LET white == {o \in live : color[o] = "white"}
     IN  /\ Wiped(white)
         /\ gen' = [o \in Obj |-> IF o \in white THEN 0 ELSE gen[o]]
         /\ age' = [o \in Obj |-> IF o \in white THEN 0 ELSE age[o]]
  /\ color' = Whitened(live)
  /\ young' = {o \in live' : gen[o] = 0}
  /\ oldBytes' = OldSize(live')
  /\ phase' = "idle"
  /\ pc' = CASE caller = "none" -> "link"
             [] caller = "major" -> "run"
             [] OTHER -> "minor"
  /\ caller' = IF caller = "major" THEN "none" ELSE caller
  /\ UNCHANGED <<gray, rootVars, rememberedVars, sweepVars, minorPhase, budget, req>>

(* collect_major.  It does not look at minor_phase_.                        *)
CollectMajor ==
  /\ pc = "run"
  /\ "collect_major" \in EntryPoints
  /\ color' = Shaded(Whitened(live), RootTargets(FALSE))
  /\ gray' = gray \cup RootTargets(FALSE)
  /\ phase' = "mark_incremental"
  /\ pc' = "finish"
  /\ caller' = "major"
  /\ UNCHANGED <<heapVars, rootVars, rememberedVars, sweepVars, minorPhase, budget, req>>

-----------------------------------------------------------------------------
(* A minor collection: collect_minor and collect_minor_step.                *)

CollectMinor ==
  /\ pc = "run"
  /\ \/ "collect_minor" \in EntryPoints /\ caller' = "script"
     \/ "collect_minor_step" \in EntryPoints /\ caller' = "step"
  /\ pc' = "minor"
  /\ UNCHANGED <<heapVars, rootVars, markVars, rememberedVars, sweepVars, phaseVars, budget, req>>

InMinor(p) == pc = "minor" /\ minorPhase = p

(* collect_minor_step first completes a major collection that is marking.   *)
CompleteMajor(o) ==
  /\ InMinor("idle")
  /\ phase = "mark_incremental"
  /\ PopGray(o, FALSE)
  /\ UNCHANGED <<heapVars, rootVars, rememberedVars, sweepVars, phaseVars, controlVars>>

CompleteMajorReturns ==
  /\ InMinor("idle")
  /\ phase = "mark_incremental"
  /\ gray = {}
  /\ Rescan
  /\ pc' = "finish"
  /\ UNCHANGED <<heapVars, rootVars, rememberedVars, sweepVars, phaseVars, caller, budget, req>>

(* begin_minor_cycle *)
BeginMinor ==
  /\ InMinor("idle")
  /\ phase # "mark_incremental"
  /\ gray' = {}
  /\ color' = Whitened({o \in young \cap live : gen[o] = 0})
  /\ retained' = {}
  /\ sweepTodo' = young
  /\ sweepKept' = FALSE
  /\ minorPhase' = "mark_roots"
  /\ UNCHANGED <<heapVars, rootVars, pending, phase, controlVars>>

MinorMarkRoots ==
  /\ InMinor("mark_roots")
  /\ ShadeGray(RootTargets(TRUE))
  /\ phase' = "mark_roots"
  /\ minorPhase' = "scan_remembered"
  /\ UNCHANGED <<heapVars, rootVars, rememberedVars, sweepVars, controlVars>>

(* Mutant of ScanValid: the generation is not checked. *)
ScanValidAnyAge(o) == o \in live

(* Mutant of Advanced: remembered_scan_cursor_ stays where it is. *)
AdvancedNot(o) == pending

(* mark_from_remembered_step, one entry: its young children are shaded; it  *)
(* stays remembered when it has any.  An entry whose object is gone, or is  *)
(* a young one that got the address, is dropped.                            *)
ScanValid(o) == o \in live /\ gen[o] = 1

Advanced(o) == pending \ {o}

ScanRemembered(o) ==
  LET found == IF ScanValid(o) THEN TraceTargets(o, TRUE) ELSE {}
      white == {x \in found : color[x] = "white"}
      direct == {x \in white : kind[o] = "string"}
  IN
  /\ InMinor("scan_remembered")
  /\ o \in pending
  /\ phase' = "mark_incremental"
  /\ pending' = Advanced(o)
  /\ retained' = IF found # {} THEN retained \cup {o} ELSE retained
  /\ color' = [x \in Obj |-> IF x \in direct THEN "black" ELSE IF x \in white THEN "gray" ELSE color[x]]
  /\ gray' = gray \cup (white \ direct)
  /\ UNCHANGED <<heapVars, rootVars, sweepVars, minorPhase, controlVars>>

ScanRememberedDone ==
  /\ InMinor("scan_remembered")
  /\ pending = {}
  /\ phase' = "mark_incremental"
  /\ pending' = retained
  /\ retained' = {}
  /\ minorPhase' = "trace_gray"
  /\ UNCHANGED <<heapVars, rootVars, markVars, sweepVars, controlVars>>

TraceGray(o) ==
  /\ InMinor("trace_gray")
  /\ phase' = "mark_incremental"
  /\ PopGray(o, TRUE)
  /\ UNCHANGED <<heapVars, rootVars, rememberedVars, sweepVars, minorPhase, controlVars>>

TraceGrayDone ==
  /\ InMinor("trace_gray")
  /\ gray = {}
  /\ phase' = "mark_incremental"
  /\ minorPhase' = "sweep_promote"
  /\ UNCHANGED <<heapVars, rootVars, markVars, rememberedVars, sweepVars, controlVars>>

(* Mutant of Unlinked: a swept object stays on the young list. *)
UnlinkedNot(o) == young

(* Removal of o, the head of what is left to sweep, from the young list.    *)
(* While nothing was kept young_sweep_prev_ is 0 and the list's head becomes*)
(* o's successor: objects linked in front of o since the cycle began are    *)
(* dropped from the list with it.                                           *)
Unlinked(o) == IF sweepKept THEN young \ {o} ELSE sweepTodo \ {o}

(* Mutant of Promotes: one collection more than the threshold. *)
PromotesLate(o) == age[o] >= PromotionThreshold

(* Mutant of EnqueuePromoted: a promoted object is not remembered. *)
EnqueuePromotedNot(o) == pending

EnqueuePromoted(o) == pending \cup {o}

Promotes(o) == age[o] + 1 >= PromotionThreshold

(* sweep_and_promote_young_step, one object.  Its branch for objects that   *)
(* are not young any more is left out: nothing in sweepTodo is promoted or  *)
(* freed by another (SweepTodoYoung), unless collect_major is called between*)
(* two steps of a minor collection.                                         *)
SweepFree(o) ==
  /\ color[o] = "white"
  /\ Wiped({o})
  /\ age' = [age EXCEPT ![o] = 0]
  /\ young' = Unlinked(o)
  /\ UNCHANGED <<gen, color, oldBytes, pending, sweepKept>>

SweepPromote(o) ==
  /\ color[o] # "white"
  /\ Promotes(o)
  /\ age' = [age EXCEPT ![o] = age[o] + 1]
  /\ gen' = [gen EXCEPT ![o] = 1]
  /\ oldBytes' = oldBytes + 1
  /\ pending' = EnqueuePromoted(o)
  /\ young' = Unlinked(o)
  /\ color' = [color EXCEPT ![o] = "white"]
  /\ UNCHANGED <<live, kind, field, sweepKept>>

SweepKeep(o) ==
  /\ color[o] # "white"
  /\ ~Promotes(o)
  /\ age' = [age EXCEPT ![o] = age[o] + 1]
  /\ color' = [color EXCEPT ![o] = "white"]
  /\ sweepKept' = TRUE
  /\ UNCHANGED <<live, kind, field, gen, oldBytes, pending, young>>

SweepYoung(o) ==
  /\ InMinor("sweep_promote")
  /\ o \in sweepTodo
  /\ sweepTodo' = sweepTodo \ {o}
  /\ phase' = "sweep"
  /\ SweepFree(o) \/ SweepPromote(o) \/ SweepKeep(o)
  /\ UNCHANGED <<rootVars, gray, retained, minorPhase, controlVars>>

(* The sweep is over: finish_minor_cycle, and collect_minor returns.        *)
FinishMinor ==
  /\ InMinor("sweep_promote")
  /\ sweepTodo = {}
  /\ phase' = "idle"
  /\ minorPhase' = "idle"
  /\ sweepKept' = FALSE
  /\ IF caller = "alloc" THEN pc' = "alloc" /\ UNCHANGED caller ELSE pc' = "run" /\ caller' = "none"
  /\ UNCHANGED <<heapVars, rootVars, markVars, rememberedVars, sweepTodo, budget, req>>

(* collect_minor_step returns when its budget or its time is used up.       *)
StepReturns ==
  /\ pc = "minor"
  /\ caller = "step"
  /\ minorPhase # "idle"
  /\ pc' = "run"
  /\ caller' = "none"
  /\ UNCHANGED <<heapVars, rootVars, markVars, rememberedVars, sweepVars, phaseVars, budget, req>>

-----------------------------------------------------------------------------
Mutate ==
  \/ \E d \in Reg : Clear(d)
  \/ \E d \in Reg, s \in Root : d # s /\ Move(d, s)
  \/ \E d, s \in Reg, f \in Field : Load(d, s, f) \/ Store(d, f, s)
  \/ \E t, s \in Reg : SumInit(t, s)
  \/ \E g \in Glob, s \in Reg : SetGlobal(g, s)
  \/ \E d, c \in Reg, u \in Obj : GetUpval(d, c, u) \/ SetUpval(c, u, d)
  \/ \E R \in SUBSET Reg : CloseUpvalues(R)

Allocate ==
  \/ \E d \in Reg : AllocPlain(d) \/ AllocString(d) \/ AllocClosure(d)
  \/ \E d, s \in Reg : AllocView(d, s)

Call == CollectMajor \/ CollectMinor

(* What runs to its end once it is called *)
Collector ==
  \/ Reserve \/ OnAllocation \/ MarkStepReturns \/ Link
  \/ SweepAll
  \/ CompleteMajorReturns \/ BeginMinor \/ MinorMarkRoots \/ ScanRememberedDone \/ TraceGrayDone \/ FinishMinor
  \/ StepReturns
  \/ \E o \in Obj : \/ MarkStep(o) \/ Drain(o) \/ CompleteMajor(o)
                    \/ ScanRemembered(o) \/ TraceGray(o) \/ SweepYoung(o)

Next == Mutate \/ Allocate \/ Call \/ Collector

Spec == Init /\ [][Next]_vars
FairSpec == Spec /\ WF_vars(Collector)

-----------------------------------------------------------------------------
(* Properties                                                               *)

Roots == ({root[r] : r \in Root} \cup {open[r] : r \in Reg}) \ {Null}

(* What the script can still get at: the least set that holds the roots and *)
(* is closed under the pointers of its members.                             *)
Reachable ==
  LET closed(S) == Roots \subseteq S /\ \A o \in S : Refs(o) \subseteq S
  IN  {o \in Obj : \A S \in SUBSET Obj : closed(S) => o \in S}

(* No object that the script can reach has been freed.                      *)
ReachableLive == Reachable \subseteq live

(* Dijkstra's invariant of incremental marking: while a major collection    *)
(* marks, a black object points to no white one.                            *)
MajorMarking == phase = "mark_incremental" /\ minorPhase = "idle"
BlackSeesNoWhite ==
  MajorMarking => \A o \in live, f \in Field :
    color[o] = "black" /\ field[o][f] \in live => color[field[o][f]] # "white"

(* The assertion of finish_major_gc: when the roots were scanned again and  *)
(* the gray stack is drained, no root leads to a white object.              *)
RescanFixpoint ==
  pc = "finish" /\ gray = {} => \A o \in RootTargets(FALSE) : color[o] # "white"

(* Between minor collections an old object with a young child is in the     *)
(* remembered set.                                                          *)
OldToYoungRemembered ==
  minorPhase = "idle" =>
    \A o \in live : gen[o] = 1 /\ (\E x \in Traced(o) \cap live : gen[x] = 0) => o \in pending

(* The young list holds the young objects, each once and no other.          *)
YoungListExact == young = {o \in live : gen[o] = 0}

(* old_bytes_, which starts major collections, is the size of the old       *)
(* generation.                                                              *)
OldBytesExact == oldBytes = Cardinality({o \in live : gen[o] = 1})

(* What a minor sweep keeps is reachable from the roots or from an old      *)
(* object.                                                                  *)
MinorPrecise ==
  LET anchors == Roots \cup {o \in live : gen[o] = 1}
      closed(S) == anchors \subseteq S /\ \A o \in S : Refs(o) \subseteq S
  IN  minorPhase = "sweep_promote" =>
        \A o \in sweepTodo : color[o] # "white" => \A S \in SUBSET Obj : closed(S) => o \in S

(* What waits for the minor sweep is neither freed nor promoted by anything *)
(* else, though scripts allocate between the steps of a minor collection    *)
(* and allocation starts and completes major collections.                   *)
SweepTodoYoung == \A o \in sweepTodo : o \in live /\ gen[o] = 0

(* The cell of an open upvalue stays while its frame can close it.          *)
OpenUpvaluesLive == \A r \in Reg : open[r] # Null => open[r] \in live

(* The collected heap implements the managed heap: no call of the collector *)
(* changes a record the script can reach or a root, none reclaims such a    *)
(* record, and no address is handed out while the script can reach it.      *)
Managed == INSTANCE ManagedHeap WITH
  Slot <- Root,
  heap <- [o \in live |-> field[o]]

ImplementsManagedHeap == Managed!Spec

(* Every call into the collector returns to the script.                     *)
CollectorReturns == (pc # "run") ~> (pc = "run")
=============================================================================
