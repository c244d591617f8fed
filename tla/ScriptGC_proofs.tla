--------------------------- MODULE ScriptGC_proofs ---------------------------
(***************************************************************************)
(* Proofs about ScriptGC, for every value of its constants.                *)
(*                                                                         *)
(* TypeOK is not inductive.  That an allocation in progress has a kind, a  *)
(* destination and, once it is reserved, a free address is a matter of who *)
(* called whom (Control); that an age stays within the threshold needs     *)
(* that the minor sweep meets young objects only (Sweeping), which in turn *)
(* holds because no major collection sweeps while a minor one is under way.*)
(* Allocation sees to that, but collect_major does not look: the theorems  *)
(* are about hosts that leave collect_major alone when they collect with   *)
(* collect_minor_step (SeparateEntryPoints).                               *)
(***************************************************************************)
EXTENDS ScriptGC, FiniteSetTheorems, TLAPS

(* Where the request of an allocation is in use, and where it has an address *)
Requesting ==
  \/ pc \in {"alloc", "account", "mark", "link"}
  \/ pc = "finish" /\ caller = "none"
  \/ caller = "alloc"
Reserved ==
  \/ pc \in {"account", "mark", "link"}
  \/ pc = "finish" /\ caller = "none"

Control ==
  /\ pc = "run" => caller = "none"
  /\ pc = "alloc" => caller \in {"none", "alloc"}
  /\ pc \in {"account", "mark", "link"} => caller = "none"
  /\ pc = "minor" => caller \in {"script", "alloc", "step"}
  /\ Requesting => req.kind \in AllKinds /\ req.dest \in Reg
  /\ Reserved => req.addr \in Obj \ live

Sweeping ==
  /\ SweepTodoYoung
  /\ \A o \in young : o \in live /\ gen[o] = 0
  /\ minorPhase = "idle" => sweepTodo = {}
  /\ pc \in {"mark", "finish"} => minorPhase = "idle"

Ages == \A o \in Obj : gen[o] = 0 => age[o] < PromotionThreshold

IInv == TypeOK /\ Control /\ Sweeping /\ Ages

SeparateEntryPoints == ~({"collect_minor_step", "collect_major"} \subseteq EntryPoints)

(* Only collect_minor_step returns in the middle of a minor collection. *)
Stepping ==
  /\ caller = "step" => "collect_minor_step" \in EntryPoints
  /\ "collect_minor_step" \notin EntryPoints /\ minorPhase # "idle" => pc = "minor"

-----------------------------------------------------------------------------
(* Marking: what is shaded or traced is live, so both keep their types.     *)
Marks == color \in [Obj -> {"white", "gray", "black"}] /\ gray \subseteq Obj

(* Shading objects keeps the colours colours and the gray stack addresses. *)
LEMMA ShadeGrayTypes ==
  ASSUME Marks, NEW S \in SUBSET Obj, ShadeGray(S)
  PROVE  Marks'
BY DEF Marks, ShadeGray, Shaded, Pushed

(* Tracing an object from the gray stack does so too. *)
LEMMA PopGrayTypes ==
  ASSUME Marks, live \subseteq Obj, NEW o \in Obj, NEW youngOnly \in BOOLEAN, PopGray(o, youngOnly)
  PROVE  Marks'
<1>1. TraceTargets(o, youngOnly) \subseteq Obj
  BY DEF TraceTargets
<1> QED
  BY <1>1 DEF Marks, PopGray

(* What a root scan finds is live. *)
LEMMA RootTargetsLive ==
  ASSUME NEW youngOnly \in BOOLEAN PROVE RootTargets(youngOnly) \subseteq live
BY DEF RootTargets

-----------------------------------------------------------------------------
(* Script code keeps IInv: what it changes is of the right type, ages only  *)
(* go back to 0, and it runs outside the collector.                         *)
LEMMA ScriptKeepsIInv ==
  ASSUME IInv, Script,
         field' \in [Obj -> [Field -> Obj \cup {Null}]],
         age' \in [Obj -> 0..PromotionThreshold],
         \A o \in Obj : age'[o] \in {0, age[o]},
         root' \in [Root -> Obj \cup {Null}],
         open' \in [Reg -> Obj \cup {Null}],
         Marks', pending' \subseteq Obj, UNCHANGED controlVars
  PROVE  IInv'
<1>1. TypeOK'
  BY DEF IInv, TypeOK, Script, Marks, controlVars, sweepVars, phaseVars
<1>2. Control'
  BY DEF IInv, Control, Requesting, Reserved, Script, controlVars
<1>3. Sweeping'
  BY DEF IInv, Sweeping, SweepTodoYoung, Script, controlVars, sweepVars, phaseVars
<1>4. Ages'
  <2> SUFFICES ASSUME NEW o \in Obj, gen'[o] = 0 PROVE age'[o] < PromotionThreshold
    BY DEF Ages
  <2>1. age[o] < PromotionThreshold
    BY DEF IInv, Ages, Script
  <2>2. 0 < PromotionThreshold
    BY ConfigAssumption DEF ConfigAssumption
  <2> QED
    BY <2>1, <2>2
<1> QED
  BY <1>1, <1>2, <1>3, <1>4 DEF IInv

(* The barrier of a store keeps the types of what it touches. *)
LEMMA WriteBarrierTypes ==
  ASSUME IInv, NEW t \in Obj, NEW v \in Obj \cup {Null}, WriteBarrier(t, v)
  PROVE  /\ age' \in [Obj -> 0..PromotionThreshold]
         /\ \A o \in Obj : age'[o] \in {0, age[o]}
         /\ pending' \subseteq Obj
         /\ Marks'
<1>1. age' \in [Obj -> 0..PromotionThreshold] /\ \A o \in Obj : age'[o] \in {0, age[o]}
  BY ConfigAssumption DEF ConfigAssumption, IInv, TypeOK, WriteBarrier
<1>2. pending' \subseteq Obj
  BY DEF IInv, TypeOK, WriteBarrier
<1>3. Marks'
  <2>1. Marks
    BY DEF IInv, TypeOK, Marks
  <2>2. (IF BarrierShades(t, v) THEN {v} ELSE {}) \in SUBSET Obj
    BY DEF IInv, TypeOK, BarrierShades
  <2> QED
    BY <2>1, <2>2, ShadeGrayTypes DEF WriteBarrier
<1> QED
  BY <1>1, <1>2, <1>3

LEMMA MutateKeepsIInv ==
  ASSUME IInv, Mutate PROVE IInv'
<1> USE DEF controlVars, markVars, rootVars
<1>1. Marks /\ TypeOK
  BY DEF IInv, TypeOK, Marks
<1>2. ASSUME NEW d \in Reg, Clear(d) PROVE IInv'
  BY <1>1, <1>2, ScriptKeepsIInv DEF Clear, Marks, TypeOK
<1>3. ASSUME NEW d \in Reg, NEW s \in Root, Move(d, s) PROVE IInv'
  BY <1>1, <1>3, ScriptKeepsIInv DEF Move, Marks, TypeOK, Root
<1>4. ASSUME NEW d \in Reg, NEW s \in Reg, NEW f \in Field, Load(d, s, f) PROVE IInv'
  <2>1. root[s] \in Obj
    BY <1>1, <1>4 DEF Load, InReg, TypeOK
  <2>2. root' \in [Root -> Obj \cup {Null}]
    <3>1. field[root[s]][f] \in Obj \cup {Null}
      BY <1>1, <2>1 DEF TypeOK
    <3> QED
      BY <1>1, <1>4, <3>1 DEF Load, TypeOK
  <2> QED
    BY <1>1, <1>4, <2>2, ScriptKeepsIInv DEF Load, Marks, TypeOK
<1>5. ASSUME NEW g \in Glob, NEW s \in Reg, SetGlobal(g, s) PROVE IInv'
  <2>1. root' \in [Root -> Obj \cup {Null}]
    BY <1>1, <1>5 DEF SetGlobal, TypeOK, Root
  <2>2. Marks'
    <3>1. PICK S \in SUBSET Obj : ShadeGray(S)
      BY <1>1, <1>5 DEF SetGlobal, WriteBarrierRoot, TypeOK
    <3> QED
      BY <1>1, <3>1, ShadeGrayTypes
  <2> QED
    BY <1>1, <1>5, <2>1, <2>2, ScriptKeepsIInv DEF SetGlobal, TypeOK
<1>6. ASSUME NEW t \in Reg, NEW s \in Reg, NEW f \in Field, Store(t, f, s) PROVE IInv'
  <2>1. root[t] \in Obj /\ root[s] \in Obj \cup {Null}
    BY <1>1, <1>6 DEF Store, InReg, TypeOK, Root
  <2>2. field' \in [Obj -> [Field -> Obj \cup {Null}]]
    BY <1>1, <1>6, <2>1 DEF Store, TypeOK
  <2> QED
    BY <1>1, <1>6, <2>1, <2>2, WriteBarrierTypes, ScriptKeepsIInv DEF Store, TypeOK
<1>7. ASSUME NEW t \in Reg, NEW s \in Reg, SumInit(t, s) PROVE IInv'
  <2>1. root[s] \in Obj \cup {Null}
    BY <1>1 DEF TypeOK, Root
  <2>2. field' \in [Obj -> [Field -> Obj \cup {Null}]]
    BY <1>1, <1>7, <2>1 DEF SumInit, TypeOK
  <2> QED
    BY <1>1, <1>7, <2>2, ScriptKeepsIInv DEF SumInit, Marks, TypeOK
<1>8. ASSUME NEW d \in Reg, NEW c \in Reg, NEW u \in Obj, GetUpval(d, c, u) PROVE IInv'
  <2>1. root' \in [Root -> Obj \cup {Null}]
    BY <1>1, <1>8 DEF GetUpval, TypeOK, Root
  <2> QED
    BY <1>1, <1>8, <2>1, ScriptKeepsIInv DEF GetUpval, Marks, TypeOK
<1>9. ASSUME NEW d \in Reg, NEW c \in Reg, NEW u \in Obj, SetUpval(c, u, d) PROVE IInv'
  <2>1. root[d] \in Obj \cup {Null}
    BY <1>1 DEF TypeOK, Root
  <2>2. CASE \E r \in Reg : OpenAt(u, r) /\ root' = [root EXCEPT ![r] = root[d]] /\ UNCHANGED <<field, age, markVars, pending>>
    <3>1. root' \in [Root -> Obj \cup {Null}]
      BY <1>1, <2>1, <2>2 DEF TypeOK, Root
    <3> QED
      BY <1>1, <1>9, <2>2, <3>1, ScriptKeepsIInv DEF SetUpval, Marks, TypeOK
  <2>3. CASE ~IsOpen(u) /\ field' = [field EXCEPT ![u] = [f \in Field |-> root[d]]] /\ WriteBarrier(u, root[d]) /\ UNCHANGED root
    <3>1. field' \in [Obj -> [Field -> Obj \cup {Null}]]
      BY <1>1, <2>1, <2>3 DEF TypeOK
    <3> QED
      BY <1>1, <1>9, <2>1, <2>3, <3>1, WriteBarrierTypes, ScriptKeepsIInv DEF SetUpval, TypeOK
  <2> QED
    BY <1>9, <2>2, <2>3 DEF SetUpval
<1>10. ASSUME NEW R \in SUBSET Reg, CloseUpvalues(R) PROVE IInv'
  <2>1. field' \in [Obj -> [Field -> Obj \cup {Null}]]
    <3> SUFFICES ASSUME NEW o \in Obj, \E r \in R : OpenAt(o, r)
                 PROVE  root[CHOOSE r \in R : OpenAt(o, r)] \in Obj \cup {Null}
      BY <1>1, <1>10 DEF CloseUpvalues, TypeOK
    <3> QED
      BY <1>1 DEF TypeOK, Root
  <2> QED
    BY <1>1, <1>10, <2>1, ScriptKeepsIInv DEF CloseUpvalues, Marks, TypeOK
<1> QED
  BY <1>2, <1>3, <1>4, <1>5, <1>6, <1>7, <1>8, <1>9, <1>10 DEF Mutate
-----------------------------------------------------------------------------
(* The call of allocate: the request gets a kind and a destination. *)
LEMMA BeginAllocKeepsIInv ==
  ASSUME IInv, NEW k \in AllKinds, NEW d \in Reg, NEW from \in Reg \cup {Null},
         NEW init \in Obj \cup {Null}, BeginAlloc(k, d, from, init)
  PROVE  IInv'
<1> USE DEF markVars, rootVars, sweepVars, phaseVars
<1>1. req' \in Request /\ req'.kind = k /\ req'.dest = d
  BY DEF BeginAlloc, Request
<1>2. TypeOK'
  BY <1>1 DEF IInv, TypeOK, BeginAlloc, Script
<1>3. Control'
  BY <1>1 DEF IInv, Control, Requesting, Reserved, BeginAlloc, Script
<1>4. Sweeping'
  BY DEF IInv, Sweeping, SweepTodoYoung, BeginAlloc, Script
<1>5. Ages'
  BY DEF IInv, Ages, BeginAlloc, Script
<1> QED
  BY <1>2, <1>3, <1>4, <1>5 DEF IInv

LEMMA AllocateKeepsIInv ==
  ASSUME IInv, Allocate PROVE IInv'
<1>1. TypeOK
  BY DEF IInv
<1>2. ASSUME NEW d \in Reg, AllocPlain(d) PROVE IInv'
  BY <1>2, BeginAllocKeepsIInv DEF AllocPlain, AllKinds
<1>3. ASSUME NEW d \in Reg, AllocString(d) PROVE IInv'
  BY <1>3, BeginAllocKeepsIInv DEF AllocString, AllKinds
<1>4. ASSUME NEW d \in Reg, AllocClosure(d) PROVE IInv'
  <2>1. CASE \E r \in Reg \ {d} : BeginAlloc("closure", d, r, Null)
    BY <2>1, BeginAllocKeepsIInv DEF AllKinds
  <2>2. CASE \E c \in Reg : InReg(c, "closure") /\ \E u \in Refs(root[c]) : BeginAlloc("closure", d, Null, u)
    <3>1. PICK c \in Reg : InReg(c, "closure") /\ \E u \in Refs(root[c]) : BeginAlloc("closure", d, Null, u)
      BY <2>2
    <3>2. Refs(root[c]) \subseteq Obj
      BY <1>1, <3>1 DEF InReg, TypeOK, Refs
    <3> QED
      BY <3>1, <3>2, BeginAllocKeepsIInv DEF AllKinds
  <2> QED
    BY <1>4, <2>1, <2>2 DEF AllocClosure
<1>5. ASSUME NEW d \in Reg, NEW s \in Reg, AllocView(d, s) PROVE IInv'
  <2>1. root[s] \in Obj
    BY <1>1, <1>5 DEF AllocView, InReg, TypeOK
  <2>2. PICK f \in Field : BeginAlloc("string", d, Null, field[root[s]][f])
    BY <1>5 DEF AllocView
  <2>3. field[root[s]][f] \in Obj \cup {Null}
    BY <1>1, <2>1 DEF TypeOK
  <2> QED
    BY <2>2, <2>3, BeginAllocKeepsIInv DEF AllKinds
<1> QED
  BY <1>2, <1>3, <1>4, <1>5 DEF Allocate
-----------------------------------------------------------------------------
(* The collector.  A step that only marks keeps IInv. *)
LEMMA MarkingKeepsIInv ==
  ASSUME IInv, Marks', budget' \in 0..WorkBudget,
         phase' \in {"idle", "mark_roots", "mark_incremental", "sweep"},
         pending' \subseteq Obj, retained' \subseteq Obj,
         minorPhase' = minorPhase \/
           (minorPhase' \in {"scan_remembered", "trace_gray", "sweep_promote"} /\ minorPhase # "idle"),
         UNCHANGED <<heapVars, rootVars, sweepVars, pc, caller, req>>
  PROVE  IInv'
<1> USE DEF heapVars, rootVars, sweepVars
<1>1. TypeOK'
  BY DEF IInv, TypeOK, Marks
<1>2. Control'
  BY DEF IInv, Control, Requesting, Reserved
<1>3. Sweeping'
  BY DEF IInv, Sweeping, SweepTodoYoung
<1>4. Ages'
  BY DEF IInv, Ages
<1> QED
  BY <1>1, <1>2, <1>3, <1>4 DEF IInv

(* A step that only goes from one function of the collector to another      *)
(* keeps it when the request and the caller agree with where it goes.       *)
LEMMA CallKeepsIInv ==
  ASSUME IInv, Marks', budget' \in 0..WorkBudget,
         phase' \in {"idle", "mark_roots", "mark_incremental", "sweep"},
         pc' \in {"run", "alloc", "account", "mark", "finish", "link", "minor"},
         caller' \in {"none", "script", "alloc", "step", "major"},
         req' \in Request, Control',
         pc' \in {"mark", "finish"} => minorPhase = "idle",
         UNCHANGED <<heapVars, rootVars, rememberedVars, sweepVars, minorPhase>>
  PROVE  IInv'
<1> USE DEF heapVars, rootVars, sweepVars, rememberedVars
<1>1. TypeOK'
  BY DEF IInv, TypeOK, Marks
<1>2. Sweeping'
  BY DEF IInv, Sweeping, SweepTodoYoung
<1>3. Ages'
  BY DEF IInv, Ages
<1> QED
  BY <1>1, <1>2, <1>3 DEF IInv

(* The marking steps, one object each *)
LEMMA TracingKeepsIInv ==
  ASSUME IInv, NEW o \in Obj, MarkStep(o) \/ Drain(o) \/ CompleteMajor(o) \/ TraceGray(o)
  PROVE  IInv'
<1> USE DEF rememberedVars, phaseVars, controlVars
<1>1. Marks /\ live \subseteq Obj /\ WorkBudget \in Nat
  BY ConfigAssumption DEF ConfigAssumption, IInv, TypeOK, Marks
<1>2. Marks'
  BY <1>1, PopGrayTypes DEF MarkStep, Drain, CompleteMajor, TraceGray
<1>3. budget' \in 0..WorkBudget
  <2>1. budget \in 0..WorkBudget
    BY DEF IInv, TypeOK
  <2>2. budget' = budget \/ (budget > 0 /\ budget' = budget - 1)
    BY DEF MarkStep, Drain, CompleteMajor, TraceGray
  <2> QED
    BY <1>1, <2>1, <2>2
<1> QED
  BY <1>2, <1>3, MarkingKeepsIInv DEF MarkStep, Drain, CompleteMajor, TraceGray, IInv, TypeOK
(* What Marks is after any of the other steps of marking *)
LEMMA RootScanTypes ==
  ASSUME IInv, NEW youngOnly \in BOOLEAN, ShadeGray(RootTargets(youngOnly))
  PROVE  Marks'
<1>1. RootTargets(youngOnly) \in SUBSET Obj
  BY RootTargetsLive DEF IInv, TypeOK
<1> QED
  BY <1>1, ShadeGrayTypes DEF IInv, TypeOK, Marks

LEMMA MinorMarkingKeepsIInv ==
  ASSUME IInv,
         \/ MinorMarkRoots \/ ScanRememberedDone \/ TraceGrayDone
         \/ \E o \in Obj : ScanRemembered(o)
  PROVE  IInv'
<1> USE DEF InMinor, controlVars, markVars, rememberedVars
<1>1. Marks /\ TypeOK
  BY DEF IInv, TypeOK, Marks
<1>2. CASE MinorMarkRoots
  <2>1. Marks'
    BY <1>2, RootScanTypes DEF MinorMarkRoots
  <2> QED
    BY <1>1, <1>2, <2>1, MarkingKeepsIInv DEF MinorMarkRoots, TypeOK
<1>3. CASE ScanRememberedDone
  BY <1>1, <1>3, MarkingKeepsIInv DEF ScanRememberedDone, TypeOK, Marks
<1>4. CASE TraceGrayDone
  BY <1>1, <1>4, MarkingKeepsIInv DEF TraceGrayDone, TypeOK, Marks
<1>5. ASSUME NEW o \in Obj, ScanRemembered(o) PROVE IInv'
  <2>1. TraceTargets(o, TRUE) \subseteq Obj
    BY <1>1 DEF TraceTargets, TypeOK
  <2>2. Marks'
    BY <1>1, <1>5, <2>1 DEF ScanRemembered, Marks
  <2>3. pending' \subseteq Obj /\ retained' \subseteq Obj
    BY <1>1, <1>5 DEF ScanRemembered, Advanced, TypeOK
  <2> QED
    BY <1>1, <1>5, <2>2, <2>3, MarkingKeepsIInv DEF ScanRemembered, TypeOK
<1> QED
  BY <1>2, <1>3, <1>4, <1>5

(* Calls and returns that leave the heap alone *)
LEMMA ControlStepKeepsIInv ==
  ASSUME IInv, Call \/ Reserve \/ OnAllocation \/ MarkStepReturns \/ CompleteMajorReturns \/ StepReturns,
         CollectMajor => minorPhase = "idle"
  PROVE  IInv'
<1> USE DEF phaseVars, markVars, rememberedVars, heapVars
<1>1. Marks /\ TypeOK /\ Control
  BY DEF IInv, TypeOK, Marks
<1>2. 0 \in 0..WorkBudget /\ WorkBudget \in 0..WorkBudget
  BY ConfigAssumption DEF ConfigAssumption
<1>3. RootTargets(FALSE) \subseteq Obj
  BY <1>1, RootTargetsLive DEF TypeOK
<1>4. CASE CollectMajor
  <2>1. Marks'
    BY <1>1, <1>3, <1>4 DEF CollectMajor, Marks, Shaded, Whitened
  <2>2. Control'
    BY <1>1, <1>4 DEF CollectMajor, Control, Requesting, Reserved
  <2> QED
    BY <1>1, <1>4, <2>1, <2>2, CallKeepsIInv DEF CollectMajor, TypeOK
<1>5. CASE CollectMinor
  <2>1. Control'
    BY <1>1, <1>5 DEF CollectMinor, Control, Requesting, Reserved
  <2> QED
    BY <1>1, <1>5, <2>1, CallKeepsIInv DEF CollectMinor, TypeOK, Marks
<1>6. CASE Reserve
  <2>1. req' \in Request /\ req'.kind = req.kind /\ req'.dest = req.dest
    BY <1>1, <1>6 DEF Reserve, TypeOK, Request
  <2>2. pc' = "account" => req'.addr \in Obj \ live
    BY <1>1, <1>6 DEF Reserve, TypeOK, Request
  <2>3. Control'
    BY <1>1, <1>6, <2>1, <2>2 DEF Reserve, Control, Requesting, Reserved
  <2> QED
    BY <1>1, <1>6, <2>1, <2>3, CallKeepsIInv DEF Reserve, TypeOK, Marks
<1>7. CASE OnAllocation
  <2>1. Marks'
    BY <1>1, <1>3, <1>7 DEF OnAllocation, Marks, Shaded, Pushed, Whitened
  <2>2. Control'
    BY <1>1, <1>7 DEF OnAllocation, Control, Requesting, Reserved
  <2>3. pc' = "mark" => minorPhase = "idle"
    BY <1>7 DEF OnAllocation, LeavesMajorAlone
  <2> QED
    BY <1>1, <1>2, <1>7, <2>1, <2>2, <2>3, CallKeepsIInv DEF OnAllocation, TypeOK
<1>8. CASE MarkStepReturns
  <2>1. Marks'
    BY <1>1, <1>8, RootScanTypes DEF MarkStepReturns, Rescan, Marks
  <2>2. Control'
    BY <1>1, <1>8 DEF MarkStepReturns, Control, Requesting, Reserved
  <2>3. minorPhase = "idle"
    BY <1>8 DEF MarkStepReturns, IInv, Sweeping
  <2> QED
    BY <1>1, <1>2, <1>8, <2>1, <2>2, <2>3, CallKeepsIInv DEF MarkStepReturns, TypeOK
<1>9. CASE CompleteMajorReturns
  <2>1. Marks'
    BY <1>9, RootScanTypes DEF CompleteMajorReturns, Rescan
  <2>2. Control'
    BY <1>1, <1>9 DEF CompleteMajorReturns, Control, Requesting, Reserved, InMinor
  <2> QED
    BY <1>1, <1>9, <2>1, <2>2, CallKeepsIInv DEF CompleteMajorReturns, TypeOK, InMinor
<1>10. CASE StepReturns
  <2>1. Control'
    BY <1>1, <1>10 DEF StepReturns, Control, Requesting, Reserved
  <2> QED
    BY <1>1, <1>10, <2>1, CallKeepsIInv DEF StepReturns, TypeOK, Marks
<1> QED
  BY <1>4, <1>5, <1>6, <1>7, <1>8, <1>9, <1>10 DEF Call
(* The end of an allocation: the address was free, so nothing that waits    *)
(* for the minor sweep is at it.                                            *)
LEMMA LinkKeepsIInv ==
  ASSUME IInv, Link PROVE IInv'
<1> USE DEF rememberedVars, phaseVars, sweepVars
<1> DEFINE a == req.addr
<1>1. TypeOK /\ Control /\ Sweeping /\ Ages
  BY DEF IInv
<1>2. a \in Obj \ live /\ req.dest \in Reg /\ req.kind \in AllKinds /\ caller = "none"
  BY <1>1 DEF Link, Control, Requesting, Reserved
<1>3. /\ req.init \in Obj \cup {Null} /\ req.from \in Reg \cup {Null} /\ root[req.dest] \in Obj \cup {Null}
      /\ req.from # Null => open[req.from] \in Obj \cup {Null}
  BY <1>1, <1>2 DEF TypeOK, Request, Root
<1>4. /\ pc' = "run" /\ req' = NoReq
      \/ /\ pc' = "alloc" /\ req' \in Request /\ req'.kind \in AllKinds /\ req'.dest = req.dest
  BY <1>2, <1>3 DEF Link, NoReq, Request, AllKinds
<1>5. field' \in [Obj -> [Field -> Obj \cup {Null}]]
  <2>1. \/ \E v \in Obj \cup {Null} : field' = [field EXCEPT ![a] = [f \in Field |-> v]]
        \/ field' = [field EXCEPT ![a] = [f \in Field |-> Null], ![root[req.dest]] = [f \in Field |-> a]]
    BY <1>3 DEF Link
  <2>2. CASE \E v \in Obj \cup {Null} : field' = [field EXCEPT ![a] = [f \in Field |-> v]]
    BY <1>1, <1>2, <2>2 DEF TypeOK
  <2>3. CASE field' = [field EXCEPT ![a] = [f \in Field |-> Null], ![root[req.dest]] = [f \in Field |-> a]]
    BY <1>1, <1>2, <2>3 DEF TypeOK
  <2> QED
    BY <2>1, <2>2, <2>3
<1>6. root' \in [Root -> Obj \cup {Null}]
  BY <1>1, <1>2 DEF Link, TypeOK
<1>7. open' \in [Reg -> Obj \cup {Null}]
  BY <1>1, <1>2 DEF Link, TypeOK
<1>8. kind' \in [Obj -> AllKinds] /\ color' \in [Obj -> {"white", "gray", "black"}]
  BY <1>1, <1>2 DEF Link, TypeOK
<1>9. gen' \in [Obj -> {0, 1}] /\ age' \in [Obj -> 0..PromotionThreshold]
  BY <1>1, <1>2, ConfigAssumption DEF Link, TypeOK, ConfigAssumption
<1>10. req' \in Request
  BY <1>4 DEF NoReq, Request
<1>11. TypeOK'
  BY <1>1, <1>2, <1>4, <1>5, <1>6, <1>7, <1>8, <1>9, <1>10 DEF Link, TypeOK
<1>12. Control'
  BY <1>2, <1>4 DEF Link, Control, Requesting, Reserved
<1>13. Sweeping'
  BY <1>1, <1>2, <1>4 DEF Link, Sweeping, SweepTodoYoung, TypeOK
<1>14. Ages'
  BY <1>1, <1>2, ConfigAssumption DEF Link, Ages, TypeOK, ConfigAssumption
<1> QED
  BY <1>11, <1>12, <1>13, <1>14 DEF IInv

(* The size of a part of the heap is a number. *)
LEMMA OldSizeNat ==
  ASSUME NEW S \in SUBSET Obj PROVE OldSize(S) \in Nat
<1>1. IsFiniteSet({o \in S : gen[o] = 1})
  BY HeapAssumption, FS_Subset DEF HeapAssumption
<1> QED
  BY <1>1, FS_CardinalityType DEF OldSize

(* Reclaiming blocks keeps the types. *)
LEMMA WipedTypes ==
  ASSUME TypeOK, NEW S \in SUBSET Obj, Wiped(S)
  PROVE  /\ live' \subseteq live
         /\ field' \in [Obj -> [Field -> Obj \cup {Null}]]
         /\ kind' \in [Obj -> AllKinds]
BY DEF TypeOK, Wiped, AllKinds

(* The end of a major collection: no minor one is under way. *)
LEMMA SweepAllKeepsIInv ==
  ASSUME IInv, SweepAll PROVE IInv'
<1> USE DEF rememberedVars, rootVars, sweepVars
<1> DEFINE white == {o \in live : color[o] = "white"}
<1>1. TypeOK /\ Control /\ Sweeping /\ Ages
  BY DEF IInv
<1>2. live' = live \ white /\ live' \subseteq Obj
  BY <1>1 DEF SweepAll, Wiped, TypeOK
<1>3. field' \in [Obj -> [Field -> Obj \cup {Null}]] /\ kind' \in [Obj -> AllKinds]
  <2>1. white \in SUBSET Obj /\ Wiped(white)
    BY <1>1 DEF SweepAll, TypeOK
  <2> QED
    BY <1>1, <2>1, WipedTypes
<1>4. gen' \in [Obj -> {0, 1}] /\ \A o \in live' : gen'[o] = gen[o]
  BY <1>1, <1>2 DEF SweepAll, TypeOK
<1>5. age' \in [Obj -> 0..PromotionThreshold]
  BY <1>1, ConfigAssumption DEF SweepAll, TypeOK, ConfigAssumption
<1>6. oldBytes' \in Nat
  BY <1>2, OldSizeNat DEF SweepAll
<1>7. color' \in [Obj -> {"white", "gray", "black"}]
  BY <1>1 DEF SweepAll, Whitened, TypeOK
<1>8. TypeOK'
  BY <1>1, <1>2, <1>3, <1>4, <1>5, <1>6, <1>7 DEF SweepAll, TypeOK
<1>9. Control'
  BY <1>1, <1>2 DEF SweepAll, Control, Requesting, Reserved, TypeOK
<1>10. Sweeping'
  BY <1>1, <1>2, <1>4 DEF SweepAll, Sweeping, SweepTodoYoung
<1>11. Ages'
  <2> SUFFICES ASSUME NEW o \in Obj, gen'[o] = 0 PROVE age'[o] < PromotionThreshold
    BY DEF Ages
  <2>1. CASE o \in white
    BY <1>1, <2>1, ConfigAssumption DEF SweepAll, TypeOK, ConfigAssumption
  <2>2. CASE o \notin white
    BY <1>1, <2>2 DEF SweepAll, Ages, TypeOK
  <2> QED
    BY <2>1, <2>2
<1> QED
  BY <1>8, <1>9, <1>10, <1>11 DEF IInv
(* The beginning and the end of a minor collection *)
LEMMA BeginMinorKeepsIInv ==
  ASSUME IInv, BeginMinor PROVE IInv'
<1> USE DEF rootVars, controlVars, heapVars, InMinor
<1>1. TypeOK /\ Control /\ Sweeping /\ Ages
  BY DEF IInv
<1>2. color' \in [Obj -> {"white", "gray", "black"}]
  BY <1>1 DEF BeginMinor, Whitened, TypeOK
<1>3. TypeOK'
  BY <1>1, <1>2 DEF BeginMinor, TypeOK
<1>4. Control'
  BY <1>1 DEF BeginMinor, Control, Requesting, Reserved
<1>5. Sweeping'
  BY <1>1 DEF BeginMinor, Sweeping, SweepTodoYoung
<1>6. Ages'
  BY <1>1 DEF BeginMinor, Ages
<1> QED
  BY <1>3, <1>4, <1>5, <1>6 DEF IInv

LEMMA FinishMinorKeepsIInv ==
  ASSUME IInv, FinishMinor PROVE IInv'
<1> USE DEF rootVars, rememberedVars, markVars, heapVars, InMinor
<1>1. TypeOK /\ Control /\ Sweeping /\ Ages
  BY DEF IInv
<1>2. TypeOK'
  BY <1>1 DEF FinishMinor, TypeOK
<1>3. Control'
  BY <1>1 DEF FinishMinor, Control, Requesting, Reserved
<1>4. Sweeping'
  BY <1>1 DEF FinishMinor, Sweeping, SweepTodoYoung
<1>5. Ages'
  BY <1>1 DEF FinishMinor, Ages
<1> QED
  BY <1>2, <1>3, <1>4, <1>5 DEF IInv

(* The minor sweep: its object is young, so its age is below the threshold  *)
(* and one more is still within it.                                         *)
LEMMA SweepYoungKeepsIInv ==
  ASSUME IInv, NEW o \in Obj, SweepYoung(o) PROVE IInv'
<1> USE DEF rootVars, controlVars, InMinor
<1>1. TypeOK /\ Control /\ Sweeping /\ Ages
  BY DEF IInv
<1>2. /\ o \in live /\ gen[o] = 0 /\ age[o] \in Nat /\ age[o] < PromotionThreshold
      /\ PromotionThreshold \in Nat \ {0}
  BY <1>1, ConfigAssumption DEF SweepYoung, Sweeping, SweepTodoYoung, Ages, TypeOK, ConfigAssumption
<1>3. young' \subseteq (young \cup sweepTodo)
  BY DEF SweepYoung, SweepFree, SweepPromote, SweepKeep, Unlinked
<1>4. o \notin young' \/ SweepKeep(o)
  BY DEF SweepYoung, SweepFree, SweepPromote, Unlinked
<1>5. CASE SweepFree(o)
  <2>1. live' = live \ {o}
    BY <1>5 DEF SweepFree, Wiped
  <2>2. field' \in [Obj -> [Field -> Obj \cup {Null}]] /\ kind' \in [Obj -> AllKinds]
    BY <1>1, <1>5, WipedTypes DEF SweepFree
  <2>3. age' \in [Obj -> 0..PromotionThreshold]
    BY <1>1, <1>2, <1>5 DEF SweepFree, TypeOK
  <2>4. TypeOK'
    BY <1>1, <1>3, <1>5, <2>1, <2>2, <2>3 DEF SweepYoung, SweepFree, TypeOK
  <2>5. Control'
    BY <1>1, <1>5, <2>1 DEF SweepYoung, Control, Requesting, Reserved
  <2>6. Sweeping'
    BY <1>1, <1>3, <1>4, <1>5, <2>1 DEF SweepYoung, SweepFree, SweepKeep, Sweeping, SweepTodoYoung
  <2>7. Ages'
    BY <1>1, <1>2, <1>5 DEF SweepFree, Ages, TypeOK
  <2> QED
    BY <2>4, <2>5, <2>6, <2>7 DEF IInv
<1>6. CASE SweepPromote(o)
  <2>1. gen' \in [Obj -> {0, 1}] /\ \A x \in Obj \ {o} : gen'[x] = gen[x]
    BY <1>1, <1>6 DEF SweepPromote, TypeOK
  <2>2. age' \in [Obj -> 0..PromotionThreshold]
    BY <1>1, <1>2, <1>6 DEF SweepPromote, TypeOK
  <2>3. TypeOK'
    BY <1>1, <1>3, <1>6, <2>1, <2>2 DEF SweepYoung, SweepPromote, EnqueuePromoted, TypeOK
  <2>4. Control'
    BY <1>1, <1>6 DEF SweepYoung, SweepPromote, Control, Requesting, Reserved
  <2>5. Sweeping'
    BY <1>1, <1>3, <1>4, <1>6, <2>1 DEF SweepYoung, SweepPromote, SweepKeep, Sweeping, SweepTodoYoung, TypeOK
  <2>6. Ages'
    BY <1>1, <1>6 DEF SweepPromote, Ages, TypeOK
  <2> QED
    BY <2>3, <2>4, <2>5, <2>6 DEF IInv
<1>7. CASE SweepKeep(o)
  <2>1. age[o] + 1 < PromotionThreshold
    BY <1>2, <1>7 DEF SweepKeep, Promotes
  <2>2. age' \in [Obj -> 0..PromotionThreshold] /\ age'[o] < PromotionThreshold
    BY <1>1, <1>2, <1>7, <2>1 DEF SweepKeep, TypeOK
  <2>3. TypeOK'
    BY <1>1, <1>7, <2>2 DEF SweepYoung, SweepKeep, TypeOK
  <2>4. Control'
    BY <1>1, <1>7 DEF SweepYoung, SweepKeep, Control, Requesting, Reserved
  <2>5. Sweeping'
    BY <1>1, <1>7 DEF SweepYoung, SweepKeep, Sweeping, SweepTodoYoung
  <2>6. Ages'
    BY <1>1, <1>7, <2>2 DEF SweepKeep, Ages, TypeOK
  <2> QED
    BY <2>3, <2>4, <2>5, <2>6 DEF IInv
<1> QED
  BY <1>5, <1>6, <1>7 DEF SweepYoung

-----------------------------------------------------------------------------
LEMMA InitIInv == Init => IInv
<1> SUFFICES ASSUME Init PROVE IInv
  OBVIOUS
<1>1. NoReq \in Request
  BY DEF NoReq, Request
<1>2. PromotionThreshold \in Nat \ {0} /\ WorkBudget \in Nat \ {0}
  BY ConfigAssumption DEF ConfigAssumption
<1>3. TypeOK
  <2>1. 0 \in 0..PromotionThreshold /\ 0 \in 0..WorkBudget
    BY <1>2
  <2>2. field \in [Obj -> [Field -> Obj \cup {Null}]]
    BY DEF Init
  <2> QED
    BY <1>1, <2>1, <2>2 DEF Init, TypeOK, AllKinds
<1>4. Control /\ Sweeping
  BY DEF Init, Control, Requesting, Reserved, Sweeping, SweepTodoYoung
<1>5. Ages
  BY <1>2 DEF Init, Ages
<1> QED
  BY <1>3, <1>4, <1>5 DEF IInv

LEMMA NextStepping ==
  ASSUME Control, Stepping, [Next]_vars PROVE Stepping'
<1> USE DEF controlVars, phaseVars, Script
<1>1. CASE Mutate \/ Allocate
  <2>1. CASE \/ \E d \in Reg : Clear(d)
             \/ \E d \in Reg, s \in Root : Move(d, s)
             \/ \E d, s \in Reg, f \in Field : Load(d, s, f) \/ Store(d, f, s)
             \/ \E t, s \in Reg : SumInit(t, s)
             \/ \E g \in Glob, s \in Reg : SetGlobal(g, s)
    BY <2>1 DEF Clear, Move, Load, Store, SumInit, SetGlobal, Stepping
  <2>2. CASE \/ \E d, c \in Reg, u \in Obj : GetUpval(d, c, u) \/ SetUpval(c, u, d)
             \/ \E R \in SUBSET Reg : CloseUpvalues(R)
    BY <2>2 DEF GetUpval, SetUpval, CloseUpvalues, Stepping
  <2>3. ASSUME NEW k, NEW d, NEW from, NEW init, BeginAlloc(k, d, from, init) PROVE Stepping'
    BY <2>3 DEF BeginAlloc, Stepping
  <2>4. CASE Allocate
    BY <2>3, <2>4 DEF Allocate, AllocPlain, AllocString, AllocClosure, AllocView
  <2> QED
    BY <1>1, <2>1, <2>2, <2>4 DEF Mutate
<1>2. CASE Call \/ Reserve \/ OnAllocation \/ MarkStepReturns \/ Link \/ SweepAll \/ CompleteMajorReturns
  BY <1>2 DEF Stepping, Control, Call, CollectMajor, CollectMinor, Reserve, OnAllocation, MarkStepReturns,
     Link, SweepAll, CompleteMajorReturns, InMinor
<1>3. CASE BeginMinor \/ MinorMarkRoots \/ ScanRememberedDone \/ TraceGrayDone \/ FinishMinor \/ StepReturns
  BY <1>3 DEF Stepping, BeginMinor, MinorMarkRoots, ScanRememberedDone, TraceGrayDone, FinishMinor,
     StepReturns, InMinor
<1>4. CASE \E o \in Obj : \/ MarkStep(o) \/ Drain(o) \/ CompleteMajor(o)
                          \/ ScanRemembered(o) \/ TraceGray(o) \/ SweepYoung(o)
  BY <1>4 DEF Stepping, MarkStep, Drain, CompleteMajor, ScanRemembered, TraceGray, SweepYoung
<1>5. CASE UNCHANGED vars
  BY <1>5 DEF vars, Stepping
<1> QED
  BY <1>1, <1>2, <1>3, <1>4, <1>5 DEF Next, Collector

LEMMA NextIInv ==
  ASSUME SeparateEntryPoints, Stepping, IInv, [Next]_vars PROVE IInv'
<1>0. CollectMajor => minorPhase = "idle"
  BY DEF CollectMajor, SeparateEntryPoints, Stepping
<1>1. CASE Mutate
  BY <1>1, MutateKeepsIInv
<1>2. CASE Allocate
  BY <1>2, AllocateKeepsIInv
<1>3. CASE Call
  BY <1>0, <1>3, ControlStepKeepsIInv
<1>4. CASE Collector
  <2>1. CASE Reserve \/ OnAllocation \/ MarkStepReturns \/ CompleteMajorReturns \/ StepReturns
    BY <1>0, <2>1, ControlStepKeepsIInv
  <2>2. CASE MinorMarkRoots \/ ScanRememberedDone \/ TraceGrayDone \/ \E o \in Obj : ScanRemembered(o)
    BY <2>2, MinorMarkingKeepsIInv
  <2>3. CASE \E o \in Obj : MarkStep(o) \/ Drain(o) \/ CompleteMajor(o) \/ TraceGray(o)
    BY <2>3, TracingKeepsIInv
  <2> QED
    BY <1>4, <2>1, <2>2, <2>3, LinkKeepsIInv, SweepAllKeepsIInv, BeginMinorKeepsIInv,
       FinishMinorKeepsIInv, SweepYoungKeepsIInv DEF Collector
<1>5. CASE UNCHANGED vars
  BY <1>5 DEF vars, heapVars, rootVars, markVars, rememberedVars, sweepVars, phaseVars, controlVars,
     IInv, TypeOK, Control, Requesting, Reserved, Sweeping, SweepTodoYoung, Ages
<1> QED
  BY <1>1, <1>2, <1>3, <1>4, <1>5 DEF Next

LEMMA AlwaysIInv ==
  ASSUME SeparateEntryPoints PROVE Spec => []IInv
<1>1. Init => IInv /\ Stepping
  BY InitIInv DEF Init, Stepping
<1>2. IInv /\ Stepping /\ [Next]_vars => (IInv /\ Stepping)'
  BY NextIInv, NextStepping DEF IInv
<1> QED
  BY <1>1, <1>2, PTL DEF Spec

(* Every state of the heap and of the collector is well formed; in          *)
(* particular the age of an object never passes the promotion threshold.    *)
THEOREM TypeCorrect ==
  ASSUME SeparateEntryPoints PROVE Spec => []TypeOK
<1>1. IInv => TypeOK
  BY DEF IInv
<1> QED
  BY <1>1, AlwaysIInv, PTL

(* Whatever script runs and allocates between the steps of a minor          *)
(* collection, what is left for its sweep is neither freed nor promoted by  *)
(* anything else: the major collections that allocation starts and          *)
(* completes never sweep in the middle of a minor one.  A host that calls   *)
(* collect_major there is left out: it does meet the minor sweep.           *)
THEOREM SweepsDoNotMeet ==
  ASSUME SeparateEntryPoints PROVE Spec => []SweepTodoYoung
<1>1. IInv => SweepTodoYoung
  BY DEF IInv, Sweeping
<1> QED
  BY <1>1, AlwaysIInv, PTL

-----------------------------------------------------------------------------
(* Open upvalues                                                            *)

(* A sweep may come to u before the roots are looked at again. *)
Due(u) ==
  \/ pc = "finish"
  \/ u \in sweepTodo /\ minorPhase \in {"scan_remembered", "trace_gray", "sweep_promote"}

OpenSafe == \A r \in Reg : open[r] # Null =>
  /\ open[r] \in live
  /\ Due(open[r]) => color[open[r]] # "white"

LEMMA OpenTypes ==
  ASSUME TypeOK, NEW r \in Reg, open[r] # Null PROVE open[r] \in Obj
BY DEF TypeOK

(* A step that frees and whitens nothing that is open, and begins no sweep. *)
LEMMA OpenSafeKept ==
  ASSUME IInv, OpenSafe, UNCHANGED open,
         \A r \in Reg : open[r] # Null =>
           /\ open[r] \in live'
           /\ Due(open[r])' => Due(open[r])
           /\ Due(open[r])' /\ color[open[r]] # "white" => color'[open[r]] # "white"
  PROVE  OpenSafe'
BY DEF OpenSafe, Due

LEMMA ShadingWhitensNone ==
  ASSUME TypeOK, NEW S, ShadeGray(S)
  PROVE  \A x \in Obj : /\ color[x] # "white" => color'[x] # "white"
                        /\ x \in S => color'[x] # "white"
BY DEF TypeOK, ShadeGray, Shaded

LEMMA PoppingWhitensNone ==
  ASSUME TypeOK, NEW o \in Obj, NEW youngOnly \in BOOLEAN, PopGray(o, youngOnly)
  PROVE  \A x \in Obj : color[x] # "white" => color'[x] # "white"
BY DEF TypeOK, PopGray

(* Open upvalues are roots of every marking. *)
LEMMA OpenAreTargets ==
  ASSUME OpenSafe, TypeOK, NEW r \in Reg, open[r] # Null
  PROVE  open[r] \in RootTargets(FALSE) /\ (gen[open[r]] = 0 => open[r] \in RootTargets(TRUE))
BY DEF OpenSafe, RootTargets, RootValues

LEMMA ScriptKeepsOpenSafe ==
  ASSUME IInv, OpenSafe, Mutate \/ Allocate PROVE OpenSafe'
<1> USE DEF sweepVars, phaseVars, rootVars, markVars, controlVars
<1>1. TypeOK
  BY DEF IInv
<1>2. ASSUME Script, UNCHANGED open, pc' \in {"run", "alloc"},
             \/ UNCHANGED color
             \/ \E S : ShadeGray(S)
      PROVE  OpenSafe'
  <2>1. \A x \in Obj : color[x] # "white" => color'[x] # "white"
    BY <1>1, <1>2, ShadingWhitensNone
  <2> QED
    BY <1>1, <1>2, <2>1, OpenSafeKept, OpenTypes DEF Script, Due, OpenSafe
<1>3. CASE \E R \in SUBSET Reg : CloseUpvalues(R)
  <2>1. PICK R \in SUBSET Reg : CloseUpvalues(R)
    BY <1>3
  <2>2. UNCHANGED <<live, color, sweepTodo, minorPhase, pc>> /\ \A r \in Reg : open'[r] \in {Null, open[r]}
    BY <1>1, <2>1 DEF CloseUpvalues, Script, TypeOK
  <2> QED
    BY <2>2 DEF OpenSafe, Due
<1>4. CASE \E d \in Reg : Clear(d)
  BY <1>2, <1>4 DEF Clear, Script
<1>5. CASE \E d \in Reg, s \in Root : Move(d, s)
  BY <1>2, <1>5 DEF Move, Script
<1>6. CASE \E d, s \in Reg, f \in Field : Load(d, s, f) \/ Store(d, f, s)
  BY <1>2, <1>6 DEF Load, Store, Script, WriteBarrier
<1>7. CASE \E t, s \in Reg : SumInit(t, s)
  BY <1>2, <1>7 DEF SumInit, Script
<1>8. CASE \E g \in Glob, s \in Reg : SetGlobal(g, s)
  BY <1>2, <1>8 DEF SetGlobal, Script, WriteBarrierRoot
<1>9. CASE \E d, c \in Reg, u \in Obj : GetUpval(d, c, u) \/ SetUpval(c, u, d)
  BY <1>2, <1>9 DEF GetUpval, SetUpval, Script, WriteBarrier
<1>10. ASSUME NEW k, NEW d, NEW from, NEW init, BeginAlloc(k, d, from, init) PROVE OpenSafe'
  BY <1>2, <1>10 DEF BeginAlloc, Script
<1>11. CASE Allocate
  BY <1>10, <1>11 DEF Allocate, AllocPlain, AllocString, AllocView, AllocClosure
<1> QED
  BY <1>3, <1>4, <1>5, <1>6, <1>7, <1>8, <1>9, <1>11 DEF Mutate

(* The steps of a marking *)
LEMMA MarkingKeepsOpenSafe ==
  ASSUME IInv, OpenSafe, NEW o \in Obj,
         MarkStep(o) \/ Drain(o) \/ CompleteMajor(o) \/ TraceGray(o) \/ ScanRemembered(o)
  PROVE  OpenSafe'
<1> USE DEF sweepVars, phaseVars, rootVars, controlVars, heapVars, InMinor
<1>1. TypeOK
  BY DEF IInv
<1>2. \A x \in Obj : color[x] # "white" => color'[x] # "white"
  <2>1. CASE \E youngOnly \in BOOLEAN : PopGray(o, youngOnly)
    BY <1>1, <2>1, PoppingWhitensNone
  <2>2. CASE ScanRemembered(o)
    BY <1>1, <2>2 DEF ScanRemembered, TypeOK
  <2> QED
    BY <2>1, <2>2 DEF MarkStep, Drain, CompleteMajor, TraceGray
<1>3. UNCHANGED <<live, open, pc, sweepTodo, minorPhase>>
  BY DEF MarkStep, Drain, CompleteMajor, TraceGray, ScanRemembered
<1> QED
  BY <1>1, <1>2, <1>3, OpenSafeKept, OpenTypes DEF Due, OpenSafe

(* The steps that scan the roots: what is open is not white after them. *)
LEMMA RootScanKeepsOpenSafe ==
  ASSUME IInv, OpenSafe, MarkStepReturns \/ CompleteMajorReturns \/ MinorMarkRoots \/ CollectMajor
  PROVE  OpenSafe'
<1> USE DEF sweepVars, phaseVars, rootVars, controlVars, heapVars, markVars, InMinor
<1>1. TypeOK /\ Sweeping
  BY DEF IInv
<1>2. UNCHANGED <<live, gen, open, sweepTodo>>
  BY DEF MarkStepReturns, CompleteMajorReturns, MinorMarkRoots, CollectMajor
<1>3. CASE MarkStepReturns /\ gray # {}
  <2>1. UNCHANGED <<color, minorPhase>> /\ pc' = "link"
    BY <1>3 DEF MarkStepReturns
  <2> QED
    BY <1>2, <2>1, OpenSafeKept DEF Due, OpenSafe
<1>4. CASE Rescan
  <2>1. \A r \in Reg : open[r] # Null => color'[open[r]] # "white"
    BY <1>1, <1>4, OpenAreTargets, OpenTypes, ShadingWhitensNone DEF Rescan
  <2> QED
    BY <1>2, <2>1 DEF OpenSafe
<1>5. CASE MinorMarkRoots
  <2>1. ASSUME NEW r \in Reg, open[r] # Null, open[r] \in sweepTodo PROVE color'[open[r]] # "white"
    <3>1. gen[open[r]] = 0
      BY <1>1, <2>1 DEF Sweeping, SweepTodoYoung
    <3> QED
      BY <1>1, <1>5, <2>1, <3>1, OpenAreTargets, OpenTypes, ShadingWhitensNone DEF MinorMarkRoots
  <2>2. pc' = "minor"
    BY <1>5 DEF MinorMarkRoots
  <2> QED
    BY <1>2, <2>1, <2>2 DEF OpenSafe, Due
<1>6. CASE CollectMajor
  <2>1. ASSUME NEW r \in Reg, open[r] # Null PROVE color'[open[r]] # "white"
    <3>1. open[r] \in RootTargets(FALSE) /\ open[r] \in live /\ open[r] \in Obj
      BY <1>1, <2>1, OpenAreTargets, OpenTypes DEF OpenSafe
    <3> QED
      BY <1>6, <3>1 DEF CollectMajor, Shaded, Whitened
  <2> QED
    BY <1>2, <2>1 DEF OpenSafe
<1> QED
  BY <1>3, <1>4, <1>5, <1>6 DEF MarkStepReturns, CompleteMajorReturns

(* An upvalue opens at an address that no sweep knows yet. *)
LEMMA LinkKeepsOpenSafe ==
  ASSUME IInv, OpenSafe, Link PROVE OpenSafe'
<1> USE DEF sweepVars, phaseVars
<1>1. TypeOK /\ Control /\ Sweeping
  BY DEF IInv
<1>2. req.addr \in Obj /\ req.addr \notin live /\ live' = live \cup {req.addr}
  BY <1>1 DEF Link, Control, Reserved
<1>3. UNCHANGED <<sweepTodo, minorPhase>> /\ pc' # "finish"
  BY DEF Link
<1>4. \A r \in Reg : open'[r] = open[r] \/ open'[r] = req.addr
  BY <1>1 DEF Link, TypeOK
<1>5. \A x \in Obj : x # req.addr => color'[x] = color[x]
  BY <1>1 DEF Link, TypeOK
<1>6. req.addr \notin sweepTodo
  BY <1>1, <1>2 DEF Sweeping, SweepTodoYoung
<1> SUFFICES ASSUME NEW r \in Reg, open'[r] # Null
             PROVE  open'[r] \in live' /\ (Due(open[r])' => color'[open'[r]] # "white")
  BY DEF OpenSafe
<1>7. CASE open'[r] = req.addr
  BY <1>2, <1>3, <1>6, <1>7 DEF Due
<1>8. CASE open'[r] = open[r] /\ open[r] # req.addr
  BY <1>1, <1>2, <1>3, <1>5, <1>8, OpenTypes DEF OpenSafe, Due
<1> QED
  BY <1>4, <1>7, <1>8

(* The sweeps: what they free is white, and nothing that is open is. *)
LEMMA SweepsKeepOpenSafe ==
  ASSUME IInv, OpenSafe, SweepAll \/ \E o \in Obj : SweepYoung(o) PROVE OpenSafe'
<1> USE DEF rootVars, controlVars, sweepVars, InMinor
<1>1. TypeOK /\ Sweeping
  BY DEF IInv
<1>2. CASE SweepAll
  <2>1. pc = "finish" /\ UNCHANGED <<open, sweepTodo, minorPhase>> /\ pc' # "finish"
        /\ live' = live \ {x \in live : color[x] = "white"}
    BY <1>2 DEF SweepAll, Wiped
  <2>2. minorPhase = "idle"
    BY <1>1, <2>1 DEF Sweeping
  <2> QED
    BY <2>1, <2>2 DEF OpenSafe, Due
<1>3. ASSUME NEW o \in Obj, SweepYoung(o) PROVE OpenSafe'
  <2>1. /\ pc = "minor" /\ minorPhase = "sweep_promote" /\ o \in sweepTodo
        /\ UNCHANGED <<open, pc, minorPhase>> /\ sweepTodo' = sweepTodo \ {o}
    BY <1>3 DEF SweepYoung
  <2>2. \A x \in Obj : x # o => color'[x] = color[x]
    BY <1>1, <1>3 DEF SweepYoung, SweepFree, SweepPromote, SweepKeep, TypeOK
  <2>3. live' = live \/ (live' = live \ {o} /\ color[o] = "white")
    BY <1>3 DEF SweepYoung, SweepFree, SweepPromote, SweepKeep, Wiped
  <2>4. ASSUME NEW r \in Reg, open[r] # Null PROVE open[r] \in live'
    BY <2>1, <2>3, <2>4 DEF OpenSafe, Due
  <2> QED
    BY <1>1, <2>1, <2>2, <2>4, OpenSafeKept, OpenTypes DEF Due
<1> QED
  BY <1>2, <1>3

LEMMA NextKeepsOpenSafe ==
  ASSUME IInv, OpenSafe, [Next]_vars PROVE OpenSafe'
<1> USE DEF heapVars, rootVars, markVars, sweepVars, phaseVars, controlVars, InMinor
<1>1. TypeOK /\ Sweeping
  BY DEF IInv
<1>2. CASE CollectMinor \/ Reserve \/ StepReturns \/ FinishMinor \/ ScanRememberedDone \/ TraceGrayDone
  <2>1. UNCHANGED <<live, open, color>> /\ \A u : Due(u)' => Due(u)
    BY <1>2 DEF CollectMinor, Reserve, StepReturns, FinishMinor, ScanRememberedDone, TraceGrayDone, Due
  <2> QED
    BY <2>1, OpenSafeKept DEF OpenSafe
<1>3. CASE BeginMinor
  <2>1. UNCHANGED <<live, open>> /\ \A u : ~Due(u)'
    BY <1>3 DEF BeginMinor, Due
  <2> QED
    BY <2>1, OpenSafeKept DEF OpenSafe
<1>4. CASE OnAllocation
  <2>1. UNCHANGED <<live, open, sweepTodo, minorPhase>> /\ pc' # "finish"
    BY <1>4 DEF OnAllocation
  <2>2. minorPhase # "idle" => UNCHANGED color
    BY <1>4 DEF OnAllocation, LeavesMajorAlone
  <2> QED
    BY <2>1, <2>2, OpenSafeKept DEF OpenSafe, Due
<1>5. CASE UNCHANGED vars
  BY <1>5 DEF vars, OpenSafe, Due
<1> QED
  BY <1>2, <1>3, <1>4, <1>5, ScriptKeepsOpenSafe, MarkingKeepsOpenSafe, RootScanKeepsOpenSafe,
     LinkKeepsOpenSafe, SweepsKeepOpenSafe
  DEF Next, Collector, Call

(* For every kind of object: the cell of a captured variable stays while    *)
(* its frame can still close it.  Every marking sees the open upvalues, and *)
(* a cell is new when it opens.                                             *)
THEOREM OpenUpvaluesStayLive ==
  ASSUME SeparateEntryPoints PROVE Spec => []OpenUpvaluesLive
<1>1. Init => OpenSafe
  BY DEF Init, OpenSafe
<1>2. IInv /\ OpenSafe /\ [Next]_vars => OpenSafe'
  BY NextKeepsOpenSafe
<1>3. OpenSafe => OpenUpvaluesLive
  BY DEF OpenSafe, OpenUpvaluesLive
<1> QED
  BY <1>1, <1>2, <1>3, AlwaysIInv, PTL DEF Spec

=============================================================================
