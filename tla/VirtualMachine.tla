--------------------------- MODULE VirtualMachine ---------------------------
(***************************************************************************)
(* The script virtual machine: the register file and the call frames of   *)
(* VirtualMachine.cpp, captured variables (upvalues), the gas budget and   *)
(* the error flag, and the calls from C++ into it, which nest: a native    *)
(* called by a script may run another script on the same frames.           *)
(*                                                                         *)
(* The fields of the VirtualMachine object are the record vm.  Each member *)
(* function that changes them is an operator from a machine to a machine,  *)
(* and each instruction, or entry from C++, is an action that composes     *)
(* them.  The C++ stack is runs: one record for each activation of         *)
(* execute or execute_closure, with the locals it keeps across the run.    *)
(***************************************************************************)
EXTENDS Integers, Sequences, FiniteSets, SequencesExt

CONSTANTS
  Value,          \* what a register holds
  NoValue,        \* an element of Value: the invalid Value{} of C++
  MaxUpvalues,    \* bound: the upvalues ever allocated
  MaxRegisters,   \* maximum_registers, 8192 in the code
  MaxFrames,      \* the limit of push_frame, 64 in the code
  MaxRuns,        \* bound: nesting of C++ activations
  Function,       \* bound: the functions, by what the machine reads of them
  Captured,       \* bound: the registers of captured variables
  GasLimit,       \* bound: the gas limits of calls, 0 for none
  InitGas,        \* default_gas_limit, which a module __init gets
  Kind,           \* bound: the entries from C++ that are exercised
  None            \* no register, no address

ASSUME VMAssumption ==
  /\ NoValue \in Value
  /\ MaxRegisters \in Nat \ {0} /\ MaxFrames \in Nat /\ MaxRuns \in Nat /\ MaxUpvalues \in Nat
  /\ Function \subseteq [registers : Nat \ {0}, params : Nat]
  /\ \A f \in Function : f.params <= f.registers
  /\ Captured \subseteq Nat
  /\ GasLimit \subseteq Nat /\ InitGas \in Nat \ {0}
  /\ None \notin Int
  /\ Kind \subseteq {"compiled", "direct", "init"}

VARIABLES
  vm,         \* the fields of VirtualMachine
  runs,       \* the C++ activations of execute, the innermost last
  closures    \* the closures made so far, each the sequence of its upvalues

vars == <<vm, runs, closures>>

Upvalue == 1 .. MaxUpvalues    \* in the order of allocation
Register == 0 .. MaxRegisters - 1
Address == Register \cup {None}

Frame ==
  [base : Nat, function : Function, return : Nat, closure : Seq(Upvalue), open : SUBSET Upvalue]

Machine ==
  [registers : [Register -> Value], frames : Seq(Frame), stackTop : Nat, currentBase : Nat,
   failed : BOOLEAN, gasEnabled : BOOLEAN, gas : Nat,
   location : [Upvalue -> Address],     \* &registers_[i], or None when it is closed or unused
   closed : [Upvalue -> Value], made : 0 .. MaxUpvalues]

(* What execute keeps on the C++ stack: the depth at entry, register 0 of *)
(* the frame it interrupts, for a nested __init the budget it interrupts, *)
(* and the destination register of the native or operator in progress.    *)
Budget == {<< >>} \cup (BOOLEAN \X Nat)
Run ==
  [kind : Kind, entry : Nat, saved0 : Value, budget : Budget, native : Nat \cup {None}]

(***************************************************************************)
(* The member functions of VirtualMachine                                  *)
(***************************************************************************)
Depth(m) == Len(m.frames)
TopFrame(m) == m.frames[Len(m.frames)]

Reg(m, r) == m.registers[m.currentBase + r]
SetReg(m, r, v) == [m EXCEPT !.registers[m.currentBase + r] = v]

Fail(m) == [m EXCEPT !.failed = TRUE]

(* Mutant of Affords: the budget is not compared with the cost. *)
AffordsAny(m) == TRUE

Affords(m) == m.gasEnabled => m.gas >= 1
ConsumeGas(m) ==
  IF ~m.gasEnabled THEN m
  ELSE IF Affords(m) THEN [m EXCEPT !.gas = m.gas - 1]
  ELSE Fail([m EXCEPT !.gas = 0])

InitBudget(m, limit) == [m EXCEPT !.gasEnabled = limit > 0, !.gas = limit]

(* close_upvalues takes the variables of a set of upvalues out of the      *)
(* registers.                                                              *)
CloseUpvalues(m, U) ==
  [m EXCEPT !.closed = [u \in Upvalue |-> IF u \in U THEN m.registers[m.location[u]] ELSE m.closed[u]],
            !.location = [u \in Upvalue |-> IF u \in U THEN None ELSE m.location[u]]]

(* Abstraction: no instruction reads a register that its function has not  *)
(* written, so what is left above stack_top_ is not kept.                  *)
CutTo(m, top) ==
  [m EXCEPT !.stackTop = top, !.registers = [i \in Register |-> IF i < top THEN @[i] ELSE NoValue]]

Reset(m) ==
  LET closing == CloseUpvalues(m, UNION {m.frames[i].open : i \in 1 .. Depth(m)})
  IN  [CutTo(closing, 0) EXCEPT !.frames = << >>, !.failed = FALSE,
                      !.gasEnabled = FALSE, !.gas = 0, !.currentBase = 0]

(* push_frame does not look at failed_: an entry from C++ after a failure *)
(* leaves its frame behind.                                                *)
PushFrame(m, function, return, closure) ==
  LET paid == ConsumeGas(m)
      base == m.stackTop
  IN  IF ~Affords(m) THEN paid
      ELSE IF Depth(m) >= MaxFrames \/ base + function.registers > MaxRegisters THEN Fail(paid)
      ELSE [paid EXCEPT !.stackTop = base + function.registers, !.currentBase = base,
                        !.frames = Append(m.frames, [base |-> base, function |-> function, return |-> return,
                                                     closure |-> closure, open |-> {}])]

(* Mutant of PopFrame: the upvalues of the frame stay open. *)
PopFrameOpen(m) ==
  LET rest == Front(m.frames)
  IN  [CutTo(m, TopFrame(m).base) EXCEPT
         !.frames = rest, !.currentBase = IF rest = << >> THEN 0 ELSE Last(rest).base]

PopFrame(m) ==
  LET f == TopFrame(m)
      rest == Front(m.frames)
  IN  [CutTo(CloseUpvalues(m, f.open), f.base) EXCEPT
         !.frames = rest,
         !.currentBase = IF rest = << >> THEN 0 ELSE Last(rest).base]

(* Mutant of UpvalueFor: each closure gets an upvalue of its own. *)
UpvalueForNew(m, r) == m.made + 1

(* get_or_create_upvalue for register r of the top frame *)
OpenAt(m, r) == {u \in TopFrame(m).open : m.location[u] = m.currentBase + r}
UpvalueFor(m, r) == IF OpenAt(m, r) # {} THEN CHOOSE u \in OpenAt(m, r) : TRUE ELSE m.made + 1

Capture(m, u, r) ==
  IF u <= m.made THEN m
  ELSE [m EXCEPT !.made = u, !.location[u] = m.currentBase + r,
                 !.frames[Depth(m)].open = @ \cup {u}]

Read(m, u) == IF m.location[u] = None THEN m.closed[u] ELSE m.registers[m.location[u]]
Write(m, u, v) ==
  IF m.location[u] = None THEN [m EXCEPT !.closed[u] = v] ELSE [m EXCEPT !.registers[m.location[u]] = v]

(***************************************************************************)
(* Entries from C++                                                        *)
(***************************************************************************)
Top == runs[Len(runs)]
InNative == runs # << >> /\ Top.native # None
FromHost == runs = << >>

(* The start of execute, and for __init of execute_module_init: nothing is *)
(* reset while frames are active.                                          *)
Prologue(m, kind, limit) ==
  IF m.frames = << >> THEN InitBudget(Reset(m), limit)
  ELSE IF kind = "init" THEN InitBudget(m, limit)
  ELSE m

(* Mutants of Epilogue: a failure is forgotten, its frames are not; only a *)
(* call that found no frames resets.                                       *)
EpilogueForgets(m, run) ==
  IF run.kind = "init" /\ run.entry > 0
  THEN [m EXCEPT !.gasEnabled = run.budget[1], !.gas = run.budget[2]]
  ELSE IF run.kind = "compiled" /\ m.failed THEN [m EXCEPT !.failed = FALSE]
  ELSE m
EpilogueTopOnly(m, run) ==
  IF run.kind = "init" /\ run.entry > 0
  THEN [m EXCEPT !.gasEnabled = run.budget[1], !.gas = run.budget[2]]
  ELSE IF run.kind = "compiled" /\ m.failed /\ run.entry = 0 THEN Reset(m)
  ELSE m

(* What follows execute in its caller: execute_module_init puts the budget *)
(* back, execute_compiled reports a failure and resets.                    *)
Epilogue(m, run) ==
  IF run.kind = "init" /\ run.entry > 0
  THEN [m EXCEPT !.gasEnabled = run.budget[1], !.gas = run.budget[2]]
  ELSE IF run.kind = "compiled" /\ m.failed THEN Reset(m)
  ELSE m

NewRun(kind) ==
  [kind |-> kind, entry |-> Depth(vm),
   saved0 |-> IF vm.frames = << >> THEN NoValue ELSE Reg(vm, 0),
   budget |-> IF kind = "init" /\ vm.frames # << >> THEN <<vm.gasEnabled, vm.gas>> ELSE << >>,
   native |-> None]

(* A call that fails before its first instruction: unresolved references, *)
(* a module that does not verify, an argument count.  References that are  *)
(* resolved only now, those of a generic that could not be instantiated    *)
(* earlier, may load a module between Prologue and PushFrame: left out.    *)
Refused(kind, limit) ==
  /\ vm' = Epilogue(Fail(Prologue(vm, kind, limit)), NewRun(kind))
  /\ UNCHANGED runs

Entered(kind, limit, function, closure, args) ==
  LET pushed == PushFrame(Prologue(vm, kind, limit), function, 0, closure)
  IN  IF pushed.failed
      THEN /\ vm' = Epilogue(pushed, NewRun(kind))
           /\ UNCHANGED runs
      ELSE /\ vm' = [pushed EXCEPT !.registers =
                       [i \in Register |-> IF i - pushed.currentBase \in 0 .. Len(args) - 1
                                           THEN args[i - pushed.currentBase + 1] ELSE @[i]]]
           /\ runs' = Append(runs, NewRun(kind))

MayEnter == (FromHost \/ InNative) /\ Len(runs) < MaxRuns
Args(f) == [1 .. f.params -> Value]

(* Runtime::execute_compiled *)
ExecuteCompiled ==
  /\ "compiled" \in Kind
  /\ MayEnter
  /\ \E limit \in GasLimit :
       \/ Refused("compiled", limit)
       \/ \E f \in Function : \E args \in Args(f) : Entered("compiled", limit, f, << >>, args)
  /\ UNCHANGED closures

(* Runtime::call_closure, which the natives of arrays use, and without a  *)
(* closure the script operators of a type, which call execute.             *)
ExecuteDirect ==
  /\ "direct" \in Kind
  /\ MayEnter
  /\ \/ Refused("direct", InitGas)
     \/ \E f \in Function, c \in closures \cup {<< >>} : \E args \in Args(f) :
          Entered("direct", InitGas, f, c, args)
  /\ UNCHANGED closures

(* Runtime::get_or_compile_module runs the __init of a module that is not *)
(* in the cache; there is always another one to load.                      *)
LoadModule ==
  /\ "init" \in Kind
  /\ MayEnter
  /\ \E f \in Function : f.params = 0 /\ Entered("init", InitGas, f, << >>, << >>)
  /\ UNCHANGED closures

(* Runtime::reset_error *)
ResetError ==
  /\ FromHost
  /\ vm' = Reset(vm)
  /\ UNCHANGED <<runs, closures>>

(***************************************************************************)
(* The instructions                                                        *)
(***************************************************************************)
(* DISPATCH leaves the loop when the machine failed or the entry frame is *)
(* gone.                                                                   *)
RunOver == vm.failed \/ Depth(vm) <= Top.entry
Executing == runs # << >> /\ ~InNative /\ ~RunOver

Locals == 0 .. TopFrame(vm).function.registers - 1

(* Every instruction that computes a value into a register *)
Assign ==
  /\ Executing
  /\ \E r \in Locals, v \in Value : vm' = SetReg(vm, r, v)
  /\ UNCHANGED <<runs, closures>>

(* Every instruction that fails *)
Raise ==
  /\ Executing
  /\ vm' = Fail(vm)
  /\ UNCHANGED <<runs, closures>>

(* JMP, JMPT, JMPF with a negative offset *)
JumpBack ==
  /\ Executing
  /\ vm' = ConsumeGas(vm)
  /\ UNCHANGED <<runs, closures>>

(* setup_script_call: the arguments are the registers after the destination *)
ScriptCall(dest, function, closure) ==
  LET pushed == PushFrame(vm, function, dest, closure)
      Arg(i) == i - pushed.currentBase
  IN  vm' = IF pushed.failed THEN pushed
            ELSE [pushed EXCEPT !.registers =
                    [i \in Register |-> IF Arg(i) \in 0 .. function.params - 1
                                        THEN Reg(vm, dest + 1 + Arg(i)) ELSE @[i]]]

(* CALL, CALLEXT and CALLCLOSURE *)
Call ==
  /\ Executing
  /\ \E dest \in Locals, f \in Function, c \in closures \cup {<< >>} :
       /\ dest + f.params \in Locals
       /\ ScriptCall(dest, f, c)
  /\ UNCHANGED <<runs, closures>>

(* CALLNATIVE and CALLEXT of a native, which take gas, and an operator *)
(* that a type implements by a script, which does not.                  *)
CallNative ==
  /\ Executing
  /\ \E dest \in Locals, paid \in {vm, ConsumeGas(vm)} :
       /\ vm' = paid
       /\ runs' = IF paid.failed THEN runs ELSE [runs EXCEPT ![Len(runs)].native = dest]
  /\ UNCHANGED closures

(* Runtime::fail from a native, an exception or an invalid result *)
NativeFails ==
  /\ InNative
  /\ vm' = Fail(vm)
  /\ UNCHANGED <<runs, closures>>

(* store_native_result *)
NativeReturns ==
  /\ InNative
  /\ \E v \in Value : vm' = IF vm.failed THEN vm ELSE SetReg(vm, Top.native, v)
  /\ runs' = [runs EXCEPT ![Len(runs)].native = None]
  /\ UNCHANGED closures

(* CLOSURE with one descriptor: a local register or an upvalue of the     *)
(* closure that runs.  The new closure may then be kept anywhere.          *)
MakeClosure ==
  /\ Executing
  /\ \/ \E r \in Captured \cap Locals :
        LET u == UpvalueFor(vm, r) IN
          /\ u \in Upvalue
          /\ vm' = Capture(vm, u, r)
          /\ closures' = closures \cup {<<u>>}
     \/ \E i \in DOMAIN TopFrame(vm).closure :
          /\ closures' = closures \cup {<<TopFrame(vm).closure[i]>>}
          /\ UNCHANGED vm
  /\ UNCHANGED runs

(* GETUPVAL *)
GetUpval ==
  /\ Executing
  /\ \E r \in Locals, i \in DOMAIN TopFrame(vm).closure :
       vm' = SetReg(vm, r, Read(vm, TopFrame(vm).closure[i]))
  /\ UNCHANGED <<runs, closures>>

(* SETUPVAL *)
SetUpval ==
  /\ Executing
  /\ \E r \in Locals, i \in DOMAIN TopFrame(vm).closure :
       vm' = Write(vm, TopFrame(vm).closure[i], Reg(vm, r))
  /\ UNCHANGED <<runs, closures>>

(* RET, after the CLOSEUPVALS the compiler puts before it *)
Ret ==
  /\ Executing
  /\ \E r \in Locals :
       LET popped == PopFrame(vm)
       IN  vm' = IF popped.frames # << >> THEN SetReg(popped, TopFrame(vm).return, Reg(vm, r)) ELSE popped
  /\ UNCHANGED <<runs, closures>>

(* RETVOID *)
RetVoid ==
  /\ Executing
  /\ vm' = PopFrame(vm)
  /\ UNCHANGED <<runs, closures>>

(* The end of execute and of its caller: register 0 of the interrupted     *)
(* frame, which the run used for its result, is put back.                  *)
LeaveRun ==
  /\ runs # << >> /\ ~InNative /\ RunOver
  /\ LET m == IF Top.entry > 0 /\ vm.frames # << >> THEN SetReg(vm, 0, Top.saved0) ELSE vm
     IN  vm' = Epilogue(m, Top)
  /\ runs' = Front(runs)
  /\ UNCHANGED closures

Init ==
  /\ vm = [registers |-> [i \in Register |-> NoValue], frames |-> << >>, stackTop |-> 0,
           currentBase |-> 0, failed |-> FALSE, gasEnabled |-> FALSE, gas |-> 0,
           location |-> [u \in Upvalue |-> None], closed |-> [u \in Upvalue |-> NoValue], made |-> 0]
  /\ runs = << >>
  /\ closures = {}

Enter == ExecuteCompiled \/ ExecuteDirect \/ LoadModule

Next ==
  \/ Enter \/ ResetError
  \/ Assign \/ Raise \/ JumpBack \/ Call \/ CallNative \/ NativeFails \/ NativeReturns
  \/ MakeClosure \/ GetUpval \/ SetUpval \/ Ret \/ RetVoid \/ LeaveRun

Spec == Init /\ [][Next]_vars

(***************************************************************************)
(* Properties                                                              *)
(***************************************************************************)
(* Every field has its type and a native in progress has a run. *)
TypeOK ==
  /\ vm \in Machine
  /\ runs \in Seq(Run)
  /\ closures \subseteq {<<u>> : u \in 1 .. vm.made}

(* The windows of the frames tile the registers below stack_top_ within    *)
(* the limits, and the current base is that of the last.                   *)
End(f) == f.base + f.function.registers
WindowsTile(m) ==
  /\ Depth(m) <= MaxFrames /\ m.stackTop <= MaxRegisters
  /\ \A i \in 1 .. Depth(m) : m.frames[i].base = IF i = 1 THEN 0 ELSE End(m.frames[i - 1])
  /\ m.stackTop = IF m.frames = << >> THEN 0 ELSE End(TopFrame(m))
  /\ m.currentBase = IF m.frames = << >> THEN 0 ELSE TopFrame(m).base

(* An upvalue points at a register exactly while it is in the list of a    *)
(* frame that is still there: then into the window of that frame, where no *)
(* other upvalue points.                                                   *)
UpvaluesInFrames(m) ==
  /\ \A i \in 1 .. Depth(m) : \A u \in m.frames[i].open :
       /\ u <= m.made
       /\ m.location[u] \in m.frames[i].base .. End(m.frames[i]) - 1
  /\ \A u \in Upvalue : m.location[u] # None =>
       /\ \E i \in 1 .. Depth(m) : u \in m.frames[i].open
       /\ \A w \in Upvalue : m.location[w] = m.location[u] => w = u

(* So a captured variable is never a register of a dead frame, or of *)
(* another function that runs where that frame was.                    *)
StackShape == WindowsTile(vm) /\ UpvaluesInFrames(vm)

(* Frames stay behind in the machine only after a failure that nobody has  *)
(* cleared: a call from the host that succeeds takes all of its frames     *)
(* away, whatever natives, nested calls and module loads it went through.  *)
LeftoversFailed == FromHost /\ vm.frames # << >> => vm.failed

(* execute_compiled gives the host back a machine that is ready for the    *)
(* next call, also when it found one that was not.                         *)
CompiledLeavesClean ==
  [][/\ ExecuteCompiled \/ (LeaveRun /\ Top.kind = "compiled")
     /\ runs' = << >>
     => vm'.frames = << >> /\ ~vm'.failed]_vars

(***************************************************************************)
(* What the machine promises to scripts                                    *)
(***************************************************************************)
(* While a nested run that ended has its result in register 0 of the frame *)
(* below, the variable there is what execute saved.                        *)
Shown(m, R) ==
  IF /\ R # << >> /\ Last(R).native = None /\ ~m.failed
     /\ m.frames # << >> /\ Depth(m) = Last(R).entry
  THEN SetReg(m, 0, Last(R).saved0) ELSE m

(* The runs whose first frame is still there: a nested reset takes the     *)
(* frames of the runs outside away, and a later run starts below them.     *)
Current(R) == {k \in DOMAIN R : \A j \in k + 1 .. Len(R) : R[j].entry > R[k].entry}

(* The frames that C++ pushed *)
EntryFrames(R) == {R[k].entry + 1 : k \in Current(R)}

(* The native called from frame i that has not returned: the last one, or *)
(* the one that started the run whose frames begin above i.               *)
StartedOn(R, i) == {k \in Current(R) : R[k].entry = i}
NativeIn(m, R, i) ==
  IF i = Depth(m) /\ Last(R).native # None THEN Last(R).native
  ELSE IF StartedOn(R, i) # {} THEN R[(CHOOSE k \in StartedOn(R, i) : TRUE) - 1].native
  ELSE None

(* A captured variable is the upvalue that holds it. *)
Holders(m, f, r) == {u \in f.open : m.location[u] = f.base + r}
Variables(m, f) ==
  [r \in 0 .. f.function.registers - 1 |->
     IF Holders(m, f, r) # {} THEN CHOOSE u \in Holders(m, f, r) : TRUE ELSE m.registers[f.base + r]]

Activation(m, R, i) ==
  [function |-> m.frames[i].function, closure |-> m.frames[i].closure,
   return |-> IF i \in EntryFrames(R) THEN None ELSE m.frames[i].return,
   native |-> NativeIn(m, R, i), locals |-> Variables(Shown(m, R), m.frames[i])]

Activations(m, R) == IF m.failed THEN << >> ELSE [i \in 1 .. Depth(m) |-> Activation(m, R, i)]
Cells(m) == [u \in Upvalue |-> IF u <= m.made THEN Read(m, u) ELSE NoValue]

Stack == INSTANCE CallStack WITH
  stack <- Activations(vm, runs), store <- Cells(vm), used <- 1 .. vm.made

(* Local variables belong to one activation, a captured one is shared by  *)
(* reference and outlives it, and nested runs are not seen.                *)
ImplementsCallStack == Stack!Spec

=============================================================================
