----------------------- MODULE VirtualMachine_proofs -----------------------
(***************************************************************************)
(* Theorems about VirtualMachine, for any register file, any functions,    *)
(* limits and nesting: the frames and the captured variables keep their    *)
(* shape, and only failures leave frames behind.                           *)
(***************************************************************************)
EXTENDS VirtualMachine, SequenceTheorems, TLAPS

(* WindowsTile speaks of neighbours; any two windows are apart. *)
Apart(m) ==
  /\ \A i, j \in DOMAIN m.frames : i < j => End(m.frames[i]) <= m.frames[j].base
  /\ \A i \in DOMAIN m.frames : End(m.frames[i]) <= m.stackTop

(* The closures that run have upvalues that were made. *)
ClosuresMade(m) ==
  \A i \in DOMAIN m.frames : \A j \in DOMAIN m.frames[i].closure : m.frames[i].closure[j] <= m.made

Sound(m) == m \in Machine /\ WindowsTile(m) /\ Apart(m) /\ UpvaluesInFrames(m) /\ ClosuresMade(m)

(* A run that interrupts a budget has kept it, and the outermost run began *)
(* with no frames.                                                         *)
RunsKept ==
  /\ \A k \in DOMAIN runs : runs[k].kind = "init" /\ runs[k].entry > 0 => runs[k].budget # << >>
  /\ runs # << >> => runs[1].entry = 0

IInv == Sound(vm) /\ TypeOK /\ RunsKept /\ LeftoversFailed

-----------------------------------------------------------------------------
(* The operators on machines                                                *)

(* What an operator leaves alone: all but registers, gas and the flag. *)
Alike(m, n) ==
  /\ n.frames = m.frames /\ n.stackTop = m.stackTop /\ n.currentBase = m.currentBase
  /\ n.location = m.location /\ n.made = m.made

LEMMA AlikeSound ==
  ASSUME NEW m, Sound(m), NEW n \in Machine, Alike(m, n)
  PROVE  Sound(n)
BY DEF Alike, Sound, WindowsTile, Apart, UpvaluesInFrames, ClosuresMade, Depth, TopFrame

LEMMA FieldTypes ==
  ASSUME NEW m \in Machine
  PROVE  /\ m.registers \in [Register -> Value] /\ m.frames \in Seq(Frame)
         /\ m.stackTop \in Nat /\ m.currentBase \in Nat
         /\ m.failed \in BOOLEAN /\ m.gasEnabled \in BOOLEAN /\ m.gas \in Nat
         /\ m.location \in [Upvalue -> Address] /\ m.closed \in [Upvalue -> Value]
         /\ m.made \in 0 .. MaxUpvalues
BY DEF Machine

LEMMA FrameTypes ==
  ASSUME NEW m \in Machine, NEW i \in DOMAIN m.frames
  PROVE  /\ m.frames[i] \in Frame /\ m.frames[i].base \in Nat
         /\ m.frames[i].function \in Function /\ m.frames[i].return \in Nat
         /\ m.frames[i].closure \in Seq(Upvalue) /\ m.frames[i].open \subseteq Upvalue
         /\ m.frames[i].function.registers \in Nat \ {0}
         /\ m.frames[i].function.params \in Nat
         /\ End(m.frames[i]) \in Nat /\ m.frames[i].base < End(m.frames[i])
<1>1. m.frames[i] \in Frame
  BY DEF Machine
<1>2. m.frames[i].function \in Function /\ m.frames[i].base \in Nat
  BY <1>1 DEF Frame
<1>3. m.frames[i].function.registers \in Nat \ {0} /\ m.frames[i].function.params \in Nat
  BY <1>2, VMAssumption
<1> QED
  BY <1>1, <1>2, <1>3 DEF Frame, End

(* No frame has an upvalue of another one. *)
LEMMA OpenApart ==
  ASSUME NEW m, Sound(m), NEW i \in DOMAIN m.frames, NEW j \in DOMAIN m.frames,
         NEW u \in m.frames[i].open, u \in m.frames[j].open
  PROVE  i = j
<1>1. /\ i \in Nat /\ j \in Nat /\ DOMAIN m.frames = 1 .. Len(m.frames)
      /\ Len(m.frames) \in Nat
  BY FieldTypes DEF Sound
<1>2. /\ m.location[u] \in m.frames[i].base .. End(m.frames[i]) - 1
      /\ m.location[u] \in m.frames[j].base .. End(m.frames[j]) - 1
  BY <1>1 DEF Sound, UpvaluesInFrames, Depth
<1>3. /\ m.frames[i].base \in Nat /\ End(m.frames[i]) \in Nat
      /\ m.frames[j].base \in Nat /\ End(m.frames[j]) \in Nat
  BY FrameTypes DEF Sound
<1>4. ~(i < j) /\ ~(j < i)
  BY <1>2, <1>3 DEF Sound, Apart
<1> QED
  BY <1>1, <1>4

(* Open upvalues point below stack_top_. *)
LEMMA OpenInRegisters ==
  ASSUME NEW m, Sound(m), NEW i \in DOMAIN m.frames, NEW u \in m.frames[i].open
  PROVE  m.location[u] \in Register /\ u \in Upvalue
<1>1. m.location[u] \in m.frames[i].base .. End(m.frames[i]) - 1
  BY FieldTypes DEF Sound, UpvaluesInFrames, Depth
<1>2. End(m.frames[i]) <= m.stackTop /\ m.stackTop <= MaxRegisters
  BY DEF Sound, Apart, WindowsTile
<1>3. m.frames[i].base \in Nat /\ End(m.frames[i]) \in Nat /\ m.frames[i].open \subseteq Upvalue
  BY FrameTypes DEF Sound
<1>4. m.stackTop \in Nat /\ MaxRegisters \in Nat
  BY FieldTypes, VMAssumption DEF Sound
<1> QED
  BY <1>1, <1>2, <1>3, <1>4 DEF Register

LEMMA FailSound ==
  ASSUME NEW m, Sound(m)
  PROVE  Sound(Fail(m)) /\ Alike(m, Fail(m)) /\ Fail(m).failed
<1>1. Fail(m) \in Machine /\ Alike(m, Fail(m)) /\ Fail(m).failed
  BY DEF Sound, Fail, Machine, Alike
<1> QED
  BY <1>1, AlikeSound

LEMMA GasSound ==
  ASSUME NEW m, Sound(m)
  PROVE  /\ Sound(ConsumeGas(m)) /\ Alike(m, ConsumeGas(m))
         /\ m.failed => ConsumeGas(m).failed
         /\ ConsumeGas(m).registers = m.registers
<1>1. /\ ConsumeGas(m) \in Machine /\ Alike(m, ConsumeGas(m))
      /\ m.failed => ConsumeGas(m).failed
      /\ ConsumeGas(m).registers = m.registers
  <2>1. CASE ~m.gasEnabled
    BY <2>1 DEF Sound, ConsumeGas, Alike
  <2>2. CASE m.gasEnabled /\ Affords(m)
    BY <2>2, FieldTypes DEF Sound, ConsumeGas, Affords, Machine, Alike
  <2>3. CASE m.gasEnabled /\ ~Affords(m)
    BY <2>3, FieldTypes DEF Sound, ConsumeGas, Fail, Machine, Alike
  <2> QED
    BY <2>1, <2>2, <2>3
<1> QED
  BY <1>1, AlikeSound

LEMMA BudgetSound ==
  ASSUME NEW m, Sound(m), NEW limit \in Nat
  PROVE  Sound(InitBudget(m, limit)) /\ Alike(m, InitBudget(m, limit)) /\ InitBudget(m, limit).failed = m.failed
<1>1. InitBudget(m, limit) \in Machine /\ Alike(m, InitBudget(m, limit)) /\ InitBudget(m, limit).failed = m.failed
  <2>1. (limit > 0) \in BOOLEAN
    OBVIOUS
  <2>2. Alike(m, InitBudget(m, limit)) /\ InitBudget(m, limit).failed = m.failed
    BY DEF Sound, InitBudget, Machine, Alike
  <2>3. InitBudget(m, limit) \in Machine
    BY <2>1 DEF Sound, InitBudget, Machine
  <2> QED
    BY <2>2, <2>3
<1> QED
  BY <1>1, AlikeSound

(* The registers may take any values. *)
LEMMA RegistersSound ==
  ASSUME NEW m, Sound(m), NEW values \in [Register -> Value]
  PROVE  LET n == [m EXCEPT !.registers = values]
         IN  Sound(n) /\ Alike(m, n) /\ n.failed = m.failed
<1> DEFINE n == [m EXCEPT !.registers = values]
<1>1. n \in Machine /\ Alike(m, n) /\ n.failed = m.failed
  BY DEF Sound, Machine, Alike
<1> QED
  BY <1>1, AlikeSound

LEMMA SetRegSound ==
  ASSUME NEW m, Sound(m), NEW r, NEW v \in Value
  PROVE  Sound(SetReg(m, r, v)) /\ Alike(m, SetReg(m, r, v)) /\ SetReg(m, r, v).failed = m.failed
<1> DEFINE values == [m.registers EXCEPT ![m.currentBase + r] = v]
<1>1. values \in [Register -> Value]
  BY FieldTypes DEF Sound
<1>2. SetReg(m, r, v) = [m EXCEPT !.registers = values]
  BY DEF SetReg
<1> HIDE DEF values
<1> QED
  BY <1>1, <1>2, RegistersSound

(* GETUPVAL reads and SETUPVAL writes a register or the upvalue itself. *)
LEMMA ReadType ==
  ASSUME NEW m \in Machine, NEW u \in Upvalue
  PROVE  Read(m, u) \in Value
<1>1. m.location[u] \in Register \/ m.location[u] = None
  BY FieldTypes DEF Address
<1> QED
  BY <1>1, FieldTypes DEF Read

LEMMA WriteSound ==
  ASSUME NEW m, Sound(m), NEW u \in Upvalue, NEW v \in Value
  PROVE  Sound(Write(m, u, v)) /\ Alike(m, Write(m, u, v)) /\ Write(m, u, v).failed = m.failed
<1>1. CASE m.location[u] = None
  <2>1. /\ Write(m, u, v) \in Machine /\ Alike(m, Write(m, u, v))
        /\ Write(m, u, v).failed = m.failed
    BY <1>1 DEF Sound, Write, Machine, Alike
  <2> QED
    BY <2>1, AlikeSound
<1>2. CASE m.location[u] # None
  <2> DEFINE values == [m.registers EXCEPT ![m.location[u]] = v]
  <2>1. values \in [Register -> Value]
    BY FieldTypes DEF Sound
  <2>2. Write(m, u, v) = [m EXCEPT !.registers = values]
    BY <1>2 DEF Write
  <2> HIDE DEF values
  <2> QED
    BY <2>1, <2>2, RegistersSound
<1> QED
  BY <1>1, <1>2

(* What close_upvalues followed by a cut of the registers leaves *)
LEMMA ClosedFields ==
  ASSUME NEW m, Sound(m), NEW U \in SUBSET Upvalue, NEW top \in Nat,
         \A u \in U : m.location[u] \in Register
  PROVE  LET n == CutTo(CloseUpvalues(m, U), top)
         IN  /\ n \in Machine /\ n.frames = m.frames /\ n.stackTop = top /\ n.made = m.made
             /\ n.currentBase = m.currentBase /\ n.failed = m.failed
             /\ n.location = [u \in Upvalue |-> IF u \in U THEN None ELSE m.location[u]]
<1> DEFINE values == [u \in Upvalue |-> IF u \in U THEN m.registers[m.location[u]] ELSE m.closed[u]]
           places == [u \in Upvalue |-> IF u \in U THEN None ELSE m.location[u]]
           c == CloseUpvalues(m, U)
           left == [i \in Register |-> IF i < top THEN m.registers[i] ELSE NoValue]
           n == CutTo(c, top)
<1>1. values \in [Upvalue -> Value] /\ places \in [Upvalue -> Address] /\ left \in [Register -> Value]
  <2>1. \A u \in Upvalue : values[u] \in Value /\ places[u] \in Address
    BY FieldTypes DEF Sound, Address
  <2>2. \A i \in Register : left[i] \in Value
    BY FieldTypes, VMAssumption DEF Sound
  <2> QED
    BY <2>1, <2>2
<1>2. c = [m EXCEPT !.closed = values, !.location = places]
  BY DEF CloseUpvalues
<1>3. c \in Machine /\ c.registers = m.registers /\ c.frames = m.frames /\ c.made = m.made
      /\ c.currentBase = m.currentBase /\ c.failed = m.failed /\ c.location = places
  <2> HIDE DEF values, places, c
  <2> QED
    BY <1>1, <1>2 DEF Sound, Machine
<1>4. n = [c EXCEPT !.stackTop = top, !.registers = left]
  <2> HIDE DEF c
  <2> QED
    BY <1>3 DEF CutTo
<1> HIDE DEF values, left, c, n
<1>5. n \in Machine /\ n.frames = c.frames /\ n.stackTop = top /\ n.made = c.made
      /\ n.currentBase = c.currentBase /\ n.failed = c.failed /\ n.location = c.location
  BY <1>1, <1>3, <1>4 DEF Machine
<1> QED
  BY <1>3, <1>5 DEF n, c

LEMMA ResetSound ==
  ASSUME NEW m, Sound(m)
  PROVE  /\ Sound(Reset(m)) /\ Reset(m).frames = << >> /\ ~Reset(m).failed
         /\ Reset(m).made = m.made
<1> DEFINE U == UNION {m.frames[i].open : i \in 1 .. Depth(m)}
           c == CutTo(CloseUpvalues(m, U), 0)
           n == [c EXCEPT !.frames = << >>, !.failed = FALSE, !.gasEnabled = FALSE, !.gas = 0,
                          !.currentBase = 0]
<1>1. \A u \in U : u \in Upvalue /\ m.location[u] \in Register
  <2>1. DOMAIN m.frames = 1 .. Depth(m)
    BY FieldTypes DEF Sound, Depth
  <2> QED
    BY <2>1, OpenInRegisters
<1>2. c \in Machine /\ c.stackTop = 0 /\ c.made = m.made
      /\ c.location = [u \in Upvalue |-> IF u \in U THEN None ELSE m.location[u]]
  <2> HIDE DEF U
  <2>1. U \in SUBSET Upvalue /\ \A u \in U : m.location[u] \in Register
    BY <1>1
  <2> QED
    BY <2>1, ClosedFields
<1>3. \A u \in Upvalue : c.location[u] = None
  BY <1>2 DEF Sound, UpvaluesInFrames
<1>4. Reset(m) = n
  BY DEF Reset
<1> HIDE DEF c
<1>5. << >> \in Seq(Frame)
  OBVIOUS
<1>6. n \in Machine /\ n.frames = << >> /\ n.stackTop = 0 /\ n.currentBase = 0
      /\ n.location = c.location /\ n.made = m.made /\ ~n.failed
  BY <1>2, <1>5 DEF Machine
<1> HIDE DEF n
<1>7. Sound(n)
  BY <1>3, <1>6, VMAssumption DEF Sound, WindowsTile, Apart, UpvaluesInFrames, ClosuresMade, Depth
<1> QED
  BY <1>4, <1>6, <1>7

LEMMA PopSound ==
  ASSUME NEW m, Sound(m), m.frames # << >>
  PROVE  /\ Sound(PopFrame(m)) /\ PopFrame(m).frames = Front(m.frames)
         /\ PopFrame(m).made = m.made /\ PopFrame(m).failed = m.failed
<1> DEFINE f == TopFrame(m)
           d == Len(m.frames)
           rest == Front(m.frames)
           c == CutTo(CloseUpvalues(m, f.open), f.base)
           n == [c EXCEPT !.frames = rest, !.currentBase = IF rest = << >> THEN 0 ELSE Last(rest).base]
<1>1. m \in Machine /\ m.frames \in Seq(Frame) /\ d \in Nat \ {0} /\ f = m.frames[d] /\ d \in DOMAIN m.frames
  BY FieldTypes DEF Sound, TopFrame
<1>2. /\ rest \in Seq(Frame) /\ DOMAIN rest = 1 .. d - 1 /\ Len(rest) = d - 1
      /\ \A i \in 1 .. d - 1 : rest[i] = m.frames[i] /\ i \in DOMAIN m.frames
  BY <1>1 DEF Front
<1>3. f.base \in Nat /\ f.open \in SUBSET Upvalue
  BY <1>1, FrameTypes
<1>4. \A u \in f.open : m.location[u] \in Register
  BY <1>1, OpenInRegisters
<1>5. c \in Machine /\ c.stackTop = f.base /\ c.made = m.made /\ c.failed = m.failed
      /\ c.location = [u \in Upvalue |-> IF u \in f.open THEN None ELSE m.location[u]]
  BY <1>3, <1>4, ClosedFields
<1>6. PopFrame(m) = n
  BY DEF PopFrame
<1>7. rest # << >> => d > 1 /\ Last(rest) = m.frames[d - 1] /\ d - 1 \in DOMAIN m.frames
  BY <1>1, <1>2 DEF Last
<1>8. (IF rest = << >> THEN 0 ELSE Last(rest).base) \in Nat
  BY <1>1, <1>7, FrameTypes
<1> HIDE DEF c, rest
<1>9. n \in Machine /\ n.frames = rest /\ n.stackTop = f.base /\ n.location = c.location
      /\ n.made = m.made /\ n.failed = m.failed
      /\ n.currentBase = IF rest = << >> THEN 0 ELSE Last(rest).base
  BY <1>2, <1>5, <1>8 DEF Machine
<1> HIDE DEF n, f
<1>10. WindowsTile(n)
  <2>1. Depth(n) = d - 1 /\ Depth(m) = d /\ Depth(n) <= MaxFrames
    BY <1>1, <1>2, <1>9, VMAssumption DEF Sound, WindowsTile, Depth
  <2>2. f.base = IF d = 1 THEN 0 ELSE End(m.frames[d - 1])
    <3>1. d \in 1 .. Depth(m)
      BY <1>1, <2>1
    <3>2. m.frames[d].base = IF d = 1 THEN 0 ELSE End(m.frames[d - 1])
      BY <3>1 DEF Sound, WindowsTile
    <3> QED
      BY <1>1, <3>2
  <2>3. n.stackTop <= MaxRegisters
    <3>1. f.base < End(f) /\ End(f) <= m.stackTop /\ m.stackTop <= MaxRegisters
      BY <1>1, FrameTypes DEF Sound, Apart, WindowsTile
    <3>2. End(f) \in Nat /\ m.stackTop \in Nat /\ MaxRegisters \in Nat
      BY <1>1, FrameTypes, FieldTypes, VMAssumption
    <3> QED
      BY <1>3, <1>9, <3>1, <3>2
  <2>4. \A i \in 1 .. Depth(n) : n.frames[i].base = IF i = 1 THEN 0 ELSE End(n.frames[i - 1])
    BY <1>1, <1>2, <1>9, <2>1 DEF Sound, WindowsTile
  <2>5. n.frames = << >> <=> d = 1
    <3>1. \A s \in Seq(Frame) : s = << >> <=> Len(s) = 0
      OBVIOUS
    <3>2. rest \in Seq(Frame) /\ Len(rest) = d - 1 /\ d \in Nat
      BY <1>1, <1>2
    <3>3. rest = << >> <=> Len(rest) = 0
      BY <3>1, <3>2, Zenon
    <3>4. n.frames = rest
      BY <1>9
    <3>5. Len(rest) = 0 <=> d = 1
      BY <3>2
    <3> QED
      BY <3>3, <3>4, <3>5
  <2>6. n.frames # << >> => TopFrame(n) = m.frames[d - 1] /\ Last(rest) = TopFrame(n)
    BY <1>2, <1>7, <1>9 DEF TopFrame, Last
  <2> QED
    BY <1>9, <2>1, <2>2, <2>3, <2>4, <2>5, <2>6 DEF WindowsTile
<1>11. Apart(n)
  <2>1. \A i \in 1 .. d - 1 : End(m.frames[i]) <= f.base
    BY <1>1, <1>2 DEF Sound, Apart
  <2> QED
    BY <1>2, <1>9, <2>1 DEF Sound, Apart
<1>12. UpvaluesInFrames(n)
  <2>1. \A i \in 1 .. d - 1 : \A u \in m.frames[i].open : u \notin f.open
    BY <1>1, <1>2, OpenApart
  <2>2. DOMAIN m.frames = 1 .. d /\ Depth(m) = d /\ Depth(n) = d - 1
    BY <1>1, <1>2, <1>9 DEF Depth
  <2>3. ASSUME NEW i \in 1 .. Depth(n), NEW u \in n.frames[i].open
        PROVE  u <= n.made /\ n.location[u] \in n.frames[i].base .. End(n.frames[i]) - 1
    <3>1. n.frames[i] = m.frames[i] /\ u \notin f.open /\ i \in DOMAIN m.frames /\ i \in 1 .. Depth(m)
      BY <1>2, <1>9, <2>1, <2>2
    <3>2. u \in Upvalue
      BY <3>1, OpenInRegisters
    <3> QED
      BY <1>5, <1>9, <3>1, <3>2 DEF Sound, UpvaluesInFrames
  <2>4. ASSUME NEW u \in Upvalue, n.location[u] # None
        PROVE  /\ \E i \in 1 .. Depth(n) : u \in n.frames[i].open
               /\ \A w \in Upvalue : n.location[w] = n.location[u] => w = u
    <3>1. u \notin f.open /\ n.location[u] = m.location[u]
      BY <1>5, <1>9, <2>4
    <3>2. PICK i \in 1 .. Depth(m) : u \in m.frames[i].open
      BY <2>4, <3>1 DEF Sound, UpvaluesInFrames
    <3>3. i # d
      BY <1>1, <3>1, <3>2
    <3>4. i \in 1 .. Depth(n) /\ n.frames[i] = m.frames[i]
      BY <1>1, <1>2, <1>9, <2>2, <3>3
    <3>5. \A w \in Upvalue : n.location[w] = n.location[u] => m.location[w] = m.location[u]
      BY <1>5, <1>9, <2>4, <3>1
    <3> QED
      BY <2>4, <3>1, <3>2, <3>4, <3>5 DEF Sound, UpvaluesInFrames
  <2> QED
    BY <2>3, <2>4 DEF UpvaluesInFrames
<1>13. ClosuresMade(n)
  BY <1>2, <1>9 DEF Sound, ClosuresMade
<1> QED
  BY <1>6, <1>9, <1>10, <1>11, <1>12, <1>13 DEF Sound, rest

(* The registers of the frame that runs *)
LEMMA LocalRegister ==
  ASSUME NEW m, Sound(m), m.frames # << >>, NEW r \in 0 .. TopFrame(m).function.registers - 1
  PROVE  /\ m.currentBase + r \in Register
         /\ m.currentBase + r \in TopFrame(m).base .. End(TopFrame(m)) - 1
<1>1. m.frames \in Seq(Frame) /\ Len(m.frames) \in DOMAIN m.frames
  BY FieldTypes DEF Sound
<1>2. /\ TopFrame(m).base \in Nat /\ TopFrame(m).function.registers \in Nat \ {0}
      /\ End(TopFrame(m)) \in Nat
  BY <1>1, FrameTypes DEF Sound, TopFrame
<1>3. m.currentBase = TopFrame(m).base /\ m.stackTop = End(TopFrame(m)) /\ m.stackTop <= MaxRegisters
  BY DEF Sound, WindowsTile
<1> QED
  BY <1>2, <1>3, VMAssumption DEF Register, End

LEMMA PushSound ==
  ASSUME NEW m, Sound(m), NEW function \in Function, NEW return \in Nat, NEW closure \in Seq(Upvalue),
         \A j \in DOMAIN closure : closure[j] <= m.made
  PROVE  LET n == PushFrame(m, function, return, closure)
         IN  /\ Sound(n) /\ n.made = m.made /\ n.registers = m.registers
             /\ m.failed => n.failed
<1> DEFINE paid == ConsumeGas(m)
           base == m.stackTop
           new == [base |-> base, function |-> function, return |-> return,
                   closure |-> closure, open |-> {}]
           d == Len(m.frames)
           n == PushFrame(m, function, return, closure)
           pushed == [paid EXCEPT !.stackTop = base + function.registers, !.currentBase = base,
                                  !.frames = Append(m.frames, new)]
<1>1. Sound(paid) /\ Alike(m, paid) /\ (m.failed => paid.failed) /\ paid.registers = m.registers
  BY GasSound
<1>2. CASE ~Affords(m)
  BY <1>1, <1>2 DEF PushFrame, Alike
<1>3. CASE Affords(m) /\ (Depth(m) >= MaxFrames \/ base + function.registers > MaxRegisters)
  <2>1. n = Fail(paid)
    BY <1>3 DEF PushFrame
  <2>2. Sound(Fail(paid)) /\ Alike(paid, Fail(paid)) /\ Fail(paid).failed
    BY <1>1, FailSound
  <2>3. Fail(paid).registers = m.registers
    BY <1>1 DEF Fail, Sound, Machine
  <2> QED
    BY <1>1, <2>1, <2>2, <2>3 DEF Alike
<1>4. CASE Affords(m) /\ ~(Depth(m) >= MaxFrames \/ base + function.registers > MaxRegisters)
  <2>1. n = pushed
    BY <1>4 DEF PushFrame
  <2>2. base \in Nat /\ function.registers \in Nat \ {0} /\ new \in Frame
    BY FieldTypes, VMAssumption DEF Sound, Frame
  <2>3. m.frames \in Seq(Frame) /\ d \in Nat /\ DOMAIN m.frames = 1 .. d
    BY FieldTypes DEF Sound
  <2> DEFINE frames == Append(m.frames, new)
  <2>4. /\ frames \in Seq(Frame) /\ Len(frames) = d + 1 /\ DOMAIN frames = 1 .. d + 1
        /\ frames[d + 1] = new /\ \A i \in 1 .. d : frames[i] = m.frames[i]
    <3> HIDE DEF new
    <3> QED
      BY <2>2, <2>3
  <2> HIDE DEF frames, paid
  <2>5. base + function.registers \in Nat
    BY <2>2
  <2>6. /\ pushed \in Machine /\ pushed.frames = frames /\ pushed.stackTop = base + function.registers
        /\ pushed.currentBase = base /\ pushed.location = m.location /\ pushed.made = m.made
        /\ pushed.registers = m.registers /\ pushed.failed = paid.failed
    <3>1. pushed = [paid EXCEPT !.stackTop = base + function.registers, !.currentBase = base, !.frames = frames]
      BY DEF frames
    <3> HIDE DEF pushed, base
    <3> QED
      BY <1>1, <2>2, <2>4, <2>5, <3>1 DEF Sound, Machine, Alike
  <2> HIDE DEF pushed
  <2>7. End(new) = base + function.registers /\ new.base = base
    BY DEF End
  <2>8. Apart(m) /\ WindowsTile(m)
    BY DEF Sound
  <2>9. base = IF d = 0 THEN 0 ELSE End(m.frames[d])
    <3>1. m.frames = << >> <=> d = 0
      BY <2>3
    <3> QED
      BY <2>8, <3>1 DEF WindowsTile, TopFrame
  <2>10. WindowsTile(pushed)
    <3>1. Depth(pushed) = d + 1 /\ Depth(m) = d /\ d + 1 <= MaxFrames
      BY <1>4, <2>3, <2>4, <2>6, VMAssumption DEF Depth
    <3>2. pushed.stackTop <= MaxRegisters
      BY <1>4, <2>5, <2>6, VMAssumption
    <3>3. ASSUME NEW i \in 1 .. d + 1
          PROVE  frames[i].base = IF i = 1 THEN 0 ELSE End(frames[i - 1])
      <4>1. CASE i = d + 1
        BY <2>3, <2>4, <2>7, <2>9, <4>1
      <4>2. CASE i \in 1 .. d
        <5>1. frames[i] = m.frames[i] /\ (i # 1 => frames[i - 1] = m.frames[i - 1])
          <6>1. i # 1 => i - 1 \in 1 .. d
            BY <2>3, <4>2
          <6>2. \A j \in 1 .. d : frames[j] = m.frames[j]
            BY <2>4
          <6> QED
            BY <4>2, <6>1, <6>2
        <5>2. m.frames[i].base = IF i = 1 THEN 0 ELSE End(m.frames[i - 1])
          BY <2>8, <3>1, <4>2 DEF WindowsTile
        <5> QED
          BY <5>1, <5>2
      <4> QED
        BY <2>3, <4>1, <4>2
    <3>4. frames # << >> /\ TopFrame(pushed) = new
      BY <2>3, <2>4, <2>6 DEF TopFrame
    <3> QED
      BY <2>6, <2>7, <3>1, <3>2, <3>3, <3>4 DEF WindowsTile
  <2>11. Apart(pushed)
    <3>1. ASSUME NEW i \in 1 .. d
          PROVE  End(m.frames[i]) <= base /\ End(m.frames[i]) \in Nat
      BY <2>3, <2>8, FrameTypes DEF Apart, Sound
    <3>2. ASSUME NEW i \in 1 .. d + 1, NEW j \in 1 .. d + 1, i < j
          PROVE  End(frames[i]) <= frames[j].base
      <4>1. i \in 1 .. d /\ frames[i] = m.frames[i]
        BY <2>3, <2>4, <3>2
      <4>2. CASE j = d + 1
        BY <2>4, <2>7, <3>1, <4>1, <4>2
      <4>3. CASE j \in 1 .. d
        BY <2>3, <2>4, <2>8, <3>2, <4>1, <4>3 DEF Apart
      <4> QED
        BY <2>3, <4>2, <4>3
    <3>3. ASSUME NEW i \in 1 .. d + 1
          PROVE  End(frames[i]) <= base + function.registers
      <4>1. CASE i = d + 1
        BY <2>2, <2>4, <2>7, <4>1
      <4>2. CASE i \in 1 .. d
        BY <2>2, <2>4, <3>1, <4>2
      <4> QED
        BY <2>3, <4>1, <4>2
    <3> QED
      BY <2>4, <2>6, <3>2, <3>3 DEF Apart
  <2>12. UpvaluesInFrames(pushed)
    <3>1. new.open = {} /\ Depth(pushed) = d + 1 /\ Depth(m) = d
      BY <2>4, <2>6 DEF Depth
    <3>2. ASSUME NEW i \in 1 .. d + 1, NEW u \in frames[i].open
          PROVE  i \in 1 .. d /\ frames[i] = m.frames[i] /\ u \in m.frames[i].open
      BY <2>3, <2>4, <3>1, <3>2
    <3> HIDE DEF new
    <3>3. ASSUME NEW i \in 1 .. d + 1, NEW u \in frames[i].open
          PROVE  u <= m.made /\ m.location[u] \in frames[i].base .. End(frames[i]) - 1
      BY <3>1, <3>2, <3>3 DEF Sound, UpvaluesInFrames
    <3>4. ASSUME NEW u \in Upvalue, m.location[u] # None
          PROVE  /\ \E i \in 1 .. d + 1 : u \in frames[i].open
                 /\ \A w \in Upvalue : m.location[w] = m.location[u] => w = u
      <4>1. /\ \E i \in 1 .. d : u \in m.frames[i].open
            /\ \A w \in Upvalue : m.location[w] = m.location[u] => w = u
        BY <3>1, <3>4 DEF Sound, UpvaluesInFrames
      <4> QED
        BY <2>3, <2>4, <4>1
    <3> QED
      BY <2>6, <3>1, <3>3, <3>4 DEF UpvaluesInFrames
  <2>13. ClosuresMade(pushed)
    <3>1. ASSUME NEW i \in 1 .. d + 1, NEW j \in DOMAIN frames[i].closure
          PROVE  frames[i].closure[j] <= m.made
      <4>1. CASE i = d + 1
        BY <2>4, <3>1, <4>1
      <4>2. CASE i \in 1 .. d
        BY <2>3, <2>4, <3>1, <4>2 DEF Sound, ClosuresMade
      <4> QED
        BY <2>3, <4>1, <4>2
    <3> QED
      BY <2>4, <2>6, <3>1 DEF ClosuresMade
  <2> QED
    BY <1>1, <2>1, <2>6, <2>10, <2>11, <2>12, <2>13 DEF Sound
<1> QED
  BY <1>2, <1>3, <1>4

(* A new upvalue is the only one at its register. *)
LEMMA CaptureSound ==
  ASSUME NEW m, Sound(m), m.frames # << >>,
         NEW r \in 0 .. TopFrame(m).function.registers - 1, UpvalueFor(m, r) \in Upvalue
  PROVE  LET u == UpvalueFor(m, r)
             n == Capture(m, u, r)
         IN  /\ Sound(n) /\ m.made <= n.made /\ u <= n.made
             /\ n.failed = m.failed
<1> DEFINE u == UpvalueFor(m, r)
           d == Len(m.frames)
           f == TopFrame(m)
           place == m.currentBase + r
           new == [f EXCEPT !.open = @ \cup {u}]
           n == Capture(m, u, r)
<1>1. /\ m.frames \in Seq(Frame) /\ d \in Nat \ {0} /\ DOMAIN m.frames = 1 .. d /\ f = m.frames[d]
      /\ Depth(m) = d /\ d \in DOMAIN m.frames
  BY FieldTypes DEF Sound, TopFrame, Depth
<1>2. place \in Register /\ place \in f.base .. End(f) - 1
  BY LocalRegister
<1>3. /\ f \in Frame /\ f.base \in Nat /\ End(f) \in Nat
      /\ f.function \in Function /\ f.function.registers \in Nat
  BY <1>1, FrameTypes DEF Sound
<1>4. CASE u <= m.made
  BY <1>4, FieldTypes DEF Sound, Capture
<1>5. CASE ~(u <= m.made)
  <2>1. m.made \in Nat /\ u \in Nat
    BY FieldTypes DEF Sound, Upvalue
  <2>2. OpenAt(m, r) = {} /\ u = m.made + 1
    <3>1. ASSUME OpenAt(m, r) # {} PROVE FALSE
      <4>1. u \in OpenAt(m, r)
        BY <3>1 DEF UpvalueFor
      <4>2. u \in m.frames[d].open
        BY <1>1, <4>1 DEF OpenAt
      <4> QED
        BY <1>1, <1>5, <4>2 DEF Sound, UpvaluesInFrames
    <3> QED
      BY <3>1 DEF UpvalueFor
  <2>3. \A i \in 1 .. d : u \notin m.frames[i].open
    BY <1>1, <1>5 DEF Sound, UpvaluesInFrames
  <2>4. ASSUME NEW w \in Upvalue, m.location[w] = place PROVE FALSE
    <3>1. place # None
      BY <1>2, VMAssumption DEF Register
    <3>2. PICK i \in 1 .. d : w \in m.frames[i].open
      BY <1>1, <2>4, <3>1 DEF Sound, UpvaluesInFrames
    <3>3. place \in m.frames[i].base .. End(m.frames[i]) - 1
      BY <1>1, <2>4, <3>2 DEF Sound, UpvaluesInFrames
    <3>4. m.frames[i].base \in Nat /\ End(m.frames[i]) \in Nat
      BY <1>1, FrameTypes DEF Sound
    <3>5. ~(i < d)
      <4>1. i < d => End(m.frames[i]) <= f.base
        BY <1>1 DEF Sound, Apart
      <4> HIDE DEF place
      <4> QED
        BY <1>2, <1>3, <3>3, <3>4, <4>1
    <3>6. i = d
      BY <1>1, <3>5
    <3> QED
      BY <1>1, <2>2, <2>4, <3>2, <3>6 DEF OpenAt
  <2> DEFINE frames == [m.frames EXCEPT ![d] = new]
             location == [m.location EXCEPT ![u] = place]
  <2>5. n = [m EXCEPT !.made = u, !.location = location, !.frames = frames]
    BY <1>1, <1>5 DEF Capture, TopFrame
  <2>6. /\ new \in Frame /\ new.base = f.base /\ new.function = f.function
        /\ new.closure = f.closure /\ new.open = f.open \cup {u} /\ End(new) = End(f)
    <3> HIDE DEF u, f
    <3> QED
      BY <1>3 DEF Frame, End, u
  <2> HIDE DEF new, place
  <2>7. /\ frames \in Seq(Frame) /\ Len(frames) = d /\ DOMAIN frames = 1 .. d
        /\ frames[d] = new /\ \A i \in 1 .. d - 1 : frames[i] = m.frames[i]
    BY <1>1, <2>6
  <2>8. /\ location \in [Upvalue -> Address] /\ location[u] = place
        /\ \A w \in Upvalue : w # u => location[w] = m.location[w]
    BY <1>2, FieldTypes DEF Sound, Address
  <2>9. u \in 0 .. MaxUpvalues
    BY DEF Upvalue
  <2> HIDE DEF frames, location, u, n
  <2>10. /\ n \in Machine /\ n.frames = frames /\ n.location = location /\ n.made = u
         /\ n.stackTop = m.stackTop /\ n.currentBase = m.currentBase /\ n.failed = m.failed
    BY <2>5, <2>7, <2>8, <2>9 DEF Sound, Machine
  <2>11. \A i \in 1 .. d :
           /\ frames[i].base = m.frames[i].base /\ frames[i].function = m.frames[i].function
           /\ frames[i].closure = m.frames[i].closure /\ End(frames[i]) = End(m.frames[i])
           /\ frames[i].open = IF i = d THEN m.frames[i].open \cup {u} ELSE m.frames[i].open
    <3> SUFFICES ASSUME NEW i \in 1 .. d
                 PROVE  /\ frames[i].base = m.frames[i].base /\ frames[i].function = m.frames[i].function
                        /\ frames[i].closure = m.frames[i].closure /\ End(frames[i]) = End(m.frames[i])
                        /\ frames[i].open = IF i = d THEN m.frames[i].open \cup {u} ELSE m.frames[i].open
      OBVIOUS
    <3>1. CASE i = d
      BY <1>1, <2>6, <2>7, <3>1
    <3>2. CASE i \in 1 .. d - 1
      BY <1>1, <2>7, <3>2
    <3> QED
      BY <1>1, <3>1, <3>2
  <2>12. WindowsTile(n)
    <3>1. Depth(n) = d /\ TopFrame(n) = frames[d] /\ n.frames # << >>
      BY <1>1, <2>7, <2>10 DEF Depth, TopFrame
    <3>2. \A i \in 1 .. d : frames[i].base = IF i = 1 THEN 0 ELSE End(frames[i - 1])
      <4>1. \A i \in 1 .. d : m.frames[i].base = IF i = 1 THEN 0 ELSE End(m.frames[i - 1])
        BY <1>1 DEF Sound, WindowsTile
      <4>2. \A i \in 1 .. d : i # 1 => i - 1 \in 1 .. d
        BY <1>1
      <4> QED
        BY <2>11, <4>1, <4>2
    <3>3. frames[d].base = f.base /\ End(frames[d]) = End(f)
      BY <2>6, <2>7
    <3>4. /\ d <= MaxFrames /\ m.stackTop <= MaxRegisters
          /\ m.stackTop = End(f) /\ m.currentBase = f.base
      BY <1>1 DEF Sound, WindowsTile
    <3> QED
      BY <2>10, <3>1, <3>2, <3>3, <3>4 DEF WindowsTile
  <2>13. Apart(n)
    BY <1>1, <2>7, <2>10, <2>11 DEF Sound, Apart
  <2>14. UpvaluesInFrames(n)
    <3>1. Depth(n) = d
      BY <2>7, <2>10 DEF Depth
    <3>2. ASSUME NEW i \in 1 .. d, NEW w \in frames[i].open
          PROVE  w <= u /\ location[w] \in frames[i].base .. End(frames[i]) - 1
      <4>1. CASE w = u
        <5>1. i = d
          BY <2>3, <2>11, <3>2, <4>1
        <5> QED
          BY <1>2, <2>1, <2>6, <2>7, <2>8, <4>1, <5>1
      <4>2. CASE w # u
        <5>1. w \in m.frames[i].open
          BY <2>11, <3>2, <4>2
        <5>2. w <= m.made /\ m.location[w] \in m.frames[i].base .. End(m.frames[i]) - 1
          BY <1>1, <5>1 DEF Sound, UpvaluesInFrames
        <5>3. w \in Upvalue /\ w \in Nat
          BY <1>1, <5>1, OpenInRegisters DEF Upvalue
        <5>4. location[w] = m.location[w]
          BY <2>8, <4>2, <5>3
        <5>5. w <= u
          BY <2>1, <2>2, <5>2, <5>3
        <5> QED
          BY <2>11, <5>2, <5>4, <5>5
      <4> QED
        BY <4>1, <4>2
    <3>3. ASSUME NEW w \in Upvalue, location[w] # None
          PROVE  /\ \E i \in 1 .. d : w \in frames[i].open
                 /\ \A x \in Upvalue : location[x] = location[w] => x = w
      <4>1. CASE w = u
        <5>1. u \in frames[d].open /\ d \in 1 .. d
          BY <1>1, <2>11
        <5>2. \A x \in Upvalue : location[x] = place => x = u
          BY <2>4, <2>8
        <5> QED
          BY <2>8, <4>1, <5>1, <5>2
      <4>2. CASE w # u
        <5>1. location[w] = m.location[w] /\ m.location[w] # place
          BY <2>4, <2>8, <4>2
        <5>2. /\ \E i \in 1 .. d : w \in m.frames[i].open
              /\ \A x \in Upvalue : m.location[x] = m.location[w] => x = w
          BY <1>1, <3>3, <5>1 DEF Sound, UpvaluesInFrames
        <5>3. \A x \in Upvalue : location[x] = location[w] => x = w
          BY <2>8, <5>1, <5>2
        <5> QED
          BY <2>11, <5>2, <5>3
      <4> QED
        BY <4>1, <4>2
    <3> QED
      BY <2>10, <3>1, <3>2, <3>3 DEF UpvaluesInFrames
  <2>15. ClosuresMade(n)
    <3>1. ASSUME NEW i \in 1 .. d, NEW j \in DOMAIN frames[i].closure
          PROVE  frames[i].closure[j] <= u
      <4>1. frames[i].closure = m.frames[i].closure
        BY <2>11
      <4>2. m.frames[i].closure[j] <= m.made /\ m.frames[i].closure[j] \in Nat
        <5>1. m.frames[i].closure \in Seq(Upvalue)
          BY <1>1, FrameTypes DEF Sound
        <5>2. j \in DOMAIN m.frames[i].closure
          BY <4>1, Zenon
        <5>3. m.frames[i].closure[j] \in Upvalue
          BY <5>1, <5>2
        <5>4. m.frames[i].closure[j] <= m.made
          BY <1>1, <5>2 DEF Sound, ClosuresMade
        <5> QED
          BY <5>3, <5>4 DEF Upvalue
      <4> QED
        BY <2>1, <2>2, <4>1, <4>2
    <3> QED
      BY <2>7, <2>10, <3>1 DEF ClosuresMade
  <2>16. m.made <= u /\ u <= u
    BY <2>1, <2>2
  <2> QED
    BY <2>10, <2>12, <2>13, <2>14, <2>15, <2>16 DEF Sound, n, u
<1> QED
  BY <1>4, <1>5

-----------------------------------------------------------------------------
(* The entries from C++                                                      *)

LEMMA ClosureTypes ==
  ASSUME IInv, NEW c \in closures \cup {<< >>}
  PROVE  c \in Seq(Upvalue) /\ \A j \in DOMAIN c : c[j] <= vm.made
<1>1. vm.made \in 0 .. MaxUpvalues /\ MaxUpvalues \in Nat
  BY FieldTypes, VMAssumption DEF IInv, Sound
<1>2. CASE c = << >>
  BY <1>2
<1>3. CASE c \in closures
  <2>1. PICK u \in 1 .. vm.made : c = <<u>>
    BY <1>3 DEF IInv, TypeOK
  <2> QED
    BY <1>1, <2>1 DEF Upvalue
<1> QED
  BY <1>2, <1>3

(* A closure stays one when more upvalues are made. *)
LEMMA ClosuresStay ==
  ASSUME IInv, NEW n \in Machine, vm.made <= n.made
  PROVE  closures \subseteq {<<u>> : u \in 1 .. n.made}
<1>1. vm.made \in Nat /\ n.made \in Nat
  BY FieldTypes DEF IInv, Sound
<1>2. \A u \in 1 .. vm.made : u \in 1 .. n.made
  BY <1>1
<1> QED
  BY <1>2 DEF IInv, TypeOK

(* A step inside a run, which leaves the C++ stack alone *)
LEMMA InsideKeeps ==
  ASSUME IInv, Sound(vm'), vm.made <= vm'.made, runs # << >>, UNCHANGED <<runs, closures>>
  PROVE  IInv'
<1>1. TypeOK'
  BY ClosuresStay DEF IInv, TypeOK, Sound
<1>2. RunsKept' /\ LeftoversFailed'
  BY DEF IInv, RunsKept, LeftoversFailed, FromHost
<1> QED
  BY <1>1, <1>2 DEF IInv

LEMMA PrologueSound ==
  ASSUME NEW m, Sound(m), NEW kind \in Kind, NEW limit \in Nat
  PROVE  LET n == Prologue(m, kind, limit)
         IN  /\ Sound(n) /\ n.made = m.made
             /\ n.frames = m.frames
             /\ n.frames # << >> => n.failed = m.failed
<1> DEFINE n == Prologue(m, kind, limit)
<1>1. CASE m.frames = << >>
  <2>1. /\ Sound(Reset(m)) /\ Reset(m).frames = << >> /\ Reset(m).made = m.made
    BY ResetSound
  <2>2. n = InitBudget(Reset(m), limit)
    BY <1>1 DEF Prologue
  <2>3. Sound(n) /\ Alike(Reset(m), n)
    BY <2>1, <2>2, BudgetSound
  <2> QED
    BY <1>1, <2>1, <2>3 DEF Alike
<1>2. CASE m.frames # << >> /\ kind = "init"
  <2>1. n = InitBudget(m, limit)
    BY <1>2 DEF Prologue
  <2> QED
    BY <2>1, BudgetSound DEF Alike
<1>3. CASE m.frames # << >> /\ kind # "init"
  BY <1>3 DEF Prologue
<1> QED
  BY <1>1, <1>2, <1>3

LEMMA EpilogueSound ==
  ASSUME NEW m, Sound(m), NEW run \in Run, run.kind = "init" /\ run.entry > 0 => run.budget # << >>
  PROVE  LET n == Epilogue(m, run)
         IN  /\ Sound(n) /\ n.made = m.made
             /\ n.frames # << >> => n.frames = m.frames /\ n.failed = m.failed
             /\ run.kind = "compiled" /\ m.failed => n.frames = << >> /\ ~n.failed
             /\ run.kind = "compiled" /\ ~m.failed => n = m
<1> DEFINE n == Epilogue(m, run)
<1>1. CASE run.kind = "init" /\ run.entry > 0
  <2>1. run.budget \in BOOLEAN \X Nat
    BY <1>1 DEF Run, Budget
  <2>2. run.budget[1] \in BOOLEAN /\ run.budget[2] \in Nat
    BY <2>1
  <2> DEFINE enabled == run.budget[1]
             gas == run.budget[2]
  <2>3. n = [m EXCEPT !.gasEnabled = enabled, !.gas = gas]
    BY <1>1 DEF Epilogue
  <2> HIDE DEF enabled, gas, n
  <2>4. n \in Machine /\ Alike(m, n) /\ n.failed = m.failed
    BY <2>2, <2>3 DEF Sound, Machine, Alike, enabled, gas
  <2>5. Sound(n)
    BY <2>4, AlikeSound
  <2> QED
    BY <1>1, <2>4, <2>5 DEF Alike, n
<1>2. CASE ~(run.kind = "init" /\ run.entry > 0) /\ run.kind = "compiled" /\ m.failed
  <2>1. n = Reset(m)
    BY <1>2 DEF Epilogue
  <2> QED
    BY <1>2, <2>1, ResetSound
<1>3. CASE ~(run.kind = "init" /\ run.entry > 0) /\ ~(run.kind = "compiled" /\ m.failed)
  BY <1>3 DEF Epilogue
<1> QED
  BY <1>1, <1>2, <1>3

LEMMA NewRunType ==
  ASSUME IInv, NEW kind \in Kind
  PROVE  /\ NewRun(kind) \in Run /\ NewRun(kind).entry = Depth(vm)
         /\ NewRun(kind).kind = kind
         /\ kind = "init" /\ Depth(vm) > 0 => NewRun(kind).budget # << >>
<1> DEFINE saved == IF vm.frames = << >> THEN NoValue ELSE Reg(vm, 0)
           kept == IF kind = "init" /\ vm.frames # << >> THEN <<vm.gasEnabled, vm.gas>> ELSE << >>
<1>1. Depth(vm) \in Nat /\ (Depth(vm) > 0 => vm.frames # << >>)
  BY FieldTypes DEF IInv, Sound, Depth
<1>2. saved \in Value
  <2>1. CASE vm.frames = << >>
    BY <2>1, VMAssumption
  <2>2. CASE vm.frames # << >>
    <3>1. vm.frames \in Seq(Frame) /\ Len(vm.frames) \in DOMAIN vm.frames
      BY <2>2, FieldTypes DEF IInv, Sound
    <3>2. 0 \in 0 .. TopFrame(vm).function.registers - 1
      BY <3>1, FrameTypes DEF IInv, Sound, TopFrame
    <3>3. vm.currentBase + 0 \in Register
      BY <2>2, <3>2, LocalRegister DEF IInv
    <3> QED
      BY <2>2, <3>3, FieldTypes DEF IInv, Sound, Reg
  <2> QED
    BY <2>1, <2>2
<1>3. kept \in Budget /\ (kind = "init" /\ vm.frames # << >> => kept # << >>)
  BY FieldTypes DEF IInv, Sound, Budget
<1>4. NewRun(kind) = [kind |-> kind, entry |-> Depth(vm), saved0 |-> saved, budget |-> kept, native |-> None]
  BY DEF NewRun
<1> HIDE DEF saved, kept
<1> QED
  BY <1>1, <1>2, <1>3, <1>4 DEF Run

LEMMA RefusedKeeps ==
  ASSUME IInv, NEW kind \in Kind, NEW limit \in Nat, Refused(kind, limit), UNCHANGED closures
  PROVE  IInv' /\ (kind = "compiled" => vm'.frames = << >> /\ ~vm'.failed)
<1> DEFINE m == Fail(Prologue(vm, kind, limit))
<1>1. Sound(m) /\ m.failed /\ m.made = vm.made
  BY PrologueSound, FailSound DEF IInv, Alike
<1>2. vm' = Epilogue(m, NewRun(kind)) /\ runs' = runs
  BY DEF Refused
<1> HIDE DEF m
<1>3. /\ Sound(vm') /\ vm'.made = vm.made
      /\ vm'.frames # << >> => vm'.failed
      /\ kind = "compiled" => vm'.frames = << >> /\ ~vm'.failed
  BY <1>1, <1>2, NewRunType, EpilogueSound
<1>4. TypeOK'
  <2>1. vm.made \in Nat
    BY FieldTypes DEF IInv, Sound
  <2> QED
    BY <1>2, <1>3, <2>1, ClosuresStay DEF IInv, TypeOK, Sound
<1>5. RunsKept' /\ LeftoversFailed'
  BY <1>2, <1>3 DEF IInv, RunsKept, LeftoversFailed, FromHost
<1> QED
  BY <1>3, <1>4, <1>5 DEF IInv

LEMMA EnteredKeeps ==
  ASSUME IInv, NEW kind \in Kind, NEW limit \in Nat, NEW function \in Function,
         NEW closure \in closures \cup {<< >>}, NEW args \in Seq(Value),
         Entered(kind, limit, function, closure, args), UNCHANGED closures
  PROVE  IInv' /\ (kind = "compiled" /\ runs' = << >> => vm'.frames = << >> /\ ~vm'.failed)
<1> DEFINE m == Prologue(vm, kind, limit)
           pushed == PushFrame(m, function, 0, closure)
           run == NewRun(kind)
           values == [i \in Register |-> IF i - pushed.currentBase \in 0 .. Len(args) - 1
                                         THEN args[i - pushed.currentBase + 1] ELSE pushed.registers[i]]
<1>1. /\ Sound(m) /\ m.made = vm.made /\ m.frames = vm.frames
      /\ m.frames # << >> => m.failed = vm.failed
  BY PrologueSound DEF IInv
<1>2. closure \in Seq(Upvalue) /\ \A j \in DOMAIN closure : closure[j] <= m.made
  BY <1>1, ClosureTypes
<1>3. Sound(pushed) /\ pushed.made = vm.made /\ (m.failed => pushed.failed)
  <2> HIDE DEF m
  <2> QED
    BY <1>1, <1>2, PushSound
<1>4. run \in Run /\ run.entry = Depth(vm) /\ run.kind = kind
      /\ (kind = "init" /\ Depth(vm) > 0 => run.budget # << >>)
  BY NewRunType
<1>5. vm.made \in Nat /\ runs \in Seq(Run)
  BY FieldTypes DEF IInv, Sound, TypeOK
<1>6. CASE pushed.failed
  <2>1. vm' = Epilogue(pushed, run) /\ runs' = runs
    BY <1>6 DEF Entered
  <2> HIDE DEF pushed, run
  <2>2. /\ Sound(vm') /\ vm'.made = vm.made
        /\ vm'.frames # << >> => vm'.failed
        /\ kind = "compiled" => vm'.frames = << >> /\ ~vm'.failed
    BY <1>3, <1>4, <1>6, <2>1, EpilogueSound
  <2>3. TypeOK'
    BY <1>5, <2>1, <2>2, ClosuresStay DEF IInv, TypeOK, Sound
  <2>4. RunsKept' /\ LeftoversFailed'
    BY <2>1, <2>2 DEF IInv, RunsKept, LeftoversFailed, FromHost
  <2> QED
    BY <2>2, <2>3, <2>4 DEF IInv
<1>7. CASE ~pushed.failed
  <2>1. vm' = [pushed EXCEPT !.registers = values] /\ runs' = Append(runs, run)
    BY <1>7 DEF Entered
  <2> HIDE DEF pushed, run, m
  <2>2. values \in [Register -> Value]
    <3> SUFFICES ASSUME NEW i \in Register PROVE values[i] \in Value
      OBVIOUS
    <3>1. i \in Int /\ pushed.currentBase \in Nat /\ pushed.registers[i] \in Value /\ Len(args) \in Nat
      <4>1. i \in Int
        BY VMAssumption DEF Register
      <4>2. pushed.registers \in [Register -> Value] /\ pushed.currentBase \in Nat
        BY <1>3, FieldTypes DEF Sound
      <4> QED
        BY <4>1, <4>2
    <3>2. i - pushed.currentBase \in 0 .. Len(args) - 1 => i - pushed.currentBase + 1 \in 1 .. Len(args)
      BY <3>1
    <3>3. \A j \in 1 .. Len(args) : args[j] \in Value
      OBVIOUS
    <3> QED
      BY <3>1, <3>2, <3>3
  <2> HIDE DEF values
  <2>3. Sound(vm') /\ vm'.made = vm.made
    BY <1>3, <2>1, <2>2, RegistersSound DEF Alike
  <2>4. runs' \in Seq(Run) /\ runs' # << >> /\ Len(runs') = Len(runs) + 1
    BY <1>4, <1>5, <2>1
  <2>5. TypeOK'
    BY <1>5, <2>3, <2>4, ClosuresStay DEF IInv, TypeOK, Sound
  <2>6. RunsKept'
    <3>1. \A k \in DOMAIN runs' : (k = Len(runs) + 1 /\ runs'[k] = run)
                                 \/ (k \in DOMAIN runs /\ runs'[k] = runs[k])
      <4>1. /\ Len(runs) \in Nat /\ DOMAIN runs = 1 .. Len(runs)
            /\ DOMAIN runs' = 1 .. Len(runs) + 1
        BY <1>5, <2>4
      <4>2. runs'[Len(runs) + 1] = run /\ \A k \in 1 .. Len(runs) : runs'[k] = runs[k]
        BY <1>4, <1>5, <2>1
      <4> QED
        BY <4>1, <4>2
    <3>2. \A k \in DOMAIN runs' : runs'[k].kind = "init" /\ runs'[k].entry > 0 => runs'[k].budget # << >>
      BY <1>4, <3>1 DEF IInv, RunsKept
    <3>3. CASE runs = << >>
      <4>1. vm.frames = << >>
        BY <1>1, <1>3, <1>7, <3>3 DEF IInv, LeftoversFailed, FromHost
      <4>2. runs'[1] = run /\ Depth(vm) = 0
        BY <1>4, <2>1, <3>3, <4>1 DEF Depth
      <4> QED
        BY <1>4, <3>2, <4>2 DEF RunsKept
    <3>4. CASE runs # << >>
      <4>1. runs'[1] = runs[1]
        BY <1>4, <1>5, <2>1, <3>4
      <4> QED
        BY <3>2, <3>4, <4>1 DEF IInv, RunsKept
    <3> QED
      BY <3>3, <3>4
  <2>7. LeftoversFailed'
    BY <2>4 DEF LeftoversFailed, FromHost
  <2> QED
    BY <2>3, <2>4, <2>5, <2>6, <2>7 DEF IInv
<1> QED
  BY <1>6, <1>7

LEMMA EnterKeeps ==
  ASSUME IInv, Enter
  PROVE  IInv' /\ (ExecuteCompiled /\ runs' = << >> => vm'.frames = << >> /\ ~vm'.failed)
<1>1. \A f \in Function : \A args \in Args(f) : args \in Seq(Value)
  BY VMAssumption, SeqDef DEF Args
<1>2. GasLimit \subseteq Nat /\ InitGas \in Nat /\ << >> \in closures \cup {<< >>} /\ << >> \in Seq(Value)
  BY VMAssumption
<1>3. ASSUME ExecuteCompiled
      PROVE  IInv' /\ (runs' = << >> => vm'.frames = << >> /\ ~vm'.failed)
  <2>1. "compiled" \in Kind /\ UNCHANGED closures
    BY <1>3 DEF ExecuteCompiled
  <2>2. ASSUME NEW limit \in GasLimit, Refused("compiled", limit)
        PROVE  IInv' /\ (runs' = << >> => vm'.frames = << >> /\ ~vm'.failed)
    BY <1>2, <2>1, <2>2, RefusedKeeps
  <2>3. ASSUME NEW limit \in GasLimit, NEW f \in Function, NEW args \in Args(f),
               Entered("compiled", limit, f, << >>, args)
        PROVE  IInv' /\ (runs' = << >> => vm'.frames = << >> /\ ~vm'.failed)
    BY <1>1, <1>2, <2>1, <2>3, EnteredKeeps
  <2> QED
    BY <1>3, <2>2, <2>3 DEF ExecuteCompiled
<1>4. ASSUME ExecuteDirect PROVE IInv'
  <2>1. "direct" \in Kind /\ UNCHANGED closures
    BY <1>4 DEF ExecuteDirect
  <2>2. ASSUME Refused("direct", InitGas) PROVE IInv'
    BY <1>2, <2>1, <2>2, RefusedKeeps
  <2>3. ASSUME NEW f \in Function, NEW c \in closures \cup {<< >>}, NEW args \in Args(f),
               Entered("direct", InitGas, f, c, args)
        PROVE  IInv'
    BY <1>1, <1>2, <2>1, <2>3, EnteredKeeps
  <2> QED
    BY <1>4, <2>2, <2>3 DEF ExecuteDirect
<1>5. ASSUME LoadModule PROVE IInv'
  <2>1. "init" \in Kind /\ UNCHANGED closures
    BY <1>5 DEF LoadModule
  <2>2. PICK f \in Function : Entered("init", InitGas, f, << >>, << >>)
    BY <1>5 DEF LoadModule
  <2> QED
    BY <1>2, <2>1, <2>2, EnteredKeeps
<1> QED
  BY <1>3, <1>4, <1>5 DEF Enter

-----------------------------------------------------------------------------
(* The instructions                                                          *)

LEMMA TopTypes ==
  ASSUME IInv, runs # << >>
  PROVE  Len(runs) \in DOMAIN runs /\ Top \in Run /\ Top.entry \in Nat /\ Top.saved0 \in Value
<1>1. runs \in Seq(Run)
  BY DEF IInv, TypeOK
<1>2. Len(runs) \in DOMAIN runs
  BY <1>1
<1>3. Top \in Run
  BY <1>1, <1>2 DEF Top
<1> QED
  BY <1>2, <1>3 DEF Run

LEMMA ExecutingHasFrame ==
  ASSUME IInv, Executing
  PROVE  /\ vm.frames # << >> /\ runs # << >> /\ Len(vm.frames) \in DOMAIN vm.frames
         /\ vm.made \in Nat /\ TopFrame(vm).return \in Nat
         /\ \A r \in Locals : r \in Nat /\ Reg(vm, r) \in Value
<1>1. runs # << >> /\ Depth(vm) > Top.entry
  <2>1. runs # << >> /\ ~RunOver
    BY DEF Executing
  <2>2. Depth(vm) \in Nat /\ Top.entry \in Nat
    BY <2>1, TopTypes, FieldTypes DEF IInv, Sound, Depth
  <2> QED
    BY <2>1, <2>2 DEF RunOver
<1>2. Top.entry \in Nat
  BY <1>1, TopTypes
<1>3. vm.frames \in Seq(Frame) /\ vm.made \in Nat /\ vm.registers \in [Register -> Value]
  BY FieldTypes DEF IInv, Sound
<1>4. vm.frames # << >> /\ Len(vm.frames) \in DOMAIN vm.frames
  BY <1>1, <1>2, <1>3 DEF Depth
<1>5. TopFrame(vm).return \in Nat
  BY <1>4, FrameTypes DEF IInv, Sound, TopFrame
<1>6. ASSUME NEW r \in Locals PROVE r \in Nat /\ Reg(vm, r) \in Value
  BY <1>3, <1>4, LocalRegister DEF IInv, Locals, Reg
<1> QED
  BY <1>1, <1>3, <1>4, <1>5, <1>6

LEMMA ScriptCallSound ==
  ASSUME IInv, Executing, NEW dest \in Locals, NEW f \in Function, NEW c \in closures \cup {<< >>},
         dest + f.params \in Locals, ScriptCall(dest, f, c)
  PROVE  Sound(vm') /\ vm'.made = vm.made
<1> DEFINE pushed == PushFrame(vm, f, dest, c)
           Arg(i) == i - pushed.currentBase
           values == [i \in Register |-> IF Arg(i) \in 0 .. f.params - 1
                                         THEN Reg(vm, dest + 1 + Arg(i)) ELSE pushed.registers[i]]
<1>1. dest \in Nat /\ f.params \in Nat /\ \A r \in Locals : Reg(vm, r) \in Value
  BY ExecutingHasFrame, VMAssumption
<1>2. Sound(pushed) /\ pushed.made = vm.made
  BY <1>1, ClosureTypes, PushSound DEF IInv
<1>3. vm' = IF pushed.failed THEN pushed ELSE [pushed EXCEPT !.registers = values]
  BY DEF ScriptCall
<1> HIDE DEF pushed
<1>4. values \in [Register -> Value]
  <2> SUFFICES ASSUME NEW i \in Register PROVE values[i] \in Value
    OBVIOUS
  <2>1. i \in Int
    BY VMAssumption DEF Register
  <2>2. pushed.registers \in [Register -> Value] /\ pushed.currentBase \in Nat
    BY <1>2, FieldTypes DEF Sound
  <2>3. Arg(i) \in 0 .. f.params - 1 => dest + 1 + Arg(i) \in Locals
    <3>1. vm.frames # << >> /\ Len(vm.frames) \in DOMAIN vm.frames
      BY ExecutingHasFrame
    <3>2. TopFrame(vm).function.registers \in Nat
      BY <3>1, FrameTypes DEF IInv, Sound, TopFrame
    <3>3. dest + f.params <= TopFrame(vm).function.registers - 1
      BY <1>1, <3>2 DEF Locals
    <3>4. \A a \in 0 .. f.params - 1 : dest + 1 + a \in Locals
      BY <1>1, <3>2, <3>3 DEF Locals
    <3> QED
      BY <3>4
  <2> QED
    BY <1>1, <2>2, <2>3
<1> HIDE DEF values
<1>5. CASE pushed.failed
  BY <1>2, <1>3, <1>5
<1>6. CASE ~pushed.failed
  BY <1>2, <1>3, <1>4, <1>6, RegistersSound DEF Alike
<1> QED
  BY <1>5, <1>6

LEMMA InstructionKeeps ==
  ASSUME IInv, Assign \/ Raise \/ JumpBack \/ Call \/ MakeClosure \/ GetUpval \/ SetUpval \/ Ret \/ RetVoid
  PROVE  IInv'
<1>1. Executing /\ Sound(vm)
  BY DEF IInv, Assign, Raise, JumpBack, Call, MakeClosure, GetUpval, SetUpval, Ret, RetVoid
<1>2. /\ vm.frames # << >> /\ runs # << >> /\ Len(vm.frames) \in DOMAIN vm.frames
      /\ vm.made \in Nat /\ \A r \in Locals : r \in Nat /\ Reg(vm, r) \in Value
  BY <1>1, ExecutingHasFrame
<1>3. \A i \in DOMAIN TopFrame(vm).closure :
        TopFrame(vm).closure[i] \in Upvalue /\ TopFrame(vm).closure[i] <= vm.made
  <2>1. TopFrame(vm).closure \in Seq(Upvalue)
    BY <1>1, <1>2, FrameTypes DEF Sound, TopFrame
  <2> QED
    BY <1>1, <1>2, <2>1 DEF Sound, ClosuresMade, TopFrame
<1>4. ASSUME UNCHANGED closures, Sound(vm'), vm'.made = vm.made, UNCHANGED runs PROVE IInv'
  BY <1>2, <1>4, InsideKeeps
<1>5. CASE Assign
  BY <1>1, <1>4, <1>5, SetRegSound DEF Assign, Alike
<1>6. CASE Raise
  BY <1>1, <1>4, <1>6, FailSound DEF Raise, Alike
<1>7. CASE JumpBack
  BY <1>1, <1>4, <1>7, GasSound DEF JumpBack, Alike
<1>8. CASE Call
  <2>1. PICK dest \in Locals, f \in Function, c \in closures \cup {<< >>} :
          dest + f.params \in Locals /\ ScriptCall(dest, f, c)
    BY <1>8 DEF Call
  <2>2. UNCHANGED <<runs, closures>>
    BY <1>8 DEF Call
  <2> QED
    BY <1>1, <1>4, <2>1, <2>2, ScriptCallSound
<1>9. CASE GetUpval
  BY <1>1, <1>3, <1>4, <1>9, ReadType, SetRegSound DEF GetUpval, Alike, Sound
<1>10. CASE SetUpval
  BY <1>1, <1>2, <1>3, <1>4, <1>10, WriteSound DEF SetUpval, Alike
<1>11. CASE Ret
  <2>1. PICK r \in Locals :
          vm' = IF PopFrame(vm).frames # << >>
                THEN SetReg(PopFrame(vm), TopFrame(vm).return, Reg(vm, r)) ELSE PopFrame(vm)
    BY <1>11 DEF Ret
  <2>2. UNCHANGED <<runs, closures>>
    BY <1>11 DEF Ret
  <2>3. Sound(PopFrame(vm)) /\ PopFrame(vm).made = vm.made
    BY <1>1, <1>2, PopSound
  <2>4. Sound(vm') /\ vm'.made = vm.made
    BY <1>2, <2>1, <2>3, SetRegSound DEF Alike
  <2> QED
    BY <1>4, <2>2, <2>4
<1>12. CASE RetVoid
  BY <1>1, <1>2, <1>4, <1>12, PopSound DEF RetVoid
<1>13. CASE MakeClosure
  <2>1. UNCHANGED runs
    BY <1>13 DEF MakeClosure
  <2>2. ASSUME NEW n \in Machine, Sound(n), vm.made <= n.made, vm' = n,
               NEW u \in Upvalue, u <= n.made, closures' = closures \cup {<<u>>}
        PROVE  IInv'
    <3>1. u \in 1 .. n.made
      BY <2>2, FieldTypes DEF Upvalue
    <3>2. TypeOK'
      BY <2>1, <2>2, <3>1, ClosuresStay DEF IInv, TypeOK
    <3>3. RunsKept' /\ LeftoversFailed'
      BY <1>2, <2>1 DEF IInv, RunsKept, LeftoversFailed, FromHost
    <3> QED
      BY <2>2, <3>2, <3>3 DEF IInv
  <2>3. ASSUME NEW r \in Captured \cap Locals, UpvalueFor(vm, r) \in Upvalue,
               vm' = Capture(vm, UpvalueFor(vm, r), r),
               closures' = closures \cup {<<UpvalueFor(vm, r)>>}
        PROVE  IInv'
    <3>1. LET n == Capture(vm, UpvalueFor(vm, r), r)
          IN  Sound(n) /\ vm.made <= n.made /\ UpvalueFor(vm, r) <= n.made
      BY <1>1, <1>2, <2>3, CaptureSound DEF Locals
    <3> QED
      BY <2>2, <2>3, <3>1 DEF Sound
  <2>4. ASSUME NEW i \in DOMAIN TopFrame(vm).closure, UNCHANGED vm,
               closures' = closures \cup {<<TopFrame(vm).closure[i]>>}
        PROVE  IInv'
    <3>1. vm.made <= vm.made
      BY <1>2
    <3> QED
      BY <1>1, <1>3, <2>2, <2>4, <3>1 DEF Sound
  <2> QED
    BY <1>13, <2>3, <2>4 DEF MakeClosure
<1> QED
  BY <1>5, <1>6, <1>7, <1>8, <1>9, <1>10, <1>11, <1>12, <1>13

(* A native starts and ends: its destination comes and goes. *)
LEMMA NativeKeeps ==
  ASSUME IInv, CallNative \/ NativeFails \/ NativeReturns
  PROVE  IInv'
<1>1. Sound(vm) /\ runs # << >> /\ runs \in Seq(Run) /\ Len(runs) \in DOMAIN runs /\ vm.made \in Nat
  <2>1. runs # << >> /\ runs \in Seq(Run)
    BY DEF IInv, TypeOK, CallNative, NativeFails, NativeReturns, Executing, InNative
  <2>2. vm.made \in Nat
    BY FieldTypes DEF IInv, Sound
  <2> QED
    BY <2>1, <2>2 DEF IInv
<1>2. ASSUME NEW native \in Nat \cup {None}, runs' = [runs EXCEPT ![Len(runs)].native = native],
             Sound(vm'), vm'.made = vm.made, UNCHANGED closures
      PROVE  IInv'
  <2>1. [runs[Len(runs)] EXCEPT !.native = native] \in Run
    <3>1. \A x \in Run : [x EXCEPT !.native = native] \in Run
      BY DEF Run
    <3>2. runs[Len(runs)] \in Run
      BY <1>1
    <3> QED
      BY <3>1, <3>2
  <2>2. runs' \in Seq(Run) /\ DOMAIN runs' = DOMAIN runs /\ runs' # << >>
    BY <1>1, <1>2, <2>1
  <2>3. \A k \in DOMAIN runs : /\ runs'[k].kind = runs[k].kind /\ runs'[k].entry = runs[k].entry
                               /\ runs'[k].budget = runs[k].budget
    BY <1>1, <1>2 DEF Run
  <2>4. TypeOK'
    BY <1>1, <1>2, <2>2, ClosuresStay DEF IInv, TypeOK, Sound
  <2>5. RunsKept' /\ LeftoversFailed'
    BY <1>1, <2>2, <2>3 DEF IInv, RunsKept, LeftoversFailed, FromHost
  <2> QED
    BY <1>2, <2>4, <2>5 DEF IInv
<1>3. CASE CallNative
  <2>1. PICK dest \in Locals, paid \in {vm, ConsumeGas(vm)} :
          /\ vm' = paid
          /\ runs' = IF paid.failed THEN runs ELSE [runs EXCEPT ![Len(runs)].native = dest]
    BY <1>3 DEF CallNative
  <2>2. Executing /\ UNCHANGED closures
    BY <1>3 DEF CallNative
  <2>3. Sound(vm') /\ vm'.made = vm.made /\ dest \in Nat
    BY <1>1, <2>1, <2>2, GasSound, ExecutingHasFrame DEF Alike
  <2>4. CASE paid.failed
    BY <1>1, <2>1, <2>2, <2>3, <2>4, InsideKeeps
  <2>5. CASE ~paid.failed
    BY <1>2, <2>1, <2>2, <2>3, <2>5
  <2> QED
    BY <2>4, <2>5
<1>4. CASE NativeFails
  BY <1>1, <1>4, FailSound, InsideKeeps DEF NativeFails, Alike
<1>5. CASE NativeReturns
  <2>1. PICK v \in Value : vm' = IF vm.failed THEN vm ELSE SetReg(vm, Top.native, v)
    BY <1>5 DEF NativeReturns
  <2>2. Sound(vm') /\ vm'.made = vm.made
    BY <1>1, <2>1, SetRegSound DEF Alike
  <2> QED
    BY <1>2, <1>5, <2>2 DEF NativeReturns
<1> QED
  BY <1>3, <1>4, <1>5

LEMMA LeaveKeeps ==
  ASSUME IInv, LeaveRun
  PROVE  IInv' /\ (Top.kind = "compiled" /\ runs' = << >> => vm'.frames = << >> /\ ~vm'.failed)
<1> DEFINE m == IF Top.entry > 0 /\ vm.frames # << >> THEN SetReg(vm, 0, Top.saved0) ELSE vm
<1>1. /\ runs # << >> /\ runs \in Seq(Run) /\ RunOver
      /\ vm' = Epilogue(m, Top) /\ runs' = Front(runs) /\ UNCHANGED closures
  BY DEF LeaveRun, IInv, TypeOK
<1>2. /\ Top \in Run /\ Top.saved0 \in Value /\ Top.entry \in Nat
      /\ Top.kind = "init" /\ Top.entry > 0 => Top.budget # << >>
  BY <1>1, TopTypes DEF IInv, RunsKept, Top
<1>3. Sound(m) /\ m.made = vm.made /\ m.frames = vm.frames /\ m.failed = vm.failed
  BY <1>2, SetRegSound DEF IInv, Alike
<1> HIDE DEF m
<1>4. /\ Sound(vm') /\ vm'.made = vm.made
      /\ vm'.frames # << >> => vm'.frames = m.frames /\ vm'.failed = m.failed
      /\ Top.kind = "compiled" /\ m.failed => vm'.frames = << >> /\ ~vm'.failed
      /\ Top.kind = "compiled" /\ ~m.failed => vm' = m
  BY <1>1, <1>2, <1>3, EpilogueSound
<1>5. /\ runs' \in Seq(Run) /\ DOMAIN runs' = 1 .. Len(runs) - 1 /\ Len(runs) \in Nat
      /\ \A k \in 1 .. Len(runs) - 1 : runs'[k] = runs[k] /\ k \in DOMAIN runs
  BY <1>1 DEF Front
<1>6. runs' = << >> => Top.entry = 0
  <2>1. runs' = << >> => Len(runs) = 1
    <3>1. \A s \in Seq(Run) : s = << >> => DOMAIN s = {}
      OBVIOUS
    <3>2. runs' = << >> => ~(1 \in 1 .. Len(runs) - 1)
      BY <1>5, <3>1
    <3>3. Len(runs) \in Nat \ {0}
      BY <1>1
    <3>4. \A n \in Nat \ {0} : n # 1 => 1 \in 1 .. n - 1
      OBVIOUS
    <3> QED
      BY <3>2, <3>3, <3>4
  <2> QED
    BY <1>1, <2>1 DEF IInv, RunsKept, Top
<1>7. runs' = << >> /\ ~vm.failed => vm.frames = << >>
  <2>1. Depth(vm) \in Nat /\ (Depth(vm) = 0 => vm.frames = << >>)
    BY FieldTypes DEF IInv, Sound, Depth
  <2> QED
    BY <1>1, <1>6, <2>1 DEF RunOver
<1>8. TypeOK'
  <2>1. vm.made \in Nat
    BY FieldTypes DEF IInv, Sound
  <2> QED
    BY <1>1, <1>4, <1>5, <2>1, ClosuresStay DEF IInv, TypeOK, Sound
<1>9. RunsKept'
  <2>1. runs' # << >> => 1 \in 1 .. Len(runs) - 1
    <3>1. \A s \in Seq(Run) : s # << >> => 1 \in DOMAIN s
      OBVIOUS
    <3> QED
      BY <1>5, <3>1
  <2> QED
    BY <1>1, <1>5, <2>1 DEF IInv, RunsKept
<1>10. LeftoversFailed'
  BY <1>3, <1>4, <1>7 DEF LeftoversFailed, FromHost
<1>11. Top.kind = "compiled" /\ runs' = << >> => vm'.frames = << >> /\ ~vm'.failed
  BY <1>3, <1>4, <1>7
<1> QED
  BY <1>4, <1>8, <1>9, <1>10, <1>11 DEF IInv

LEMMA Initially == Init => IInv
<1> SUFFICES ASSUME Init PROVE IInv
  OBVIOUS
<1> USE VMAssumption
<1>1. /\ vm.frames = << >> /\ vm.stackTop = 0 /\ vm.currentBase = 0 /\ vm.made = 0
      /\ vm.location = [u \in Upvalue |-> None] /\ runs = << >> /\ closures = {}
  BY DEF Init
<1>2. vm \in Machine
  <2>1. [i \in Register |-> NoValue] \in [Register -> Value] /\ [u \in Upvalue |-> NoValue] \in [Upvalue -> Value]
    OBVIOUS
  <2>2. [u \in Upvalue |-> None] \in [Upvalue -> Address]
    BY DEF Address
  <2>3. << >> \in Seq(Frame)
    OBVIOUS
  <2> QED
    BY <2>1, <2>2, <2>3 DEF Init, Machine
<1>3. Sound(vm)
  BY <1>1, <1>2 DEF Sound, WindowsTile, Apart, UpvaluesInFrames, ClosuresMade, Depth
<1>4. TypeOK /\ RunsKept /\ LeftoversFailed
  BY <1>1, <1>2 DEF TypeOK, RunsKept, LeftoversFailed
<1> QED
  BY <1>3, <1>4 DEF IInv

LEMMA NextKeeps ==
  ASSUME IInv, [Next]_vars
  PROVE  IInv'
<1>1. CASE Enter
  BY <1>1, EnterKeeps
<1>2. CASE ResetError
  <2>1. vm' = Reset(vm) /\ UNCHANGED <<runs, closures>>
    BY <1>2 DEF ResetError
  <2>2. Sound(vm') /\ vm'.frames = << >> /\ vm'.made = vm.made /\ vm.made \in Nat
    BY <2>1, ResetSound, FieldTypes DEF IInv, Sound
  <2>3. TypeOK'
    BY <2>1, <2>2, ClosuresStay DEF IInv, TypeOK, Sound
  <2> QED
    BY <2>1, <2>2, <2>3 DEF IInv, RunsKept, LeftoversFailed
<1>3. CASE Assign \/ Raise \/ JumpBack \/ Call \/ MakeClosure \/ GetUpval \/ SetUpval \/ Ret \/ RetVoid
  BY <1>3, InstructionKeeps
<1>4. CASE CallNative \/ NativeFails \/ NativeReturns
  BY <1>4, NativeKeeps
<1>5. CASE LeaveRun
  BY <1>5, LeaveKeeps
<1>6. CASE UNCHANGED vars
  BY <1>6 DEF vars, IInv, TypeOK, RunsKept, LeftoversFailed, FromHost, Sound, WindowsTile, Apart,
              UpvaluesInFrames, ClosuresMade, Depth, TopFrame
<1> QED
  BY <1>1, <1>2, <1>3, <1>4, <1>5, <1>6 DEF Next

LEMMA Inductive == Spec => []IInv
<1>1. IInv /\ [Next]_vars => IInv'
  BY NextKeeps
<1> QED
  BY Initially, <1>1, PTL DEF Spec

-----------------------------------------------------------------------------

(* Every register, frame, upvalue and activation has its type in every state *)
(* of every program: push_frame and pop_frame never leave the register file. *)
THEOREM TypeCorrect == Spec => []TypeOK
<1>1. IInv => TypeOK
  BY DEF IInv
<1> QED
  BY Inductive, <1>1, PTL

(* The frames tile the registers, and an open upvalue points into the window *)
(* of the one frame that has it: close_upvalues in pop_frame and in reset    *)
(* leaves no pointer to a register of a frame that is gone, whatever fails   *)
(* and however C++ and scripts nest.                                         *)
THEOREM FramesInShape == Spec => []StackShape
<1>1. IInv => StackShape
  BY DEF IInv, Sound, StackShape
<1> QED
  BY Inductive, <1>1, PTL

(* When no C++ activation is left, there are frames only if the machine has *)
(* failed and nobody has reset it.                                          *)
THEOREM OnlyFailuresLeave == Spec => []LeftoversFailed
<1>1. IInv => LeftoversFailed
  BY DEF IInv
<1> QED
  BY Inductive, <1>1, PTL

(* execute_compiled called by the host leaves no frames and no failure. *)
THEOREM CompiledIsClean == Spec => CompiledLeavesClean
<1>1. IInv /\ [Next]_vars =>
        [/\ ExecuteCompiled \/ (LeaveRun /\ Top.kind = "compiled")
         /\ runs' = << >>
         => vm'.frames = << >> /\ ~vm'.failed]_vars
  <2> SUFFICES ASSUME IInv, ExecuteCompiled \/ (LeaveRun /\ Top.kind = "compiled"), runs' = << >>
               PROVE  vm'.frames = << >> /\ ~vm'.failed
    OBVIOUS
  <2>1. CASE ExecuteCompiled
    BY <2>1, EnterKeeps DEF Enter
  <2>2. CASE LeaveRun /\ Top.kind = "compiled"
    BY <2>2, LeaveKeeps
  <2> QED
    BY <2>1, <2>2
<1> QED
  BY Inductive, <1>1, PTL DEF Spec, CompiledLeavesClean
=============================================================================
