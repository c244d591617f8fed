-------------------------- MODULE CallStack_proofs --------------------------
(***************************************************************************)
(* VirtualMachine implements CallStack: scripts see activations with       *)
(* variables of their own, and captured variables that outlive them.       *)
(***************************************************************************)
EXTENDS VirtualMachine_proofs

(* Register 0 is not captured: execute puts it back after a nested run,    *)
(* whatever was written to it in between.  Values are not upvalues.        *)
CapturesApart == 0 \notin Captured /\ Value \cap Upvalue = {}

-----------------------------------------------------------------------------
(* What the shape of the frames leaves open                                  *)

(* A function returns into the window of the one below, and no upvalue is *)
(* at the register that execute saves.                                    *)
ReturnsFit(m) ==
  \A i \in 2 .. Len(m.frames) : m.frames[i].return < m.frames[i - 1].function.registers
BasesPlain(m) ==
  \A i \in DOMAIN m.frames : \A u \in m.frames[i].open : m.location[u] # m.frames[i].base
Firm(m) == Sound(m) /\ ReturnsFit(m) /\ BasesPlain(m)

(* A native of every run but the last is in progress, and the next run     *)
(* starts above it, or from no frames after a reset.                       *)
RunsNest(R) ==
  \A k \in 1 .. Len(R) - 1 :
    R[k].native # None /\ (R[k + 1].entry = 0 \/ R[k + 1].entry > R[k].entry)

(* What a run finds when it ends: the frame it interrupted, with a register *)
(* for the result of the native that runs it, and while it has frames, the  *)
(* register 0 that it saved.                                                *)
Resumable(m, R) ==
  \A k \in Current(R) : R[k].entry > 0 =>
    /\ R[k].entry <= Len(m.frames)
    /\ R[k - 1].native < m.frames[R[k].entry].function.registers
    /\ R[k].entry < Len(m.frames) =>
         /\ R[k].saved0 = m.registers[m.frames[R[k].entry].base]
         /\ m.frames[R[k].entry + 1].return = 0

InCall(m, R) ==
  Last(R).native # None =>
    Last(R).entry < Len(m.frames) /\ Last(R).native < TopFrame(m).function.registers

Live(m) == ~m.failed /\ m.frames # << >>
Nested(m, R) == RunsNest(R) /\ (Live(m) => Resumable(m, R) /\ InCall(m, R))

JInv == Firm(vm) /\ Nested(vm, runs)

-----------------------------------------------------------------------------
(* Variables and cells                                                       *)

LEMMA FrameRegister ==
  ASSUME NEW m, Sound(m), NEW i \in DOMAIN m.frames, NEW r \in 0 .. m.frames[i].function.registers - 1
  PROVE  /\ m.frames[i].base + r \in Register
         /\ m.frames[i].base + r \in m.frames[i].base .. End(m.frames[i]) - 1
         /\ m.frames[i].base + r < m.stackTop
<1>1. /\ m.frames[i].base \in Nat /\ m.frames[i].function.registers \in Nat \ {0}
      /\ End(m.frames[i]) \in Nat
  BY FrameTypes DEF Sound
<1>2. End(m.frames[i]) <= m.stackTop /\ m.stackTop <= MaxRegisters /\ m.stackTop \in Nat
  BY FieldTypes DEF Sound, Apart, WindowsTile
<1> QED
  BY <1>1, <1>2, VMAssumption DEF Register, End

(* Registers of two frames, or two of one frame, are different. *)
LEMMA RegistersApart ==
  ASSUME NEW m, Sound(m), NEW i \in DOMAIN m.frames, NEW j \in DOMAIN m.frames,
         NEW r \in 0 .. m.frames[i].function.registers - 1,
         NEW s \in 0 .. m.frames[j].function.registers - 1,
         m.frames[i].base + r = m.frames[j].base + s
  PROVE  i = j /\ r = s
<1>1. /\ m.frames[i].base \in Nat /\ m.frames[j].base \in Nat /\ r \in Int /\ s \in Int
      /\ End(m.frames[i]) \in Nat /\ End(m.frames[j]) \in Nat
      /\ m.frames[i].function.registers \in Nat /\ m.frames[j].function.registers \in Nat
  BY FrameTypes, SMTT(40) DEF Sound
<1>2. i \in Int /\ j \in Int
  BY FieldTypes DEF Sound
<1>3. ~(i < j) /\ ~(j < i)
  BY <1>1, FrameRegister DEF Sound, Apart
<1>4. i = j
  BY <1>2, <1>3
<1> QED
  BY <1>1, <1>4

(* The one upvalue at a register of a frame is open in that frame. *)
LEMMA HolderIs ==
  ASSUME NEW m, Sound(m), NEW i \in DOMAIN m.frames,
         NEW r \in 0 .. m.frames[i].function.registers - 1,
         NEW u \in Upvalue
  PROVE  u \in Holders(m, m.frames[i], r) <=> m.location[u] = m.frames[i].base + r
<1> DEFINE f == m.frames[i]
<1>1. /\ f.base + r \in Register /\ f.base + r \in f.base .. End(f) - 1
      /\ f.base + r # None
  BY FrameRegister, VMAssumption DEF Register
<1>2. DOMAIN m.frames = 1 .. Depth(m) /\ Depth(m) \in Nat
  BY FieldTypes DEF Sound, Depth
<1>3. ASSUME m.location[u] = f.base + r PROVE u \in f.open
  <2>1. \E j \in 1 .. Depth(m) : u \in m.frames[j].open
    BY <1>1, <1>3 DEF Sound, UpvaluesInFrames
  <2>2. PICK j \in DOMAIN m.frames : u \in m.frames[j].open
    BY <1>2, <2>1
  <2>3. m.location[u] \in m.frames[j].base .. End(m.frames[j]) - 1
    BY <1>2, <2>2 DEF Sound, UpvaluesInFrames
  <2>4. /\ m.frames[j].base \in Nat /\ End(m.frames[j]) \in Nat
        /\ f.base \in Nat /\ End(f) \in Nat /\ i \in Int /\ j \in Int
    BY <1>2, FrameTypes DEF Sound
  <2>5. ~(i < j) /\ ~(j < i)
    BY <1>1, <1>3, <2>3, <2>4 DEF Sound, Apart
  <2> QED
    BY <2>2, <2>4, <2>5
<1> HIDE DEF f
<1> QED
  BY <1>3 DEF Holders, f

LEMMA HolderAlone ==
  ASSUME NEW m, Sound(m), NEW i \in DOMAIN m.frames,
         NEW r \in 0 .. m.frames[i].function.registers - 1,
         NEW u \in Holders(m, m.frames[i], r)
  PROVE  Holders(m, m.frames[i], r) = {u} /\ u \in Upvalue /\ u <= m.made
<1> DEFINE f == m.frames[i]
           a == f.base + r
<1>1. a \in Register /\ a # None
  BY FrameRegister, VMAssumption DEF Register
<1>2. f.open \subseteq Upvalue /\ i \in 1 .. Depth(m)
  BY FrameTypes, FieldTypes DEF Sound, Depth
<1>3. Holders(m, f, r) = {w \in f.open : m.location[w] = a}
  BY DEF Holders
<1> HIDE DEF a
<1>4. u \in f.open /\ u \in Upvalue /\ m.location[u] = a
  BY <1>2, <1>3
<1>5. \A w \in Upvalue : m.location[w] = a => w = u
  BY <1>1, <1>4 DEF Sound, UpvaluesInFrames
<1>6. u <= m.made
  BY <1>2, <1>4 DEF Sound, UpvaluesInFrames
<1>7. {w \in f.open : m.location[w] = a} = {u}
  BY <1>2, <1>4, <1>5
<1> QED
  BY <1>3, <1>4, <1>6, <1>7

(* A frame shows the same variables when nothing in its window changed. *)
LEMMA SameVariables ==
  ASSUME NEW m, NEW n, NEW f, NEW g, f.base = g.base, f.function = g.function, f.open = g.open,
         \A u \in f.open : n.location[u] = m.location[u],
         \A r \in 0 .. f.function.registers - 1 :
            n.registers[f.base + r] = m.registers[f.base + r]
  PROVE  Variables(n, g) = Variables(m, f)
<1>1. ASSUME NEW r PROVE Holders(n, g, r) = Holders(m, f, r)
  BY DEF Holders
<1> DEFINE One(S) == CHOOSE u \in S : TRUE
           V(l, k, r) == IF Holders(l, k, r) # {} THEN One(Holders(l, k, r)) ELSE l.registers[k.base + r]
           R == 0 .. f.function.registers - 1
<1>2. ASSUME NEW r \in R PROVE V(n, g, r) = V(m, f, r)
  <2> HIDE DEF One
  <2> QED
    BY <1>1
<1>3. Variables(n, g) = [r \in R |-> V(n, g, r)] /\ Variables(m, f) = [r \in R |-> V(m, f, r)]
  BY DEF Variables
<1> HIDE DEF V, R
<1> QED
  BY <1>2, <1>3

(* Cells are read the same when the registers below stack_top_ did not     *)
(* change and no upvalue was opened or closed.                             *)
LEMMA SameCells ==
  ASSUME NEW m, Sound(m), NEW n, n.location = m.location, n.closed = m.closed, n.made = m.made,
         \A a \in Register : a < m.stackTop => n.registers[a] = m.registers[a]
  PROVE  Cells(n) = Cells(m)
<1>1. ASSUME NEW u \in Upvalue PROVE Read(n, u) = Read(m, u)
  <2>1. CASE m.location[u] = None
    BY <2>1 DEF Read
  <2>2. CASE m.location[u] # None
    <3>1. DOMAIN m.frames = 1 .. Depth(m)
      BY FieldTypes DEF Sound, Depth
    <3>2. PICK i \in DOMAIN m.frames : u \in m.frames[i].open
      BY <2>2, <3>1 DEF Sound, UpvaluesInFrames
    <3>3. m.location[u] \in m.frames[i].base .. End(m.frames[i]) - 1
      BY <3>1, <3>2 DEF Sound, UpvaluesInFrames
    <3>4. /\ m.location[u] \in Register /\ m.frames[i].base \in Nat /\ End(m.frames[i]) \in Nat
          /\ End(m.frames[i]) <= m.stackTop /\ m.stackTop \in Nat
      BY <3>2, OpenInRegisters, FrameTypes, FieldTypes DEF Sound, Apart
    <3>5. m.location[u] < m.stackTop
      BY <3>3, <3>4
    <3> QED
      BY <2>2, <3>4, <3>5 DEF Read
  <2> QED
    BY <2>1, <2>2
<1> QED
  BY <1>1 DEF Cells

(* A local is the upvalue that points at its register, or what is there. *)
LEMMA VariableIs ==
  ASSUME NEW m, Sound(m), NEW i \in DOMAIN m.frames,
         NEW r \in 0 .. m.frames[i].function.registers - 1
  PROVE  LET x == Variables(m, m.frames[i])[r]
             a == m.frames[i].base + r
         IN  /\ \A u \in Upvalue : m.location[u] = a => x = u
             /\ (\A u \in Upvalue : m.location[u] # a) => x = m.registers[a]
<1> DEFINE f == m.frames[i]
           H == Holders(m, f, r)
<1>1. Variables(m, f)[r] = IF H # {} THEN CHOOSE u \in H : TRUE ELSE m.registers[f.base + r]
  BY DEF Variables
<1>2. ASSUME NEW u \in Upvalue, m.location[u] = f.base + r PROVE H = {u}
  <2>1. u \in Holders(m, m.frames[i], r)
    BY <1>2, HolderIs
  <2>2. Holders(m, m.frames[i], r) = {u}
    BY <2>1, HolderAlone
  <2> QED
    BY <2>2
<1>3. ASSUME \A u \in Upvalue : m.location[u] # f.base + r PROVE H = {}
  <2>1. f.open \subseteq Upvalue
    BY FrameTypes DEF Sound
  <2> QED
    BY <1>3, <2>1 DEF Holders
<1>4. ASSUME NEW u \in Upvalue, m.location[u] = f.base + r PROVE Variables(m, f)[r] = u
  <2>1. Variables(m, f)[r] = CHOOSE w \in {u} : TRUE
    <3>1. H = {u}
      BY <1>2, <1>4
    <3> HIDE DEF f
    <3> QED
      BY <1>1, <3>1
  <2> QED
    BY <2>1
<1>5. (\A u \in Upvalue : m.location[u] # f.base + r) => Variables(m, f)[r] = m.registers[f.base + r]
  BY <1>1, <1>3
<1> QED
  BY <1>4, <1>5

(* What a local stands for is the register, also when it is captured. *)
LEMMA LocalIs ==
  ASSUME CapturesApart, NEW m, Sound(m), NEW i \in DOMAIN m.frames,
         NEW r \in 0 .. m.frames[i].function.registers - 1
  PROVE  LET x == Variables(m, m.frames[i])[r]
             a == m.frames[i].base + r
         IN  /\ (IF x \in Upvalue THEN Cells(m)[x] ELSE x) = m.registers[a]
             /\ m.registers[a] \in Value
             /\ x \in Upvalue => m.location[x] = a /\ x <= m.made
             /\ x \notin Upvalue => x = m.registers[a] /\ \A u \in Upvalue : m.location[u] # a
<1> DEFINE x == Variables(m, m.frames[i])[r]
           a == m.frames[i].base + r
<1>1. a \in Register /\ m.registers[a] \in Value /\ a # None
  BY FrameRegister, FieldTypes, VMAssumption DEF Sound, Register
<1>2. CASE \E u \in Upvalue : m.location[u] = a
  <2>1. PICK u \in Upvalue : m.location[u] = a
    BY <1>2
  <2>2. x = u /\ u <= m.made
    <3>1. u \in Holders(m, m.frames[i], r)
      BY <2>1, HolderIs
    <3> QED
      BY <2>1, <3>1, VariableIs, HolderAlone
  <2>3. Cells(m)[u] = m.registers[a]
    BY <1>1, <2>1, <2>2 DEF Cells, Read
  <2> HIDE DEF x, a
  <2> QED
    BY <1>1, <2>1, <2>2, <2>3 DEF x, a
<1>3. CASE \A u \in Upvalue : m.location[u] # a
  <2>1. x = m.registers[a]
    BY <1>3, VariableIs
  <2>2. x \notin Upvalue
    BY <1>1, <2>1 DEF CapturesApart
  <2> HIDE DEF x, a
  <2> QED
    BY <1>1, <1>3, <2>1, <2>2 DEF x, a
<1> QED
  BY <1>2, <1>3

(* One register of frame i is written. *)
Written(m, n, i, r, v) == n = [m EXCEPT !.registers[m.frames[i].base + r] = v]

(* A write to a register is a write to the variable there, or to the cell *)
(* that the variable is.                                                   *)
LEMMA WriteShows ==
  ASSUME CapturesApart, NEW m, Sound(m), NEW i \in DOMAIN m.frames,
         NEW r \in 0 .. m.frames[i].function.registers - 1, NEW v \in Value,
         NEW n, Written(m, n, i, r, v)
  PROVE  LET x == Variables(m, m.frames[i])[r]
         IN  /\ \A j \in DOMAIN m.frames : j # i =>
                  Variables(n, m.frames[j]) = Variables(m, m.frames[j])
             /\ x \in Upvalue =>
                  /\ Variables(n, m.frames[i]) = Variables(m, m.frames[i])
                  /\ Cells(n) = [Cells(m) EXCEPT ![x] = v]
             /\ x \notin Upvalue =>
                  /\ Variables(n, m.frames[i]) = [Variables(m, m.frames[i]) EXCEPT ![r] = v]
                  /\ Cells(n) = Cells(m)
<1> DEFINE a == m.frames[i].base + r
           x == Variables(m, m.frames[i])[r]
           values == [m.registers EXCEPT ![a] = v]
<1>1. /\ a \in Register /\ m.registers \in [Register -> Value] /\ values \in [Register -> Value]
      /\ a # None
  BY FrameRegister, FieldTypes, VMAssumption DEF Sound, Register
<1>2. n = [m EXCEPT !.registers = values]
  BY DEF Written
<1>3. Sound(n) /\ Alike(m, n)
  <2> HIDE DEF values
  <2> QED
    BY <1>1, <1>2, RegistersSound
<1>4. n.registers = values /\ n.closed = m.closed /\ n.location = m.location /\ n.made = m.made
      /\ n.frames = m.frames
  BY <1>2 DEF Sound, Machine
<1> HIDE DEF a
<1>5. ASSUME NEW b, b # a PROVE values[b] = m.registers[b]
  BY <1>1, <1>5
<1>6. values[a] = v
  BY <1>1
<1> HIDE DEF values
<1>7. ASSUME NEW j \in DOMAIN m.frames, j # i
      PROVE  Variables(n, m.frames[j]) = Variables(m, m.frames[j])
  <2>1. \A s \in 0 .. m.frames[j].function.registers - 1 : m.frames[j].base + s # a
    BY <1>7, RegistersApart DEF a
  <2> QED
    BY <1>4, <1>5, <2>1, SameVariables
<1>8. ASSUME NEW s \in 0 .. m.frames[i].function.registers - 1, s # r
      PROVE  m.frames[i].base + s # a
  BY <1>8, RegistersApart DEF a
<1>9. CASE x \in Upvalue
  <2>1. m.location[x] = a /\ \A w \in Upvalue : m.location[w] = a => w = x
    <3>1. m.location[x] = a
      BY <1>9, LocalIs DEF a
    <3> QED
      BY <1>1, <1>9, <3>1 DEF Sound, UpvaluesInFrames
  <2>2. Cells(n) = [Cells(m) EXCEPT ![x] = v]
    <3>1. ASSUME NEW w \in Upvalue, w # x PROVE Read(n, w) = Read(m, w)
      BY <1>4, <1>5, <2>1, <3>1 DEF Read
    <3>2. Read(n, x) = v /\ x <= m.made
      <4>1. x <= m.made
        BY <1>9, LocalIs
      <4> QED
        BY <1>1, <1>4, <1>6, <2>1, <4>1 DEF Read
    <3> HIDE DEF x
    <3>3. ASSUME NEW w \in Upvalue PROVE Cells(n)[w] = [Cells(m) EXCEPT ![x] = v][w]
      BY <1>4, <1>9, <3>1, <3>2 DEF Cells
    <3> QED
      BY <3>3 DEF Cells
  <2>3. Variables(n, m.frames[i]) = Variables(m, m.frames[i])
    <3>1. ASSUME NEW s \in 0 .. m.frames[i].function.registers - 1
          PROVE  Variables(n, m.frames[i])[s] = Variables(m, m.frames[i])[s]
      <4>1. CASE s = r
        BY <1>3, <1>4, <1>9, <2>1, <4>1, VariableIs DEF a
      <4>2. CASE s # r
        <5>1. n.registers[m.frames[i].base + s] = m.registers[m.frames[i].base + s]
          BY <1>4, <1>5, <1>8, <4>2
        <5>2. /\ \A u \in Upvalue : m.location[u] = m.frames[i].base + s =>
                   Variables(n, m.frames[i])[s] = u /\ Variables(m, m.frames[i])[s] = u
              /\ (\A u \in Upvalue : m.location[u] # m.frames[i].base + s) =>
                   /\ Variables(n, m.frames[i])[s] = n.registers[m.frames[i].base + s]
                   /\ Variables(m, m.frames[i])[s] = m.registers[m.frames[i].base + s]
          BY <1>3, <1>4, VariableIs
        <5> QED
          BY <5>1, <5>2
      <4> QED
        BY <4>1, <4>2
    <3> QED
      BY <3>1 DEF Variables
  <2> QED
    BY <1>7, <1>9, <2>2, <2>3 DEF a
<1>10. CASE x \notin Upvalue
  <2>1. \A w \in Upvalue : m.location[w] # a
    BY <1>10, LocalIs DEF a
  <2>2. Cells(n) = Cells(m)
    BY <1>4, <1>5, <2>1 DEF Read, Cells
  <2>3. Variables(n, m.frames[i]) = [Variables(m, m.frames[i]) EXCEPT ![r] = v]
    <3>1. ASSUME NEW s \in 0 .. m.frames[i].function.registers - 1
          PROVE  Variables(n, m.frames[i])[s] = IF s = r THEN v ELSE Variables(m, m.frames[i])[s]
      <4>1. CASE s = r
        BY <1>3, <1>4, <1>6, <2>1, <4>1, VariableIs DEF a
      <4>2. CASE s # r
        <5>1. n.registers[m.frames[i].base + s] = m.registers[m.frames[i].base + s]
          BY <1>4, <1>5, <1>8, <4>2
        <5>2. /\ \A u \in Upvalue : m.location[u] = m.frames[i].base + s =>
                   Variables(n, m.frames[i])[s] = u /\ Variables(m, m.frames[i])[s] = u
              /\ (\A u \in Upvalue : m.location[u] # m.frames[i].base + s) =>
                   /\ Variables(n, m.frames[i])[s] = n.registers[m.frames[i].base + s]
                   /\ Variables(m, m.frames[i])[s] = m.registers[m.frames[i].base + s]
          BY <1>3, <1>4, VariableIs
        <5> QED
          BY <4>2, <5>1, <5>2
      <4> QED
        BY <4>1, <4>2
    <3>2. DOMAIN Variables(n, m.frames[i]) = 0 .. m.frames[i].function.registers - 1
          /\ DOMAIN Variables(m, m.frames[i]) = 0 .. m.frames[i].function.registers - 1
          /\ Variables(n, m.frames[i]) = [s \in DOMAIN Variables(n, m.frames[i]) |-> Variables(n, m.frames[i])[s]]
      BY DEF Variables
    <3> QED
      BY <3>1, <3>2
  <2> QED
    BY <1>7, <1>10, <2>2, <2>3 DEF a
<1> QED
  BY <1>9, <1>10

-----------------------------------------------------------------------------
(* Frames that come and go                                                   *)

LEMMA ClosedShows ==
  ASSUME NEW m \in Machine, NEW U \in SUBSET Upvalue, NEW top \in Nat
  PROVE  LET n == CutTo(CloseUpvalues(m, U), top)
         IN  /\ n.registers = [i \in Register |-> IF i < top THEN m.registers[i] ELSE NoValue]
             /\ n.closed = [u \in Upvalue |-> IF u \in U THEN m.registers[m.location[u]] ELSE m.closed[u]]
<1> DEFINE values == [u \in Upvalue |-> IF u \in U THEN m.registers[m.location[u]] ELSE m.closed[u]]
           places == [u \in Upvalue |-> IF u \in U THEN None ELSE m.location[u]]
           c == CloseUpvalues(m, U)
<1>1. c = [m EXCEPT !.closed = values, !.location = places]
  BY DEF CloseUpvalues
<1> HIDE DEF values, places
<1>2. c.registers = m.registers /\ c.closed = values
  <2> HIDE DEF c
  <2> QED
    BY <1>1 DEF Machine
<1> DEFINE left == [i \in Register |-> IF i < top THEN c.registers[i] ELSE NoValue]
<1>3. CutTo(c, top) = [c EXCEPT !.stackTop = top, !.registers = left]
  BY DEF CutTo
<1>4. DOMAIN c = DOMAIN m
  <2> HIDE DEF c
  <2> QED
    BY <1>1
<1> HIDE DEF left
<1>5. CutTo(c, top).registers = left /\ CutTo(c, top).closed = c.closed
  <2> HIDE DEF c
  <2> QED
    BY <1>3, <1>4 DEF Machine
<1> QED
  BY <1>2, <1>5 DEF left, values

(* Closing keeps what a captured variable holds. *)
LEMMA ClosedCells ==
  ASSUME NEW m \in Machine, NEW n, NEW U \in SUBSET Upvalue, n.made = m.made,
         \A u \in U : m.location[u] \in Register,
         n.location = [u \in Upvalue |-> IF u \in U THEN None ELSE m.location[u]],
         n.closed = [u \in Upvalue |-> IF u \in U THEN m.registers[m.location[u]] ELSE m.closed[u]],
         \A u \in Upvalue \ U : m.location[u] # None => n.registers[m.location[u]] = m.registers[m.location[u]]
  PROVE  Cells(n) = Cells(m)
<1>1. None \notin Register
  BY VMAssumption DEF Register
<1>2. ASSUME NEW u \in Upvalue PROVE Read(n, u) = Read(m, u)
  <2>1. CASE u \in U
    <3>1. m.location[u] # None /\ n.location[u] = None /\ n.closed[u] = m.registers[m.location[u]]
      BY <1>1, <2>1
    <3> QED
      BY <3>1 DEF Read
  <2>2. CASE u \notin U
    BY <2>2 DEF Read
  <2> QED
    BY <2>1, <2>2
<1> QED
  BY <1>2 DEF Cells

LEMMA ResetShows ==
  ASSUME NEW m, Sound(m)
  PROVE  Firm(Reset(m)) /\ Cells(Reset(m)) = Cells(m) /\ Reset(m).stackTop = 0
<1> DEFINE U == UNION {m.frames[i].open : i \in 1 .. Depth(m)}
           c == CutTo(CloseUpvalues(m, U), 0)
           n == [c EXCEPT !.frames = << >>, !.failed = FALSE, !.gasEnabled = FALSE, !.gas = 0,
                          !.currentBase = 0]
<1>1. U \in SUBSET Upvalue /\ \A u \in U : m.location[u] \in Register
  <2>1. DOMAIN m.frames = 1 .. Depth(m)
    BY FieldTypes DEF Sound, Depth
  <2>2. \A u \in U : u \in Upvalue /\ m.location[u] \in Register
    BY <2>1, OpenInRegisters
  <2> QED
    BY <2>2
<1>2. \A u \in Upvalue \ U : m.location[u] = None
  BY DEF Sound, UpvaluesInFrames
<1>3. Reset(m) = n
  BY DEF Reset
<1> HIDE DEF U
<1>4. /\ c \in Machine /\ c.made = m.made /\ c.stackTop = 0
      /\ c.location = [u \in Upvalue |-> IF u \in U THEN None ELSE m.location[u]]
      /\ c.closed = [u \in Upvalue |-> IF u \in U THEN m.registers[m.location[u]] ELSE m.closed[u]]
  <2>1. m \in Machine /\ 0 \in Nat
    BY DEF Sound
  <2>2. /\ c \in Machine /\ c.made = m.made /\ c.stackTop = 0
        /\ c.location = [u \in Upvalue |-> IF u \in U THEN None ELSE m.location[u]]
    BY <1>1, <2>1, ClosedFields
  <2>3. /\ c.closed = [u \in Upvalue |-> IF u \in U THEN m.registers[m.location[u]] ELSE m.closed[u]]
        /\ c.registers = [i \in Register |-> IF i < 0 THEN m.registers[i] ELSE NoValue]
    BY <1>1, <2>1, ClosedShows
  <2> QED
    BY <2>2, <2>3
<1> HIDE DEF c
<1>5. n.made = c.made /\ n.location = c.location /\ n.closed = c.closed /\ n.frames = << >> /\ n.stackTop = 0
  BY <1>4 DEF Machine
<1> HIDE DEF n
<1>6. Cells(n) = Cells(m)
  <2>1. n.made = m.made
    BY <1>4, <1>5
  <2>2. n.location = [u \in Upvalue |-> IF u \in U THEN None ELSE m.location[u]]
    BY <1>4, <1>5
  <2>3. n.closed = [u \in Upvalue |-> IF u \in U THEN m.registers[m.location[u]] ELSE m.closed[u]]
    BY <1>4, <1>5
  <2>4. m \in Machine
    BY DEF Sound
  <2> QED
    BY <1>1, <1>2, <2>1, <2>2, <2>3, <2>4, ClosedCells
<1>7. Sound(n) /\ n.frames = << >>
  BY <1>3, ResetSound
<1> QED
  BY <1>3, <1>5, <1>6, <1>7 DEF Firm, ReturnsFit, BasesPlain

(* pop_frame takes one activation away, and its captured variables stay. *)
LEMMA PopShows ==
  ASSUME NEW m, Firm(m), m.frames # << >>
  PROVE  LET n == PopFrame(m)
             d == Len(m.frames)
         IN  /\ Firm(n) /\ n.failed = m.failed /\ n.made = m.made
             /\ d \in Nat \ {0} /\ Len(n.frames) = d - 1 /\ DOMAIN n.frames = 1 .. d - 1
             /\ n.frames # << >> <=> d > 1
             /\ Cells(n) = Cells(m)
             /\ \A i \in 1 .. d - 1 :
                  /\ n.frames[i] = m.frames[i]
                  /\ Variables(n, m.frames[i]) = Variables(m, m.frames[i])
                  /\ \A r \in 0 .. m.frames[i].function.registers - 1 :
                        n.registers[m.frames[i].base + r] = m.registers[m.frames[i].base + r]
<1> DEFINE f == TopFrame(m)
           d == Len(m.frames)
           rest == Front(m.frames)
           c == CutTo(CloseUpvalues(m, f.open), f.base)
           n == [c EXCEPT !.frames = rest, !.currentBase = IF rest = << >> THEN 0 ELSE Last(rest).base]
<1>1. /\ Sound(m) /\ m \in Machine /\ m.frames \in Seq(Frame) /\ d \in Nat \ {0}
      /\ f = m.frames[d] /\ d \in DOMAIN m.frames /\ DOMAIN m.frames = 1 .. d
  BY FieldTypes DEF Firm, Sound, TopFrame
<1>2. /\ rest \in Seq(Frame) /\ DOMAIN rest = 1 .. d - 1 /\ Len(rest) = d - 1
      /\ \A i \in 1 .. d - 1 : rest[i] = m.frames[i] /\ i \in DOMAIN m.frames
  BY <1>1 DEF Front
<1>3. f.base \in Nat /\ f.open \in SUBSET Upvalue
  BY <1>1, FrameTypes
<1>4. \A u \in f.open : m.location[u] \in Register
  BY <1>1, OpenInRegisters
<1>5. PopFrame(m) = n
  BY DEF PopFrame
<1> HIDE DEF f, rest
<1>6. /\ c \in Machine /\ c.made = m.made /\ c.failed = m.failed
      /\ c.location = [u \in Upvalue |-> IF u \in f.open THEN None ELSE m.location[u]]
      /\ c.closed = [u \in Upvalue |-> IF u \in f.open THEN m.registers[m.location[u]] ELSE m.closed[u]]
      /\ c.registers = [i \in Register |-> IF i < f.base THEN m.registers[i] ELSE NoValue]
  <2>1. /\ c \in Machine /\ c.made = m.made /\ c.failed = m.failed
        /\ c.location = [u \in Upvalue |-> IF u \in f.open THEN None ELSE m.location[u]]
    BY <1>1, <1>3, <1>4, ClosedFields
  <2>2. /\ c.closed = [u \in Upvalue |-> IF u \in f.open THEN m.registers[m.location[u]] ELSE m.closed[u]]
        /\ c.registers = [i \in Register |-> IF i < f.base THEN m.registers[i] ELSE NoValue]
    BY <1>1, <1>3, ClosedShows
  <2> QED
    BY <2>1, <2>2
<1> HIDE DEF c
<1>7. /\ n.made = m.made /\ n.location = c.location /\ n.closed = c.closed /\ n.frames = rest
      /\ n.registers = c.registers /\ n.failed = m.failed
  BY <1>6 DEF Machine
<1> HIDE DEF n
<1>8. ASSUME NEW i \in 1 .. d - 1, NEW r \in 0 .. m.frames[i].function.registers - 1
      PROVE  n.registers[m.frames[i].base + r] = m.registers[m.frames[i].base + r]
  <2>1. i \in DOMAIN m.frames /\ i < d
    BY <1>1
  <2>2. /\ m.frames[i].base + r \in Register
        /\ m.frames[i].base + r \in m.frames[i].base .. End(m.frames[i]) - 1
        /\ m.frames[i].base \in Nat /\ End(m.frames[i]) \in Nat
    BY <1>1, <2>1, FrameRegister, FrameTypes
  <2>3. End(m.frames[i]) <= f.base
    BY <1>1, <2>1 DEF Sound, Apart
  <2>4. m.frames[i].base + r < f.base
    BY <1>3, <2>2, <2>3, SMTT(40)
  <2> QED
    BY <1>6, <1>7, <2>2, <2>4
<1>9. ASSUME NEW i \in 1 .. d - 1, NEW u \in m.frames[i].open
      PROVE  n.location[u] = m.location[u] /\ u \notin f.open
  <2>1. i \in DOMAIN m.frames /\ i # d
    BY <1>1
  <2>2. u \notin f.open /\ u \in Upvalue
    BY <1>1, <2>1, OpenApart, OpenInRegisters
  <2> QED
    BY <1>6, <1>7, <2>2
<1>10. ASSUME NEW i \in 1 .. d - 1
       PROVE  Variables(n, m.frames[i]) = Variables(m, m.frames[i])
  BY <1>8, <1>9, SameVariables
<1>11. Cells(n) = Cells(m)
  <2>1. ASSUME NEW u \in Upvalue \ f.open, m.location[u] # None
        PROVE  n.registers[m.location[u]] = m.registers[m.location[u]]
    <3>1. PICK i \in DOMAIN m.frames : u \in m.frames[i].open
      BY <1>1, <2>1 DEF Sound, UpvaluesInFrames, Depth
    <3>2. i \in 1 .. d - 1
      BY <1>1, <2>1, <3>1
    <3>3. m.location[u] \in m.frames[i].base .. End(m.frames[i]) - 1
      BY <1>1, <3>1 DEF Sound, UpvaluesInFrames, Depth
    <3>4. End(m.frames[i]) <= f.base /\ m.location[u] \in Register
      BY <1>1, <3>1, <3>2, OpenInRegisters, SMTT(40) DEF Sound, Apart
    <3>5. m.frames[i].base \in Nat /\ End(m.frames[i]) \in Nat
      BY <1>1, <3>1, FrameTypes
    <3>6. m.location[u] < f.base
      BY <1>3, <3>3, <3>4, <3>5
    <3> QED
      BY <1>6, <1>7, <3>4, <3>6
  <2>2. n.made = m.made
    BY <1>6, <1>7
  <2>3. n.location = [u \in Upvalue |-> IF u \in f.open THEN None ELSE m.location[u]]
    BY <1>6, <1>7
  <2>4. n.closed = [u \in Upvalue |-> IF u \in f.open THEN m.registers[m.location[u]] ELSE m.closed[u]]
    BY <1>6, <1>7
  <2> QED
    BY <1>1, <1>3, <1>4, <2>1, <2>2, <2>3, <2>4, ClosedCells
<1>12. Firm(n)
  <2>1. Sound(n)
    BY <1>1, <1>5, PopSound
  <2>2. ReturnsFit(n)
    <3>1. ASSUME NEW i \in 2 .. d - 1
          PROVE  rest[i].return < rest[i - 1].function.registers
      <4>1. i \in 2 .. Len(m.frames) /\ i \in 1 .. d - 1 /\ i - 1 \in 1 .. d - 1
        BY <1>1
      <4> QED
        BY <1>2, <4>1 DEF Firm, ReturnsFit
    <3> QED
      BY <1>2, <1>7, <3>1 DEF ReturnsFit
  <2>3. BasesPlain(n)
    BY <1>2, <1>7, <1>9 DEF Firm, BasesPlain
  <2> QED
    BY <2>1, <2>2, <2>3 DEF Firm
<1>13. n.frames # << >> <=> d > 1
  <2>1. \A s \in Seq(Frame) : s = << >> <=> Len(s) = 0
    OBVIOUS
  <2>2. rest = << >> <=> Len(rest) = 0
    BY <1>2, <2>1, Zenon
  <2> QED
    BY <1>1, <1>2, <1>7, <2>2
<1> QED
  BY <1>1, <1>2, <1>5, <1>7, <1>8, <1>10, <1>11, <1>12, <1>13

(* What push_frame asks for before it pushes *)
Fits(m, function) ==
  Affords(m) /\ ~(Depth(m) >= MaxFrames \/ m.stackTop + function.registers > MaxRegisters)

NewFrame(m, function, return, closure) ==
  [base |-> m.stackTop, function |-> function, return |-> return, closure |-> closure, open |-> {}]

Pushed(m, n, function, return, closure, values) ==
  n = [PushFrame(m, function, return, closure) EXCEPT !.registers = values]

(* What is there when values are in the registers after the push *)
PushedOn(m, n, function, return, closure, values) ==
  LET d == Len(m.frames)
      new == NewFrame(m, function, return, closure)
  IN  /\ Firm(n) /\ n.made = m.made /\ n.registers = values
      /\ n.failed = m.failed /\ PushFrame(m, function, return, closure).failed = m.failed
      /\ d \in Nat /\ Len(n.frames) = d + 1 /\ DOMAIN n.frames = 1 .. d + 1 /\ n.frames # << >>
      /\ PushFrame(m, function, return, closure).currentBase = m.stackTop
      /\ PushFrame(m, function, return, closure).registers = m.registers
      /\ n.frames[d + 1] = new
      /\ Cells(n) = Cells(m)
      /\ Variables(n, new) = [r \in 0 .. function.registers - 1 |-> values[m.stackTop + r]]
      /\ Variables(n, new) \in [0 .. function.registers - 1 -> Value]
      /\ \A i \in 1 .. d :
           /\ n.frames[i] = m.frames[i]
           /\ Variables(n, m.frames[i]) = Variables(m, m.frames[i])
           /\ \A r \in 0 .. m.frames[i].function.registers - 1 :
                 n.registers[m.frames[i].base + r] = m.registers[m.frames[i].base + r]

(* push_frame adds a frame at stack_top_; the registers above it may then  *)
(* get values, which nothing below shows.                                  *)
LEMMA PushShows ==
  ASSUME NEW m, Firm(m), NEW function \in Function, NEW return \in Nat, NEW closure \in Seq(Upvalue),
         \A j \in DOMAIN closure : closure[j] <= m.made,
         m.frames # << >> => return < TopFrame(m).function.registers,
         Fits(m, function),
         NEW values \in [Register -> Value],
         \A a \in Register : a < m.stackTop => values[a] = m.registers[a],
         NEW n, Pushed(m, n, function, return, closure, values)
  PROVE  PushedOn(m, n, function, return, closure, values)
<1> DEFINE paid == ConsumeGas(m)
           base == m.stackTop
           d == Len(m.frames)
           p == PushFrame(m, function, return, closure)
           new == NewFrame(m, function, return, closure)
           frames == Append(m.frames, new)
<1>1. /\ Sound(m) /\ m \in Machine /\ m.frames \in Seq(Frame) /\ d \in Nat
      /\ DOMAIN m.frames = 1 .. d /\ base \in Nat
  BY FieldTypes DEF Firm, Sound
<1>2. Sound(paid) /\ Alike(m, paid) /\ (m.failed => paid.failed) /\ paid.registers = m.registers
  BY <1>1, GasSound
<1>3. paid.closed = m.closed
  BY DEF ConsumeGas, Fail, Affords
<1>4. Sound(p) /\ p.made = m.made /\ p.registers = m.registers /\ (m.failed => p.failed)
  BY <1>1, PushSound
<1>5. /\ Affords(m) /\ base + function.registers <= MaxRegisters
      /\ p = [paid EXCEPT !.stackTop = base + function.registers, !.currentBase = base, !.frames = frames]
  <2>1. function.registers \in Nat /\ MaxRegisters \in Nat
    BY VMAssumption
  <2> QED
    BY <1>1, <2>1 DEF PushFrame, Fits, NewFrame
<1>5a. paid.failed = m.failed
  BY <1>1, <1>5 DEF ConsumeGas, Machine
<1> HIDE DEF paid, p
<1>6. /\ p.currentBase = base /\ p.frames = frames /\ p.location = m.location /\ p.closed = m.closed
      /\ p.failed = paid.failed
  <2> HIDE DEF frames, base
  <2> QED
    BY <1>2, <1>3, <1>5 DEF Sound, Machine, Alike
<1>0. n = [p EXCEPT !.registers = values]
  BY DEF Pushed, p
<1>7. Sound(n) /\ Alike(p, n) /\ n.failed = p.failed
  BY <1>0, <1>4, RegistersSound
<1>8. n.registers = values /\ n.closed = p.closed
  BY <1>0, <1>4 DEF Sound, Machine
<1>9. /\ n.frames = frames /\ n.location = m.location /\ n.closed = m.closed /\ n.made = m.made
      /\ n.failed = p.failed
  BY <1>4, <1>6, <1>7, <1>8 DEF Alike
<1>10. new \in Frame /\ function.registers \in Nat \ {0}
  BY <1>1, VMAssumption DEF Frame, NewFrame
<1> HIDE DEF new
<1>10a. new.open = {} /\ new.base = base /\ new.function = function /\ new.return = return
  BY DEF new, NewFrame
<1>11. /\ frames \in Seq(Frame) /\ Len(frames) = d + 1 /\ DOMAIN frames = 1 .. d + 1
       /\ frames[d + 1] = new /\ \A i \in 1 .. d : frames[i] = m.frames[i]
  BY <1>1, <1>10
<1> HIDE DEF frames
<1>12. ASSUME NEW i \in 1 .. d, NEW r \in 0 .. m.frames[i].function.registers - 1
       PROVE  n.registers[m.frames[i].base + r] = m.registers[m.frames[i].base + r]
  BY <1>1, <1>8, FrameRegister
<1>13. ASSUME NEW i \in 1 .. d
       PROVE  Variables(n, m.frames[i]) = Variables(m, m.frames[i])
  BY <1>9, <1>12, SameVariables, SMTT(40)
<1>14. Cells(n) = Cells(m)
  BY <1>1, <1>8, <1>9, SameCells
<1>15. /\ Variables(n, new) = [r \in 0 .. function.registers - 1 |-> values[base + r]]
       /\ Variables(n, new) \in [0 .. function.registers - 1 -> Value]
  <2>1. \A r : Holders(n, new, r) = {}
    BY <1>10a DEF Holders
  <2>2. Variables(n, new) = [r \in 0 .. function.registers - 1 |-> values[base + r]]
    BY <1>8, <1>10a, <2>1 DEF Variables
  <2>3. \A r \in 0 .. function.registers - 1 : base + r \in Register
    <3>1. /\ base \in Nat /\ base + function.registers <= MaxRegisters
          /\ function.registers \in Nat /\ MaxRegisters \in Nat
      BY <1>1, <1>5, <1>10, VMAssumption
    <3> HIDE DEF base
    <3> QED
      BY <3>1 DEF Register
  <2> QED
    BY <2>2, <2>3
<1>16. Firm(n)
  <2>1. ReturnsFit(n)
    <3>1. ASSUME NEW i \in 2 .. d + 1
          PROVE  frames[i].return < frames[i - 1].function.registers
      <4>1. CASE i = d + 1
        <5>1. m.frames # << >> /\ d \in 1 .. d /\ i - 1 = d
          BY <1>1, <4>1
        <5> QED
          BY <1>10a, <1>11, <4>1, <5>1 DEF TopFrame
      <4>2. CASE i \in 2 .. d
        <5>1. i \in 1 .. d /\ i - 1 \in 1 .. d
          BY <1>1, <4>2
        <5> QED
          BY <1>11, <4>2, <5>1 DEF Firm, ReturnsFit
      <4> QED
        BY <1>1, <4>1, <4>2
    <3> QED
      BY <1>9, <1>11, <3>1 DEF ReturnsFit
  <2>2. BasesPlain(n)
    <3>1. ASSUME NEW i \in 1 .. d + 1, NEW u \in frames[i].open
          PROVE  m.location[u] # frames[i].base
      <4>1. i # d + 1
        BY <1>10a, <1>11
      <4>2. i \in 1 .. d
        BY <1>1, <4>1
      <4> QED
        BY <1>1, <1>11, <4>2 DEF Firm, BasesPlain
    <3> QED
      BY <1>9, <1>11, <3>1 DEF BasesPlain
  <2> QED
    BY <1>7, <2>1, <2>2 DEF Firm
<1>17. n.frames # << >>
  BY <1>1, <1>9, <1>11
<1> QED
  BY <1>1, <1>4, <1>5a, <1>6, <1>8, <1>9, <1>11, <1>12, <1>13, <1>14, <1>15, <1>16, <1>17 DEF p, new, PushedOn

(* Register r of the last frame is captured, as u. *)
CapturedIn(m, n, u, r) ==
  LET d == Len(m.frames)
      x == Variables(m, m.frames[d])[r]
  IN  /\ Firm(n) /\ n.failed = m.failed /\ n.registers = m.registers
      /\ Len(n.frames) = d /\ DOMAIN n.frames = 1 .. d /\ n.frames # << >> /\ d \in 1 .. d
      /\ \A i \in 1 .. d :
           /\ n.frames[i].base = m.frames[i].base /\ n.frames[i].function = m.frames[i].function
           /\ n.frames[i].return = m.frames[i].return /\ n.frames[i].closure = m.frames[i].closure
           /\ i # d => Variables(n, n.frames[i]) = Variables(m, m.frames[i])
      /\ x \in Upvalue => n = m /\ u = x
      /\ x \notin Upvalue =>
           /\ m.made \in Nat /\ u = m.made + 1 /\ n.made = u
           /\ Variables(n, n.frames[d]) = [Variables(m, m.frames[d]) EXCEPT ![r] = u]
           /\ Cells(n) = [Cells(m) EXCEPT ![u] = x]

(* A capture makes the variable a cell, unless it is one. *)
LEMMA CaptureShows ==
  ASSUME CapturesApart, NEW m, Firm(m), m.frames # << >>,
         NEW r \in 0 .. TopFrame(m).function.registers - 1, r # 0, UpvalueFor(m, r) \in Upvalue
  PROVE  CapturedIn(m, Capture(m, UpvalueFor(m, r), r), UpvalueFor(m, r), r)
<1> DEFINE u == UpvalueFor(m, r)
           d == Len(m.frames)
           f == TopFrame(m)
           place == m.currentBase + r
           new == [f EXCEPT !.open = @ \cup {u}]
           n == Capture(m, u, r)
           x == Variables(m, f)[r]
<1>1. /\ Sound(m) /\ m \in Machine /\ m.frames \in Seq(Frame) /\ d \in Nat \ {0}
      /\ DOMAIN m.frames = 1 .. d /\ f = m.frames[d] /\ d \in DOMAIN m.frames
      /\ Depth(m) = d /\ m.made \in Nat /\ m.currentBase = f.base
  BY FieldTypes DEF Firm, Sound, WindowsTile, TopFrame, Depth
<1>2. place = f.base + r /\ place \in Register /\ place # None /\ f.base \in Nat
  BY <1>1, FrameRegister, FrameTypes, VMAssumption, SMTT(40) DEF Register
<1>3. OpenAt(m, r) = Holders(m, f, r) /\ Holders(m, f, r) \subseteq Upvalue
  BY <1>1, FrameTypes DEF OpenAt, Holders
<1>4. CASE x \in Upvalue
  <2>1. x \in Holders(m, f, r) /\ x <= m.made
    <3>1. m.location[x] = f.base + r /\ x <= m.made
      BY <1>1, <1>4, LocalIs
    <3> HIDE DEF x
    <3> QED
      BY <1>1, <1>4, <3>1, HolderIs
  <2>2. u \in Holders(m, f, r)
    <3> HIDE DEF x
    <3> QED
      BY <1>3, <2>1 DEF UpvalueFor
  <2>3. u = x
    <3>1. m.location[u] = m.frames[d].base + r /\ u \in Upvalue
      BY <1>1, <2>2 DEF Holders
    <3>2. r \in 0 .. m.frames[d].function.registers - 1
      BY <1>1
    <3> HIDE DEF u
    <3>3. Variables(m, m.frames[d])[r] = u
      BY <1>1, <3>1, <3>2, VariableIs
    <3> QED
      BY <1>1, <3>3
  <2>4. n = m
    BY <2>1, <2>3, SMTT(40) DEF Capture
  <2> HIDE DEF n, u, x
  <2> QED
    BY <1>1, <1>4, <2>3, <2>4 DEF n, u, x, CapturedIn
<1>5. CASE x \notin Upvalue
  <2>1. /\ x = m.registers[place] /\ \A w \in Upvalue : m.location[w] # place
    BY <1>1, <1>2, <1>5, LocalIs
  <2>2. OpenAt(m, r) = {}
    BY <1>2, <1>3, <2>1 DEF Holders
  <2>3. u = m.made + 1 /\ ~(u <= m.made)
    BY <1>1, <2>2 DEF UpvalueFor
  <2> DEFINE frames == [m.frames EXCEPT ![d] = new]
             location == [m.location EXCEPT ![u] = place]
  <2>4. n = [m EXCEPT !.made = u, !.location = location, !.frames = frames]
    BY <1>1, <2>3 DEF Capture, TopFrame
  <2>5. /\ new.base = f.base /\ new.function = f.function /\ new.return = f.return
        /\ new.closure = f.closure /\ new.open = f.open \cup {u}
    <3> HIDE DEF u, f
    <3>1. f \in Frame
      BY <1>1
    <3> QED
      BY <3>1 DEF Frame
  <2> HIDE DEF new, place
  <2>6. /\ Len(frames) = d /\ DOMAIN frames = 1 .. d
        /\ frames[d] = new /\ \A i \in 1 .. d : i # d => frames[i] = m.frames[i]
    BY <1>1
  <2>7. location[u] = place /\ \A w \in Upvalue : w # u => location[w] = m.location[w]
    BY <1>1 DEF Machine
  <2> HIDE DEF frames, location, u, n
  <2>8. /\ n.frames = frames /\ n.location = location /\ n.made = u /\ n.closed = m.closed
        /\ n.registers = m.registers /\ n.failed = m.failed
    BY <1>1, <2>4 DEF Machine
  <2>9. Sound(n)
    BY <1>1, CaptureSound DEF n, u
  <2>10. n.frames # << >>
    BY <1>1, <2>6, <2>8
  <2>11. ASSUME NEW i \in 1 .. d
         PROVE  /\ n.frames[i].base = m.frames[i].base /\ n.frames[i].function = m.frames[i].function
                /\ n.frames[i].return = m.frames[i].return /\ n.frames[i].closure = m.frames[i].closure
    BY <1>1, <2>5, <2>6, <2>8
  <2>12. ASSUME NEW i \in 1 .. d, NEW w \in m.frames[i].open PROVE w \in Upvalue /\ w # u
    BY <1>1, <2>3, FrameTypes DEF Sound, UpvaluesInFrames
  <2>13. ASSUME NEW i \in 1 .. d, i # d
         PROVE  Variables(n, n.frames[i]) = Variables(m, m.frames[i])
    BY <2>6, <2>7, <2>8, <2>12, <2>13, SameVariables
  <2>14. Variables(n, n.frames[d]) = [Variables(m, m.frames[d]) EXCEPT ![r] = u]
    <3>1. ASSUME NEW s \in 0 .. f.function.registers - 1
          PROVE  Variables(n, n.frames[d])[s] = IF s = r THEN u ELSE Variables(m, m.frames[d])[s]
      <4>1. CASE s = r
        <5>1. n.location[u] = n.frames[d].base + s
          BY <1>1, <1>2, <2>7, <2>8, <2>11, <4>1
        <5>2. s \in 0 .. n.frames[d].function.registers - 1 /\ d \in DOMAIN n.frames
          BY <1>1, <2>6, <2>8, <2>11
        <5>3. u \in Upvalue
          BY DEF u
        <5> QED
          BY <2>9, <4>1, <5>1, <5>2, <5>3, VariableIs
      <4>2. CASE s # r
        <5>1. s \in 0 .. n.frames[d].function.registers - 1 /\ d \in DOMAIN n.frames
          BY <1>1, <2>6, <2>8, <2>11
        <5> DEFINE a == f.base + s
        <5>2. n.frames[d].base + s = a /\ a # place /\ n.registers[a] = m.registers[a]
          BY <1>1, <1>2, <2>8, <2>11, <4>2, SMTT(40)
        <5> HIDE DEF a
        <5>3. \A w \in Upvalue : n.location[w] = a => m.location[w] = a
          BY <2>7, <2>8, <5>2
        <5>4. \A w \in Upvalue : m.location[w] = a => n.location[w] = a
          <6>1. \A w \in Upvalue : m.location[w] = a => w <= m.made
            <7>1. ASSUME NEW w \in Upvalue, m.location[w] = a PROVE w <= m.made
              <8>1. w \in Holders(m, m.frames[d], s)
                BY <1>1, <7>1, HolderIs DEF a
              <8> QED
                BY <1>1, <8>1 DEF Sound, UpvaluesInFrames, Holders
            <7> QED
              BY <7>1
          <6>2. \A w \in Upvalue : m.location[w] = a => w # u
            BY <1>1, <2>3, <6>1
          <6> QED
            BY <2>7, <2>8, <6>2
        <5>5. /\ \A w \in Upvalue : n.location[w] = a => Variables(n, n.frames[d])[s] = w
              /\ (\A w \in Upvalue : n.location[w] # a) => Variables(n, n.frames[d])[s] = n.registers[a]
          BY <2>9, <5>1, <5>2, VariableIs
        <5>6. /\ \A w \in Upvalue : m.location[w] = a => Variables(m, m.frames[d])[s] = w
              /\ (\A w \in Upvalue : m.location[w] # a) => Variables(m, m.frames[d])[s] = m.registers[a]
          BY <1>1, VariableIs, SMTT(40) DEF a
        <5> QED
          BY <4>2, <5>2, <5>3, <5>4, <5>5, <5>6
      <4> QED
        BY <4>1, <4>2
    <3>2. /\ DOMAIN Variables(n, n.frames[d]) = 0 .. f.function.registers - 1
          /\ DOMAIN Variables(m, m.frames[d]) = 0 .. f.function.registers - 1
          /\ Variables(n, n.frames[d]) = [s \in DOMAIN Variables(n, n.frames[d]) |-> Variables(n, n.frames[d])[s]]
      BY <1>1, <2>11 DEF Variables
    <3> QED
      BY <3>1, <3>2
  <2>15. Cells(n) = [Cells(m) EXCEPT ![u] = x]
    <3>1. ASSUME NEW w \in Upvalue, w # u PROVE Read(n, w) = Read(m, w)
      BY <2>7, <2>8, <3>1 DEF Read
    <3>2. Read(n, u) = x /\ u \in Upvalue
      BY <1>2, <2>1, <2>7, <2>8 DEF Read, u
    <3> HIDE DEF x
    <3>3. ASSUME NEW w \in Upvalue PROVE Cells(n)[w] = [Cells(m) EXCEPT ![u] = x][w]
      <4>1. w \in Nat
        BY DEF Upvalue
      <4>2. w # u => (w <= u <=> w <= m.made)
        BY <1>1, <2>3, <4>1
      <4>3. u <= u
        BY <1>1, <2>3
      <4> QED
        BY <2>8, <3>1, <3>2, <4>2, <4>3 DEF Cells
    <3> QED
      BY <3>3 DEF Cells
  <2>16. Firm(n)
    <3>1. ReturnsFit(n)
      <4>1. ASSUME NEW i \in 2 .. d PROVE n.frames[i].return < n.frames[i - 1].function.registers
        <5>1. i \in 1 .. d /\ i - 1 \in 1 .. d
          BY <1>1
        <5>2. m.frames[i].return < m.frames[i - 1].function.registers
          BY <1>1 DEF Firm, ReturnsFit
        <5> QED
          BY <2>11, <5>1, <5>2
      <4> QED
        BY <2>6, <2>8, <4>1 DEF ReturnsFit
    <3>2. BasesPlain(n)
      <4>1. ASSUME NEW i \in 1 .. d, NEW w \in n.frames[i].open
            PROVE  n.location[w] # n.frames[i].base
        <5>1. CASE w = u
          <6>1. i = d
            BY <2>6, <2>8, <2>12, <4>1, <5>1
          <6> QED
            BY <1>1, <1>2, <2>7, <2>8, <2>11, <5>1, <6>1
        <5>2. CASE w # u
          <6>1. w \in m.frames[i].open
            BY <1>1, <2>5, <2>6, <2>8, <4>1, <5>2
          <6>2. m.location[w] # m.frames[i].base /\ w \in Upvalue
            BY <1>1, <2>12, <6>1 DEF Firm, BasesPlain
          <6> QED
            BY <2>7, <2>8, <2>11, <5>2, <6>2
        <5> QED
          BY <5>1, <5>2
      <4> QED
        BY <2>6, <2>8, <4>1 DEF BasesPlain
    <3> QED
      BY <2>9, <3>1, <3>2 DEF Firm
  <2>17. Len(n.frames) = d /\ DOMAIN n.frames = 1 .. d /\ d \in 1 .. d
    BY <1>1, <2>6, <2>8
  <2> HIDE DEF x, d, f
  <2> QED
    BY <1>1, <1>5, <2>3, <2>8, <2>10, <2>11, <2>13, <2>14, <2>15, <2>16, <2>17 DEF n, u, x, d, f, CapturedIn
<1> QED
  BY <1>4, <1>5

-----------------------------------------------------------------------------
(* Stacks                                                                    *)

LEMMA StackGrows ==
  ASSUME NEW S, NEW t \in Seq(S), NEW T, NEW w \in Seq(T), Len(w) = Len(t) + 1,
         \A i \in 1 .. Len(t) : w[i] = t[i]
  PROVE  w = Append(t, w[Len(t) + 1]) /\ Last(w) = w[Len(t) + 1] /\ w # << >>
<1>1. Len(t) \in Nat /\ DOMAIN t = 1 .. Len(t) /\ DOMAIN w = 1 .. Len(t) + 1
  OBVIOUS
<1>2. ASSUME NEW x \in T
      PROVE  /\ Append(t, x) \in Seq(S \cup T) /\ Len(Append(t, x)) = Len(t) + 1
             /\ Append(t, x)[Len(t) + 1] = x
             /\ \A i \in 1 .. Len(t) : Append(t, x)[i] = t[i]
  <2>1. t \in Seq(S \cup T)
    BY SeqMonotonic, S \subseteq S \cup T
  <2> QED
    BY <2>1
<1>3. w \in Seq(S \cup T)
  BY SeqMonotonic, T \subseteq S \cup T
<1>4. w[Len(t) + 1] \in T
  BY <1>1
<1>5. \A i \in 1 .. Len(t) + 1 : i \in 1 .. Len(t) \/ i = Len(t) + 1
  BY <1>1
<1>6. \A i \in 1 .. Len(w) : w[i] = Append(t, w[Len(t) + 1])[i]
  BY <1>2, <1>4, <1>5
<1>7. Len(Append(t, w[Len(t) + 1])) = Len(w) /\ Append(t, w[Len(t) + 1]) \in Seq(S \cup T)
  BY <1>2, <1>4
<1>8. w = Append(t, w[Len(t) + 1])
  BY <1>3, <1>6, <1>7, SeqEqual
<1>9. Last(w) = w[Len(t) + 1] /\ w # << >>
  BY <1>1 DEF Last
<1> QED
  BY <1>8, <1>9

LEMMA StackShrinks ==
  ASSUME NEW S, NEW t \in Seq(S), t # << >>, NEW T, NEW w \in Seq(T), Len(w) = Len(t) - 1,
         \A i \in 1 .. Len(w) : w[i] = t[i]
  PROVE  w = Front(t)
<1>1. Len(t) \in Nat \ {0} /\ DOMAIN t = 1 .. Len(t) /\ DOMAIN w = 1 .. Len(t) - 1
  OBVIOUS
<1>2. /\ Front(t) \in Seq(S) /\ Len(Front(t)) = Len(t) - 1
      /\ \A i \in 1 .. Len(t) - 1 : Front(t)[i] = t[i]
  BY <1>1 DEF Front
<1>3. Front(t) \in Seq(S \cup T) /\ w \in Seq(S \cup T)
  BY <1>2, SeqMonotonic, S \subseteq S \cup T, T \subseteq S \cup T
<1>4. \A i \in 1 .. Len(w) : w[i] = Front(t)[i]
  BY <1>2
<1> QED
  BY <1>2, <1>3, <1>4, SeqEqual

LEMMA StackChanges ==
  ASSUME NEW S, NEW t \in Seq(S), t # << >>, NEW T, NEW w \in Seq(T), Len(w) = Len(t),
         \A i \in 1 .. Len(t) - 1 : w[i] = t[i]
  PROVE  w = [t EXCEPT ![Len(t)] = w[Len(t)]]
<1>1. Len(t) \in Nat \ {0} /\ DOMAIN t = 1 .. Len(t) /\ DOMAIN w = 1 .. Len(t)
  OBVIOUS
<1>2. t \in Seq(S \cup T) /\ w \in Seq(S \cup T)
  BY SeqMonotonic, S \subseteq S \cup T, T \subseteq S \cup T
<1> DEFINE x == w[Len(t)]
           c == [t EXCEPT ![Len(t)] = x]
<1>3. x \in S \cup T /\ Len(t) \in 1 .. Len(t)
  BY <1>1
<1> HIDE DEF x
<1>4. /\ c \in Seq(S \cup T) /\ Len(c) = Len(t)
      /\ \A j \in 1 .. Len(t) : c[j] = IF j = Len(t) THEN x ELSE t[j]
  BY <1>2, <1>3, ExceptSeq
<1> HIDE DEF c
<1>5. \A i \in 1 .. Len(w) : w[i] = c[i]
  <2> DEFINE n == Len(t)
  <2>1. n \in Nat /\ Len(w) = n /\ (\A i \in 1 .. n - 1 : w[i] = t[i]) /\ w[n] = x
    BY <1>1 DEF x
  <2>2. \A j \in 1 .. n : c[j] = IF j = n THEN x ELSE t[j]
    BY <1>4
  <2> HIDE DEF n
  <2>3. \A i \in 1 .. n : i \in 1 .. n - 1 \/ i = n
    BY <2>1
  <2>4. \A i \in 1 .. n : w[i] = c[i]
    BY <2>1, <2>2, <2>3
  <2> QED
    BY <2>1, <2>4
<1>6. w = c
  BY <1>2, <1>4, <1>5, SeqEqual
<1> QED
  BY <1>6 DEF c, x

(* The activations that are on the stack *)
Seen(m, R) == {Activation(m, R, i) : i \in 1 .. Len(m.frames)}

LEMMA StackIs ==
  ASSUME NEW m \in Machine, ~m.failed, NEW R
  PROVE  LET t == Activations(m, R)
             d == Len(m.frames)
         IN  /\ d \in Nat /\ t \in Seq(Seen(m, R)) /\ Len(t) = d
             /\ DOMAIN t = 1 .. d
             /\ \A i \in 1 .. d : t[i] = Activation(m, R, i)
             /\ t # << >> <=> m.frames # << >>
<1> DEFINE t == Activations(m, R)
           d == Len(m.frames)
           S == Seen(m, R)
<1>1. t = [i \in 1 .. d |-> Activation(m, R, i)]
  BY DEF Activations, Depth
<1>2. d \in Nat /\ (m.frames = << >> <=> d = 0)
  BY FieldTypes
<1>3. t \in [1 .. d -> S] /\ \A i \in 1 .. d : t[i] = Activation(m, R, i)
  BY <1>1 DEF Seen
<1> HIDE DEF t, d, S
<1>4. t \in Seq(S) /\ Len(t) = d /\ DOMAIN t = 1 .. d
  BY <1>2, <1>3
<1>5. t = << >> <=> d = 0
  BY <1>2, <1>4
<1> QED
  BY <1>2, <1>3, <1>4, <1>5 DEF t, d, S

LEMMA NoStack ==
  ASSUME NEW m, m.failed \/ m.frames = << >>, NEW R
  PROVE  Activations(m, R) = << >>
BY DEF Activations, Depth

-----------------------------------------------------------------------------
(* Runs                                                                      *)

LEMMA LastRun ==
  ASSUME NEW R \in Seq(Run), R # << >>
  PROVE  /\ Len(R) \in Nat \ {0} /\ DOMAIN R = 1 .. Len(R) /\ Last(R) = R[Len(R)]
         /\ Last(R) \in Run /\ Last(R).entry \in Nat /\ Last(R).saved0 \in Value
         /\ Last(R).native \in Nat \cup {None}
         /\ \A k \in 1 .. Len(R) : R[k] \in Run /\ R[k].entry \in Nat
<1>1. Len(R) \in Nat \ {0} /\ DOMAIN R = 1 .. Len(R) /\ \A k \in 1 .. Len(R) : R[k] \in Run
  OBVIOUS
<1> QED
  BY <1>1 DEF Last, Run

(* The last run is current, and starts above the other current ones. *)
LEMMA CurrentRuns ==
  ASSUME NEW R \in Seq(Run), R # << >>
  PROVE  /\ Len(R) \in Current(R) /\ Current(R) \subseteq 1 .. Len(R)
         /\ \A k \in Current(R) : /\ R[k].entry \in Nat /\ R[k].entry <= Last(R).entry
                                  /\ k # Len(R) => R[k].entry < Last(R).entry
<1>1. /\ Len(R) \in Nat \ {0} /\ DOMAIN R = 1 .. Len(R) /\ Last(R) = R[Len(R)]
      /\ \A k \in 1 .. Len(R) : R[k].entry \in Nat
  BY LastRun
<1>2. Len(R) \in Current(R) /\ Current(R) \subseteq 1 .. Len(R)
  BY <1>1 DEF Current
<1>3. ASSUME NEW k \in Current(R), k # Len(R) PROVE R[k].entry < Last(R).entry
  <2>1. k \in 1 .. Len(R) /\ Len(R) \in k + 1 .. Len(R)
    BY <1>1, <1>2, <1>3
  <2>2. Last(R).entry > R[k].entry
    BY <1>1, <2>1 DEF Current
  <2> QED
    BY <1>1, <2>1, <2>2
<1>4. ASSUME NEW k \in Current(R) PROVE R[k].entry \in Nat /\ R[k].entry <= Last(R).entry
  BY <1>1, <1>2, <1>3
<1> QED
  BY <1>2, <1>3, <1>4

LEMMA AboveRuns ==
  ASSUME NEW R \in Seq(Run), R # << >>, NEW i \in Int
  PROVE  /\ i > Last(R).entry => StartedOn(R, i) = {}
         /\ i > Last(R).entry + 1 => i \notin EntryFrames(R)
         /\ Last(R).entry + 1 \in EntryFrames(R)
<1>1. Last(R).entry \in Nat /\ Last(R) = R[Len(R)]
  BY LastRun
<1> QED
  BY <1>1, CurrentRuns DEF StartedOn, EntryFrames

(* A run that starts above the last one is one more. *)
LEMMA RunStarts ==
  ASSUME NEW R \in Seq(Run), R # << >>, NEW new \in Run, new.entry > Last(R).entry
  PROVE  Current(Append(R, new)) = Current(R) \cup {Len(R) + 1}
<1> DEFINE Q == Append(R, new)
           n == Len(R)
<1>1. /\ n \in Nat \ {0} /\ DOMAIN R = 1 .. n /\ Last(R) = R[n]
      /\ Q \in Seq(Run) /\ Len(Q) = n + 1 /\ DOMAIN Q = 1 .. n + 1
      /\ Q[n + 1] = new /\ \A k \in 1 .. n : Q[k] = R[k] /\ R[k].entry \in Nat
  BY LastRun
<1>2. new.entry \in Nat /\ Last(R).entry \in Nat
  BY LastRun DEF Run
<1> HIDE DEF Q, n
<1>3. n + 1 \in Current(Q)
  BY <1>1 DEF Current
<1>4. ASSUME NEW k \in 1 .. n
      PROVE  k \in Current(Q) <=> k \in Current(R)
  <2>1. k \in Current(Q) <=> \A j \in k + 1 .. n + 1 : Q[j].entry > Q[k].entry
    BY <1>1, <1>4 DEF Current
  <2>2. k \in Current(R) <=> \A j \in k + 1 .. n : R[j].entry > R[k].entry
    BY <1>1, <1>4 DEF Current, n
  <2>3. k + 1 .. n + 1 = (k + 1 .. n) \cup {n + 1} /\ \A j \in k + 1 .. n : j \in 1 .. n
    BY <1>1, SMTT(40)
  <2>4. k \in Current(Q) => k \in Current(R)
    BY <1>1, <2>1, <2>2, <2>3
  <2>5. k \in Current(R) => R[k].entry <= Last(R).entry
    BY CurrentRuns
  <2>6. k \in Current(R) => k \in Current(Q)
    <3>1. k \in Current(R) => new.entry > R[k].entry
      BY <1>1, <1>2, <2>5
    <3>2. k \in Current(R) => \A j \in k + 1 .. n : Q[j].entry > Q[k].entry
      BY <1>1, <2>2, <2>3
    <3>3. Q[n + 1] = new /\ Q[k] = R[k]
      BY <1>1
    <3> QED
      BY <2>1, <2>3, <3>1, <3>2, <3>3
  <2> QED
    BY <2>4, <2>6
<1>5. Current(Q) \subseteq 1 .. n + 1 /\ Current(R) \subseteq 1 .. n
  BY <1>1 DEF Current
<1>6. \A k \in 1 .. n + 1 : k \in 1 .. n \/ k = n + 1
  BY <1>1
<1>7. Current(Q) = Current(R) \cup {n + 1}
  BY <1>3, <1>4, <1>5, <1>6
<1> QED
  BY <1>7 DEF Q, n

(* After a reset no run but the one that starts is current. *)
LEMMA RunStartsFresh ==
  ASSUME NEW R \in Seq(Run), NEW new \in Run, new.entry = 0
  PROVE  Current(Append(R, new)) = {Len(R) + 1}
<1> DEFINE Q == Append(R, new)
           n == Len(R)
<1>1. /\ n \in Nat /\ Len(Q) = n + 1 /\ DOMAIN Q = 1 .. n + 1 /\ Q[n + 1] = new
      /\ \A k \in 1 .. n : Q[k] = R[k] /\ R[k] \in Run
  OBVIOUS
<1>2. \A k \in 1 .. n : R[k].entry \in Nat
  BY <1>1 DEF Run
<1> HIDE DEF Q, n
<1>3. n + 1 \in Current(Q)
  BY <1>1 DEF Current
<1>4. ASSUME NEW k \in 1 .. n PROVE k \notin Current(Q)
  <2>1. n + 1 \in k + 1 .. Len(Q) /\ ~(Q[n + 1].entry > Q[k].entry)
    BY <1>1, <1>2
  <2> QED
    BY <2>1 DEF Current
<1>5. Current(Q) \subseteq 1 .. n + 1 /\ \A k \in 1 .. n + 1 : k \in 1 .. n \/ k = n + 1
  BY <1>1 DEF Current
<1>6. Current(Q) = {n + 1}
  BY <1>3, <1>4, <1>5
<1> QED
  BY <1>6 DEF Q, n

(* A run that a native in progress starts above the frames there are *)
StartsOn(R, new) ==
  /\ R \in Seq(Run) /\ R # << >> /\ R[1].entry = 0 /\ Last(R).native # None
  /\ new \in Run /\ new.entry > Last(R).entry /\ new.native = None

(* The native in progress when a run starts stays that of the frame below. *)
LEMMA RunStartsShows ==
  ASSUME NEW R, NEW new, StartsOn(R, new),
         NEW m, Depth(m) = new.entry, NEW n, NEW i \in 1 .. new.entry
  PROVE  /\ NativeIn(n, Append(R, new), i) = NativeIn(m, R, i)
         /\ i \in EntryFrames(Append(R, new)) <=> i \in EntryFrames(R)
<1> USE DEF StartsOn
<1> DEFINE Q == Append(R, new)
           l == Len(R)
           One(S) == CHOOSE k \in S : TRUE
<1>1. /\ l \in Nat \ {0} /\ Len(Q) = l + 1 /\ Q[l + 1] = new /\ Last(Q) = new
      /\ \A k \in 1 .. l : Q[k] = R[k] /\ R[k].entry \in Nat
      /\ Last(R) = R[l] /\ Last(R).entry \in Nat /\ new.entry \in Nat
  <2>1. /\ l \in Nat \ {0} /\ \A k \in 1 .. l : R[k].entry \in Nat
        /\ Last(R) = R[l] /\ Last(R).entry \in Nat
    BY LastRun
  <2>2. /\ Len(Q) = l + 1 /\ Q[l + 1] = new /\ \A k \in 1 .. l : Q[k] = R[k]
    OBVIOUS
  <2> HIDE DEF Q
  <2>3. Last(Q) = new /\ new.entry \in Nat
    BY <2>2 DEF Last, Run
  <2> QED
    BY <2>1, <2>2, <2>3
<1>2. Current(Q) = Current(R) \cup {l + 1} /\ Current(R) \subseteq 1 .. l
  BY RunStarts, CurrentRuns
<1> HIDE DEF Q
<1>3. i \in EntryFrames(Q) <=> i \in EntryFrames(R)
  BY <1>1, <1>2, SMTT(40) DEF EntryFrames
<1>4. StartedOn(Q, i) = IF i = new.entry THEN StartedOn(R, i) \cup {l + 1} ELSE StartedOn(R, i)
  BY <1>1, <1>2 DEF StartedOn
<1>5. CASE i = new.entry
  <2>1. StartedOn(R, i) = {}
    BY <1>1, <1>5, AboveRuns
  <2>2. StartedOn(Q, i) = {l + 1}
    BY <1>4, <1>5, <2>1
  <2>3. One(StartedOn(Q, i)) = l + 1
    BY <2>2
  <2>4. NativeIn(n, Q, i) = Q[One(StartedOn(Q, i)) - 1].native
    BY <1>1, <2>2 DEF NativeIn
  <2>5. One(StartedOn(Q, i)) - 1 = l
    <3> HIDE DEF One, l
    <3> QED
      BY <1>1, <2>3
  <2>6. NativeIn(n, Q, i) = Last(R).native
    <3>1. NativeIn(n, Q, i) = Q[l].native
      BY <2>4, <2>5, Zenon
    <3>2. Q[l] = R[l] /\ R[l] = Last(R)
      BY <1>1
    <3> QED
      BY <3>1, <3>2
  <2>7. NativeIn(m, R, i) = Last(R).native
    BY <1>5 DEF NativeIn
  <2> QED
    BY <1>3, <2>6, <2>7 DEF Q
<1>6. CASE i # new.entry
  <2>1. StartedOn(Q, i) = StartedOn(R, i)
    BY <1>4, <1>6
  <2>2. ASSUME NEW k \in StartedOn(R, i) PROVE Q[k - 1] = R[k - 1]
    <3>1. k \in 1 .. l /\ R[k].entry = i
      BY <1>2 DEF StartedOn
    <3>2. k # 1
      BY <3>1
    <3>3. k - 1 \in 1 .. l
      BY <1>1, <3>1, <3>2
    <3> QED
      BY <1>1, <3>3
  <2>3. StartedOn(R, i) # {} => One(StartedOn(R, i)) \in StartedOn(R, i)
    OBVIOUS
  <2>4. NativeIn(n, Q, i) = IF StartedOn(Q, i) # {} THEN Q[One(StartedOn(Q, i)) - 1].native ELSE None
    BY <1>1 DEF NativeIn
  <2>5. NativeIn(m, R, i) = IF StartedOn(R, i) # {} THEN R[One(StartedOn(R, i)) - 1].native ELSE None
    BY <1>6 DEF NativeIn
  <2> HIDE DEF One
  <2>6. NativeIn(n, Q, i) = NativeIn(m, R, i)
    BY <2>1, <2>2, <2>3, <2>4, <2>5
  <2> QED
    BY <1>3, <2>6 DEF Q
<1> QED
  BY <1>5, <1>6

NativeOn(R, Q, x, m, n) ==
  LET l == Len(R)
  IN  /\ Q \in Seq(Run) /\ Len(Q) = l /\ Q # << >>
      /\ \A k \in 1 .. l : Q[k].entry = R[k].entry /\ Q[k].saved0 = R[k].saved0
      /\ \A k \in 1 .. l - 1 : Q[k] = R[k]
      /\ Last(Q).native = x /\ Last(Q).entry = Last(R).entry
      /\ Current(Q) = Current(R) /\ EntryFrames(Q) = EntryFrames(R)
      /\ \A i \in 1 .. Depth(m) - 1 : NativeIn(n, Q, i) = NativeIn(m, R, i)
      /\ NativeIn(n, Q, Depth(n)) = x

(* A native that starts or returns is that of the last frame only. *)
LEMMA NativeShows ==
  ASSUME NEW R \in Seq(Run), R # << >>, R[1].entry = 0, NEW x \in Nat \cup {None},
         NEW m, NEW n, Depth(n) = Depth(m), Depth(m) \in Nat, Depth(m) > Last(R).entry,
         NEW Q, Q = [R EXCEPT ![Len(R)].native = x]
  PROVE  NativeOn(R, Q, x, m, n)
<1> DEFINE l == Len(R)
           One(S) == CHOOSE k \in S : TRUE
<1>1. /\ l \in Nat \ {0} /\ DOMAIN R = 1 .. l /\ Last(R) = R[l] /\ Last(R) \in Run
      /\ Last(R).entry \in Nat /\ \A k \in 1 .. l : R[k] \in Run /\ R[k].entry \in Nat
  BY LastRun
<1>2. /\ [Last(R) EXCEPT !.native = x] \in Run /\ [Last(R) EXCEPT !.native = x].native = x
      /\ [Last(R) EXCEPT !.native = x].entry = Last(R).entry
      /\ [Last(R) EXCEPT !.native = x].saved0 = Last(R).saved0
  <2>1. \A run \in Run : /\ [run EXCEPT !.native = x] \in Run /\ [run EXCEPT !.native = x].native = x
                         /\ [run EXCEPT !.native = x].entry = run.entry
                         /\ [run EXCEPT !.native = x].saved0 = run.saved0
    BY DEF Run
  <2> QED
    BY <1>1, <2>1
<1>3. Q = [R EXCEPT ![l] = [Last(R) EXCEPT !.native = x]]
  BY <1>1
<1>4. /\ Q \in Seq(Run) /\ Len(Q) = l /\ DOMAIN Q = 1 .. l /\ Q[l] = [Last(R) EXCEPT !.native = x]
      /\ \A k \in 1 .. l - 1 : Q[k] = R[k]
  <2> DEFINE y == [Last(R) EXCEPT !.native = x]
  <2> HIDE DEF y
  <2> QED
    BY <1>1, <1>2, <1>3 DEF y
<1>5. Q # << >> /\ Last(Q) = Q[l]
  BY <1>1, <1>4 DEF Last
<1>6. \A k \in 1 .. l : Q[k].entry = R[k].entry /\ Q[k].saved0 = R[k].saved0
  <2>1. \A k \in 1 .. l : k = l \/ k \in 1 .. l - 1
    <3> HIDE DEF l
    <3> QED
      BY <1>1
  <2> QED
    BY <1>1, <1>2, <1>4, <2>1
<1>7. Current(Q) = Current(R)
  <2>1. ASSUME NEW k \in 1 .. l PROVE k \in Current(Q) <=> k \in Current(R)
    <3>1. \A j \in k + 1 .. l : j \in 1 .. l
      BY <1>1
    <3> QED
      BY <1>1, <1>4, <1>6, <3>1 DEF Current
  <2> QED
    BY <1>1, <1>4, <2>1 DEF Current
<1>8. Current(R) \subseteq 1 .. l
  BY CurrentRuns
<1>9. EntryFrames(Q) = EntryFrames(R)
  BY <1>6, <1>7, <1>8 DEF EntryFrames
<1>10. ASSUME NEW i PROVE StartedOn(Q, i) = StartedOn(R, i)
  BY <1>6, <1>7, <1>8 DEF StartedOn
<1>11. ASSUME NEW i \in 1 .. Depth(m) - 1 PROVE NativeIn(n, Q, i) = NativeIn(m, R, i)
  <2>1. ASSUME NEW k \in StartedOn(R, i) PROVE Q[k - 1] = R[k - 1]
    <3>1. k \in 1 .. l /\ R[k].entry = i
      BY <1>8 DEF StartedOn
    <3>2. k # 1
      BY <3>1
    <3>3. k - 1 \in 1 .. l - 1
      BY <1>1, <3>1, <3>2
    <3> QED
      BY <1>4, <3>3
  <2>2. StartedOn(R, i) # {} => One(StartedOn(R, i)) \in StartedOn(R, i)
    OBVIOUS
  <2>3. i # Depth(m)
    OBVIOUS
  <2>4. NativeIn(n, Q, i) = IF StartedOn(Q, i) # {} THEN Q[One(StartedOn(Q, i)) - 1].native ELSE None
    BY <2>3 DEF NativeIn
  <2>5. NativeIn(m, R, i) = IF StartedOn(R, i) # {} THEN R[One(StartedOn(R, i)) - 1].native ELSE None
    BY <2>3 DEF NativeIn
  <2> HIDE DEF One
  <2> QED
    BY <1>10, <2>1, <2>2, <2>4, <2>5
<1>12. NativeIn(n, Q, Depth(n)) = x
  <2>1. StartedOn(R, Depth(n)) = {}
    BY AboveRuns
  <2>2. StartedOn(Q, Depth(n)) = {}
    BY <1>10, <2>1
  <2>3. Last(Q).native = x
    BY <1>2, <1>4, <1>5
  <2> QED
    BY <2>2, <2>3 DEF NativeIn
<1> QED
  BY <1>2, <1>4, <1>5, <1>6, <1>7, <1>9, <1>11, <1>12 DEF NativeOn

-----------------------------------------------------------------------------
(* Steps that show nothing                                                   *)

Calm(m, n) == Sound(n) /\ Alike(m, n) /\ n.registers = m.registers /\ n.closed = m.closed

LEMMA CalmKeeps ==
  ASSUME NEW m, Firm(m), NEW n, Calm(m, n)
  PROVE  /\ Firm(n) /\ Cells(n) = Cells(m) /\ n.made = m.made
         /\ n.frames = m.frames /\ n.currentBase = m.currentBase /\ n.registers = m.registers
         /\ \A i \in DOMAIN m.frames : Variables(n, m.frames[i]) = Variables(m, m.frames[i])
<1>1. Sound(n) /\ Alike(m, n) /\ n.registers = m.registers /\ n.closed = m.closed
  BY DEF Calm
<1>2. Firm(n)
  BY <1>1 DEF Firm, ReturnsFit, BasesPlain, Alike
<1>3. Cells(n) = Cells(m)
  BY <1>1 DEF Cells, Read, Alike
<1>4. ASSUME NEW i \in DOMAIN m.frames PROVE Variables(n, m.frames[i]) = Variables(m, m.frames[i])
  BY <1>1, SameVariables DEF Alike
<1> QED
  BY <1>1, <1>2, <1>3, <1>4 DEF Alike

LEMMA CalmSteps ==
  ASSUME NEW m, Sound(m)
  PROVE  /\ Calm(m, m) /\ Calm(m, Fail(m)) /\ Calm(m, ConsumeGas(m))
         /\ \A limit \in Nat : Calm(m, InitBudget(m, limit))
         /\ Affords(m) => ConsumeGas(m).failed = m.failed
         /\ ~Affords(m) => ConsumeGas(m).failed
<1>1. Calm(m, m)
  BY DEF Calm, Alike
<1>2. Calm(m, Fail(m))
  BY FailSound DEF Calm, Fail, Sound, Machine
<1>3. Calm(m, ConsumeGas(m))
  <2>1. Sound(ConsumeGas(m)) /\ Alike(m, ConsumeGas(m)) /\ ConsumeGas(m).registers = m.registers
    BY GasSound
  <2>2. ConsumeGas(m).closed = m.closed
    BY DEF ConsumeGas, Fail, Sound, Machine
  <2> QED
    BY <2>1, <2>2 DEF Calm
<1>4. ASSUME NEW limit \in Nat PROVE Calm(m, InitBudget(m, limit))
  BY BudgetSound DEF Calm, InitBudget, Sound, Machine
<1>5. Affords(m) => ConsumeGas(m).failed = m.failed
  BY DEF ConsumeGas, Sound, Machine
<1>6. ~Affords(m) => ConsumeGas(m).failed
  BY DEF ConsumeGas, Affords, Fail, Sound, Machine
<1> QED
  BY <1>1, <1>2, <1>3, <1>4, <1>5, <1>6

(* push_frame that does not push fails. *)
LEMMA PushRefused ==
  ASSUME NEW m, Sound(m), NEW function \in Function, NEW return, NEW closure, ~Fits(m, function)
  PROVE  /\ Calm(m, PushFrame(m, function, return, closure))
         /\ PushFrame(m, function, return, closure).failed
<1> DEFINE paid == ConsumeGas(m)
<1>1. Calm(m, paid) /\ (~Affords(m) => paid.failed) /\ Sound(paid)
  BY CalmSteps DEF Calm
<1>2. Calm(paid, Fail(paid)) /\ Fail(paid).failed
  BY <1>1, CalmSteps, FailSound
<1>3. Calm(m, Fail(paid))
  BY <1>1, <1>2 DEF Calm, Alike
<1> HIDE DEF paid
<1>4. PushFrame(m, function, return, closure) = IF ~Affords(m) THEN paid ELSE Fail(paid)
  BY DEF PushFrame, Fits, paid
<1> QED
  BY <1>1, <1>2, <1>3, <1>4

LEMMA PrologueShows ==
  ASSUME NEW m, Firm(m), NEW kind \in Kind, NEW limit \in Nat
  PROVE  LET n == Prologue(m, kind, limit)
         IN  /\ Firm(n) /\ Cells(n) = Cells(m) /\ n.made = m.made /\ n.frames = m.frames
             /\ m.frames # << >> => Calm(m, n) /\ n.failed = m.failed
             /\ m.frames = << >> => n.stackTop = 0 /\ ~n.failed
<1> DEFINE n == Prologue(m, kind, limit)
<1>1. Sound(m)
  BY DEF Firm
<1>2. CASE m.frames = << >>
  <2>1. Firm(Reset(m)) /\ Cells(Reset(m)) = Cells(m) /\ Reset(m).stackTop = 0 /\ Sound(Reset(m))
        /\ Reset(m).frames = << >> /\ Reset(m).made = m.made /\ ~Reset(m).failed
    BY <1>1, ResetShows, ResetSound
  <2>2. n = InitBudget(Reset(m), limit)
    BY <1>2 DEF Prologue
  <2>3. Calm(Reset(m), n) /\ n.failed = Reset(m).failed
    BY <2>1, <2>2, CalmSteps, BudgetSound
  <2>4. Firm(n) /\ Cells(n) = Cells(Reset(m)) /\ n.made = Reset(m).made
    BY <2>1, <2>3, CalmKeeps
  <2> QED
    BY <1>2, <2>1, <2>3, <2>4 DEF Calm, Alike
<1>3. CASE m.frames # << >>
  <2>1. n = m \/ n = InitBudget(m, limit)
    BY <1>3 DEF Prologue
  <2>2. Calm(m, n) /\ n.failed = m.failed
    BY <1>1, <2>1, CalmSteps, BudgetSound
  <2> QED
    BY <1>3, <2>2, CalmKeeps
<1> QED
  BY <1>2, <1>3

LEMMA EpilogueShows ==
  ASSUME NEW m, Firm(m), NEW run \in Run, run.kind = "init" /\ run.entry > 0 => run.budget # << >>
  PROVE  LET n == Epilogue(m, run)
         IN  /\ Firm(n) /\ Cells(n) = Cells(m) /\ n.made = m.made
             /\ n.frames = << >> \/ (Calm(m, n) /\ n.failed = m.failed)
             /\ ~m.failed => Calm(m, n) /\ ~n.failed
<1> DEFINE n == Epilogue(m, run)
<1>1. Sound(m)
  BY DEF Firm
<1>2. CASE run.kind = "init" /\ run.entry > 0
  <2>1. Calm(m, n) /\ n.failed = m.failed
    <3>1. n = [m EXCEPT !.gasEnabled = run.budget[1], !.gas = run.budget[2]]
      BY <1>2 DEF Epilogue
    <3>2. n.registers = m.registers /\ n.closed = m.closed /\ n.failed = m.failed /\ Alike(m, n)
      BY <1>1, <3>1 DEF Sound, Machine, Alike
    <3>3. Sound(n)
      BY <1>1, EpilogueSound
    <3> QED
      BY <3>2, <3>3 DEF Calm
  <2> QED
    BY <2>1, CalmKeeps
<1>3. CASE ~(run.kind = "init" /\ run.entry > 0) /\ run.kind = "compiled" /\ m.failed
  <2>1. n = Reset(m)
    BY <1>3 DEF Epilogue
  <2> QED
    BY <1>1, <1>3, <2>1, ResetShows, ResetSound
<1>4. CASE ~(run.kind = "init" /\ run.entry > 0) /\ ~(run.kind = "compiled" /\ m.failed)
  <2>1. n = m
    BY <1>4 DEF Epilogue
  <2> QED
    BY <1>1, <2>1, CalmSteps
<1> QED
  BY <1>2, <1>3, <1>4

(* A machine that failed, or that has no frames, shows no activation. *)
LEMMA Aborts ==
  ASSUME Firm(vm'), RunsNest(runs'), vm'.failed \/ vm'.frames = << >>,
         Cells(vm') = Cells(vm), vm'.made = vm.made, UNCHANGED closures
  PROVE  JInv' /\ Stack!Next
<1>1. JInv'
  BY DEF JInv, Nested, Live
<1>2. Activations(vm', runs') = << >>
  BY NoStack
<1>3. Stack!Abort
  BY <1>2 DEF Stack!Abort
<1> QED
  BY <1>1, <1>3 DEF Stack!Next

-----------------------------------------------------------------------------
(* Calls from C++                                                            *)

(* A frame on top is an activation on top. *)
LEMMA PushStep ==
  ASSUME vm \in Machine, vm' \in Machine, vm.failed => vm.frames = << >>, ~vm'.failed,
         Len(vm'.frames) = Len(vm.frames) + 1,
         \A i \in 1 .. Len(vm.frames) : Activation(vm', runs', i) = Activation(vm, runs, i),
         NEW a, a = Activation(vm', runs', Len(vm.frames) + 1),
         a.function \in Function, a.closure \in closures \cup {<< >>}, a.native = None,
         a.locals \in [0 .. a.function.registers - 1 -> Value],
         Cells(vm') = Cells(vm), vm'.made = vm.made, UNCHANGED closures
  PROVE  Stack!Push /\ Stack!New = a
<1> DEFINE t == Activations(vm, runs)
           w == Activations(vm', runs')
           d == Len(vm.frames)
           S == Seen(vm, runs)
           T == Seen(vm', runs')
<1>1. t \in Seq(S) /\ Len(t) = d /\ d \in Nat /\ \A i \in 1 .. d : t[i] = Activation(vm, runs, i)
  <2>1. CASE vm.failed
    <3>1. t = << >> /\ d = 0
      BY <2>1 DEF Activations
    <3> HIDE DEF t, d
    <3> QED
      BY <3>1
  <2>2. CASE ~vm.failed
    BY <2>2, StackIs
  <2> QED
    BY <2>1, <2>2
<1>2. w \in Seq(T) /\ Len(w) = d + 1 /\ \A i \in 1 .. d + 1 : w[i] = Activation(vm', runs', i)
  BY StackIs
<1> HIDE DEF t, w, d, S, T
<1>3. \A i \in 1 .. d : w[i] = t[i]
  BY <1>1, <1>2 DEF d
<1>4. w[d + 1] = a
  BY <1>1, <1>2 DEF d
<1>5. w = Append(t, a) /\ Last(w) = a
  <2>1. w = Append(t, w[Len(t) + 1]) /\ Last(w) = w[Len(t) + 1]
    BY <1>1, <1>2, <1>3, StackGrows
  <2> QED
    BY <1>1, <1>4, <2>1
<1>6. Len(w) = Len(t) + 1
  BY <1>1, <1>2
<1>7. Stack!New = a
  BY <1>5 DEF Stack!New, Stack!Last, Last, w
<1> QED
  BY <1>5, <1>6, <1>7 DEF Stack!Push, t, w

LEMMA RefusedStep ==
  ASSUME IInv, JInv, NEW kind \in Kind, NEW limit \in Nat, Refused(kind, limit), UNCHANGED closures
  PROVE  JInv' /\ Stack!Next
<1> DEFINE p == Prologue(vm, kind, limit)
           m == Fail(p)
<1>1. Firm(vm) /\ Firm(p) /\ Cells(p) = Cells(vm) /\ p.made = vm.made
  BY PrologueShows DEF JInv
<1> HIDE DEF p
<1>2. Calm(p, m) /\ m.failed
  BY <1>1, CalmSteps, FailSound DEF Firm
<1>3. Firm(m) /\ Cells(m) = Cells(vm) /\ m.made = vm.made
  BY <1>1, <1>2, CalmKeeps
<1>4. vm' = Epilogue(m, NewRun(kind)) /\ runs' = runs
  BY DEF Refused, p
<1> HIDE DEF m
<1>5. /\ Firm(vm') /\ Cells(vm') = Cells(vm) /\ vm'.made = vm.made
      /\ vm'.frames = << >> \/ vm'.failed
  <2>1. /\ NewRun(kind) \in Run
        /\ NewRun(kind).kind = "init" /\ NewRun(kind).entry > 0 => NewRun(kind).budget # << >>
    BY NewRunType
  <2> QED
    BY <1>2, <1>3, <1>4, <2>1, EpilogueShows
<1> QED
  BY <1>4, <1>5, Aborts DEF JInv, Nested

(* A push that fits starts its frame at stack_top_. *)
LEMMA PushFits ==
  ASSUME NEW m, Sound(m), NEW function \in Function, NEW return, NEW closure, Fits(m, function)
  PROVE  LET p == PushFrame(m, function, return, closure)
         IN  p.currentBase = m.stackTop /\ m.stackTop \in Nat /\ (m.failed = p.failed)
<1> DEFINE p == PushFrame(m, function, return, closure)
<1>1. function.registers \in Nat
  BY VMAssumption
<1>2. /\ ConsumeGas(m) \in Machine /\ ConsumeGas(m).failed = m.failed
  BY CalmSteps DEF Calm, Sound, Fits
<1>3. p = [ConsumeGas(m) EXCEPT !.stackTop = m.stackTop + function.registers, !.currentBase = m.stackTop,
                                !.frames = Append(m.frames, NewFrame(m, function, return, closure))]
  BY DEF PushFrame, Fits, NewFrame
<1>4. m.stackTop \in Nat
  BY FieldTypes DEF Sound
<1> HIDE DEF p
<1> QED
  BY <1>2, <1>3, <1>4 DEF Machine, p

(* The frame pushed, when the machine has failed or not *)
LEMMA PushFirm ==
  ASSUME NEW m, Firm(m), NEW function \in Function, NEW return \in Nat, NEW closure \in Seq(Upvalue),
         \A j \in DOMAIN closure : closure[j] <= m.made,
         m.frames # << >> => return < TopFrame(m).function.registers
  PROVE  LET p == PushFrame(m, function, return, closure)
         IN  Firm(p) /\ Cells(p) = Cells(m) /\ p.made = m.made
<1> DEFINE p == PushFrame(m, function, return, closure)
<1>1. CASE ~Fits(m, function)
  <2>1. Calm(m, p)
    BY <1>1, PushRefused DEF Firm
  <2> QED
    BY <2>1, CalmKeeps
<1>2. CASE Fits(m, function)
  <2> DEFINE values == m.registers
  <2>1. values \in [Register -> Value] /\ \A a \in Register : a < m.stackTop => values[a] = m.registers[a]
    BY FieldTypes DEF Firm, Sound
  <2>2. p \in Machine /\ p.registers = values
    BY PushSound DEF Firm, Sound
  <2> HIDE DEF p, values
  <2>3. Pushed(m, p, function, return, closure, values)
    BY <2>2 DEF Machine, Pushed, p
  <2>4. PushedOn(m, p, function, return, closure, values)
    BY <1>2, <2>1, <2>3, PushShows
  <2>5. Firm(p) /\ Cells(p) = Cells(m) /\ p.made = m.made
    BY <2>4 DEF PushedOn
  <2> QED
    BY <2>5 DEF p
<1> QED
  BY <1>1, <1>2

(* The frame that runs can take a result in register 0. *)
LEMMA TopFrameIs ==
  ASSUME NEW m, Sound(m), m.frames # << >>
  PROVE  /\ Len(m.frames) \in Nat \ {0} /\ DOMAIN m.frames = 1 .. Len(m.frames)
         /\ Len(m.frames) \in DOMAIN m.frames
         /\ TopFrame(m) = m.frames[Len(m.frames)] /\ m.currentBase = TopFrame(m).base
         /\ TopFrame(m).function.registers \in Nat \ {0} /\ 0 < TopFrame(m).function.registers
         /\ TopFrame(m).base \in Nat
<1>1. /\ Len(m.frames) \in Nat \ {0} /\ DOMAIN m.frames = 1 .. Len(m.frames)
      /\ Len(m.frames) \in DOMAIN m.frames
  BY FieldTypes DEF Sound
<1>2. m.currentBase = TopFrame(m).base
  BY DEF Sound, WindowsTile
<1>3. /\ TopFrame(m) = m.frames[Len(m.frames)] /\ TopFrame(m).base \in Nat
      /\ TopFrame(m).function.registers \in Nat \ {0}
  BY <1>1, FrameTypes DEF Sound, TopFrame
<1> QED
  BY <1>1, <1>2, <1>3

LEMMA EnteredFails ==
  ASSUME IInv, JInv, NEW kind \in Kind, NEW limit \in Nat, NEW function \in Function,
         NEW closure \in closures \cup {<< >>}, NEW args,
         PushFrame(Prologue(vm, kind, limit), function, 0, closure).failed,
         Entered(kind, limit, function, closure, args), UNCHANGED closures
  PROVE  JInv' /\ Stack!Next
<1> DEFINE m == Prologue(vm, kind, limit)
           p == PushFrame(m, function, 0, closure)
<1>1. Firm(vm) /\ Firm(m) /\ Cells(m) = Cells(vm) /\ m.made = vm.made
  BY PrologueShows DEF JInv
<1>2. vm' = Epilogue(p, NewRun(kind)) /\ runs' = runs /\ p.failed
  BY DEF Entered
<1> HIDE DEF m
<1>3. Firm(p) /\ Cells(p) = Cells(vm) /\ p.made = vm.made
  <2>1. closure \in Seq(Upvalue) /\ \A j \in DOMAIN closure : closure[j] <= m.made
    BY <1>1, ClosureTypes
  <2>2. m.frames # << >> => 0 < TopFrame(m).function.registers
    BY <1>1, TopFrameIs DEF Firm
  <2>3. Firm(p) /\ Cells(p) = Cells(m) /\ p.made = m.made
    BY <1>1, <2>1, <2>2, PushFirm
  <2> HIDE DEF p
  <2> QED
    BY <1>1, <2>3
<1> HIDE DEF p
<1>4. /\ Firm(vm') /\ Cells(vm') = Cells(vm) /\ vm'.made = vm.made
      /\ vm'.frames = << >> \/ vm'.failed
  <2>1. /\ NewRun(kind) \in Run
        /\ NewRun(kind).kind = "init" /\ NewRun(kind).entry > 0 => NewRun(kind).budget # << >>
    BY NewRunType
  <2> QED
    BY <1>2, <1>3, <2>1, EpilogueShows
<1> QED
  BY <1>2, <1>4, Aborts DEF JInv, Nested

(* The run that starts finds what it needs when it ends, and those outside *)
(* still do.                                                               *)
LEMMA EnteredNests ==
  ASSUME IInv, JInv, NEW new \in Run, new.native = None, new.entry = Len(vm.frames),
         runs' = Append(runs, new), runs # << >> => InNative,
         vm.frames # << >> => /\ ~vm.failed
                              /\ new.saved0 = vm.registers[vm.frames[Len(vm.frames)].base],
         Firm(vm'), Len(vm'.frames) = Len(vm.frames) + 1,
         vm'.frames[Len(vm.frames) + 1].return = 0,
         \A i \in 1 .. Len(vm.frames) :
           /\ vm'.frames[i] = vm.frames[i]
           /\ vm'.registers[vm.frames[i].base] = vm.registers[vm.frames[i].base]
  PROVE  JInv'
<1> DEFINE d == Len(vm.frames)
           l == Len(runs)
<1>1. /\ runs \in Seq(Run) /\ l \in Nat /\ vm \in Machine /\ d \in Nat /\ new.entry = d
      /\ (vm.frames = << >> <=> d = 0) /\ (runs = << >> <=> l = 0)
      /\ DOMAIN vm.frames = 1 .. d
  <2>1. runs \in Seq(Run) /\ vm \in Machine /\ vm.frames \in Seq(Frame)
    BY FieldTypes DEF IInv, TypeOK, Sound
  <2> QED
    BY <2>1
<1>2. /\ runs' \in Seq(Run) /\ Len(runs') = l + 1 /\ runs' # << >> /\ Last(runs') = new
      /\ runs'[l + 1] = new /\ \A k \in 1 .. l : runs'[k] = runs[k]
  <2>1. runs' \in Seq(Run) /\ Len(runs') = l + 1 /\ runs'[l + 1] = new
        /\ \A k \in 1 .. l : runs'[k] = runs[k]
    BY <1>1
  <2> QED
    BY <1>1, <2>1 DEF Last
<1>3. ASSUME runs # << >> PROVE Last(runs).native # None /\ Last(runs) = runs[l] /\ runs[1].entry = 0
  BY <1>1, <1>3 DEF InNative, Top, Last, IInv, RunsKept
<1>4. ASSUME d # 0 PROVE runs # << >> /\ Resumable(vm, runs) /\ InCall(vm, runs)
  <2>1. vm.frames # << >> /\ ~vm.failed
    BY <1>1, <1>4
  <2>2. runs # << >>
    BY <2>1 DEF IInv, LeftoversFailed, FromHost
  <2> QED
    BY <2>1, <2>2 DEF JInv, Nested, Live
<1>5. ASSUME d # 0 PROVE /\ Last(runs).entry < d /\ Last(runs).native < TopFrame(vm).function.registers
  BY <1>3, <1>4, <1>5 DEF InCall
<1> HIDE DEF d, l
<1>6. RunsNest(runs')
  <2>1. ASSUME NEW k \in 1 .. l
        PROVE  runs'[k].native # None /\ (runs'[k + 1].entry = 0 \/ runs'[k + 1].entry > runs'[k].entry)
    <3>1. CASE k = l
      <4>1. runs # << >> /\ runs'[k] = runs[l] /\ runs'[k + 1] = new
        BY <1>1, <1>2, <3>1
      <4>2. runs[l].native # None /\ Last(runs) = runs[l]
        BY <1>3, <4>1
      <4>3. d = 0 \/ d > runs[l].entry
        <5>1. d = 0 \/ runs[l].entry < d
          BY <1>5, <4>2
        <5>2. runs[l].entry \in Nat
          BY <1>1, <4>1, <4>2, LastRun
        <5> QED
          BY <1>1, <5>1, <5>2
      <4> QED
        BY <1>1, <4>1, <4>2, <4>3
    <3>2. CASE k # l
      <4>1. k \in 1 .. l - 1 /\ k + 1 \in 1 .. l
        BY <1>1, <3>2
      <4>2. runs'[k] = runs[k] /\ runs'[k + 1] = runs[k + 1]
        BY <1>2, <4>1
      <4> QED
        BY <4>1, <4>2 DEF JInv, Nested, RunsNest, l
    <3> QED
      BY <3>1, <3>2
  <2> QED
    BY <1>1, <1>2, <2>1 DEF RunsNest
<1>7. InCall(vm', runs')
  BY <1>2 DEF InCall
<1>8. Resumable(vm', runs')
  <2>1. CASE d = 0
    <3>1. Current(Append(runs, new)) = {l + 1}
      BY <1>1, <2>1, RunStartsFresh DEF l
    <3>2. \A k \in Current(runs') : runs'[k].entry = 0
      BY <1>1, <1>2, <2>1, <3>1
    <3>3. ASSUME NEW k \in Current(runs') PROVE ~(runs'[k].entry > 0)
      <4>1. ~(0 > 0)
        BY SMTT(40)
      <4> QED
        BY <3>2, <4>1, Zenon
    <3> QED
      BY <3>3 DEF Resumable
  <2>2. CASE d # 0
    <3>1. /\ runs # << >> /\ Resumable(vm, runs) /\ Last(runs).entry < d
          /\ Last(runs).native < TopFrame(vm).function.registers
          /\ Last(runs) = runs[l] /\ runs[1].entry = 0
          /\ Last(runs).entry \in Nat
      BY <1>3, <1>4, <1>5, <2>2, LastRun, <1>1
    <3>2. Current(runs') = Current(runs) \cup {l + 1} /\ Current(runs) \subseteq 1 .. l
      <4>1. new.entry > Last(runs).entry
        BY <1>1, <3>1
      <4> QED
        BY <1>1, <3>1, <4>1, RunStarts, CurrentRuns DEF l
    <3>3. ASSUME NEW k \in Current(runs), runs'[k].entry > 0
          PROVE  /\ runs'[k].entry <= d + 1
                 /\ runs'[k - 1].native < vm'.frames[runs'[k].entry].function.registers
                 /\ runs'[k].saved0 = vm'.registers[vm'.frames[runs'[k].entry].base]
                 /\ vm'.frames[runs'[k].entry + 1].return = 0
      <4> DEFINE e == runs[k].entry
      <4>1. k \in 1 .. l /\ runs'[k] = runs[k] /\ e \in Nat /\ e <= Last(runs).entry /\ e > 0
        BY <1>1, <1>2, <3>1, <3>2, <3>3, CurrentRuns
      <4>2. k # 1
        BY <3>1, <4>1
      <4>3. k - 1 \in 1 .. l /\ runs'[k - 1] = runs[k - 1]
        BY <1>1, <1>2, <4>1, <4>2, SMTT(40)
      <4>4. /\ runs[k - 1].native < vm.frames[e].function.registers
            /\ e < d => /\ runs[k].saved0 = vm.registers[vm.frames[e].base]
                        /\ vm.frames[e + 1].return = 0
        BY <3>1, <4>1 DEF Resumable, d
      <4> HIDE DEF e
      <4>5. e < d /\ e \in 1 .. d /\ e + 1 \in 1 .. d /\ e <= d + 1
        BY <1>1, <3>1, <4>1
      <4>6. vm'.frames[e] = vm.frames[e] /\ vm'.frames[e + 1] = vm.frames[e + 1]
            /\ vm'.registers[vm.frames[e].base] = vm.registers[vm.frames[e].base]
        BY <4>5 DEF d
      <4> QED
        BY <4>1, <4>3, <4>4, <4>5, <4>6 DEF e
    <3>4. /\ runs'[l + 1].entry = d /\ d <= d + 1 /\ d \in 1 .. d
          /\ runs'[l + 1 - 1].native < vm'.frames[d].function.registers
          /\ runs'[l + 1].saved0 = vm'.registers[vm'.frames[d].base]
          /\ vm'.frames[d + 1].return = 0
      <4>1. d \in 1 .. d /\ d <= d + 1 /\ l \in 1 .. l /\ l + 1 - 1 = l /\ vm.frames # << >>
        BY <1>1, <2>2, <3>1
      <4>2. vm'.frames[d] = vm.frames[d] /\ vm'.registers[vm.frames[d].base] = vm.registers[vm.frames[d].base]
        BY <4>1 DEF d
      <4>3. TopFrame(vm) = vm.frames[d] /\ runs'[l] = runs[l] /\ vm'.frames[d + 1].return = 0
        BY <1>2, <4>1 DEF TopFrame, d
      <4>4. new.saved0 = vm.registers[vm.frames[d].base]
        BY <4>1 DEF d
      <4> QED
        BY <1>1, <1>2, <3>1, <4>1, <4>2, <4>3, <4>4
    <3>5. Len(vm'.frames) = d + 1
      BY SMTT(40) DEF d
    <3>6. ASSUME NEW k \in Current(runs'), runs'[k].entry > 0
          PROVE  /\ runs'[k].entry <= Len(vm'.frames)
                 /\ runs'[k - 1].native < vm'.frames[runs'[k].entry].function.registers
                 /\ runs'[k].entry < Len(vm'.frames) =>
                      /\ runs'[k].saved0 = vm'.registers[vm'.frames[runs'[k].entry].base]
                      /\ vm'.frames[runs'[k].entry + 1].return = 0
      <4>1. CASE k \in Current(runs)
        BY <3>3, <3>5, <3>6, <4>1
      <4>2. CASE k = l + 1
        <5>1. k - 1 = l + 1 - 1
          BY <1>1, <4>2
        <5>2. runs'[k].entry = d /\ runs'[k - 1] = runs'[l + 1 - 1] /\ runs'[k] = runs'[l + 1]
          BY <3>4, <4>2, <5>1, Zenon
        <5> QED
          BY <3>4, <3>5, <5>2
      <4> QED
        BY <3>2, <3>6, <4>1, <4>2
    <3> QED
      BY <3>6 DEF Resumable
  <2> QED
    BY <2>1, <2>2, SMTT(40)
<1> QED
  BY <1>6, <1>7, <1>8 DEF JInv, Nested

(* While the last run is in no native, those in progress depend on the runs *)
(* only, and its frames wait for none.                                      *)
LEMMA SameNatives ==
  ASSUME NEW R, Last(R).native = None, NEW m, NEW n, NEW i
  PROVE  NativeIn(n, R, i) = NativeIn(m, R, i)
BY DEF NativeIn

LEMMA NoNativeAbove ==
  ASSUME NEW R \in Seq(Run), R # << >>, Last(R).native = None, NEW m,
         NEW i \in Int, i > Last(R).entry
  PROVE  NativeIn(m, R, i) = None
<1>1. StartedOn(R, i) = {}
  BY AboveRuns
<1> QED
  BY <1>1 DEF NativeIn

(* The registers after a call from C++ *)
EntryValues(p, args) ==
  [i \in Register |-> IF i - p.currentBase \in 0 .. Len(args) - 1
                      THEN args[i - p.currentBase + 1] ELSE p.registers[i]]

LEMMA EntryPushes ==
  ASSUME IInv, JInv, NEW kind \in Kind, NEW limit \in Nat, NEW function \in Function,
         NEW closure \in closures \cup {<< >>}, NEW args \in Seq(Value),
         ~PushFrame(Prologue(vm, kind, limit), function, 0, closure).failed,
         Entered(kind, limit, function, closure, args)
  PROVE  LET m == Prologue(vm, kind, limit)
             p == PushFrame(m, function, 0, closure)
         IN  /\ Firm(m) /\ Cells(m) = Cells(vm) /\ m.made = vm.made /\ m.frames = vm.frames
             /\ vm.frames # << >> => Calm(vm, m) /\ ~vm.failed
             /\ PushedOn(m, vm', function, 0, closure, EntryValues(p, args)) /\ ~vm'.failed
             /\ runs' = Append(runs, NewRun(kind)) /\ closure \in Seq(Upvalue)
<1> DEFINE m == Prologue(vm, kind, limit)
           p == PushFrame(m, function, 0, closure)
           values == EntryValues(p, args)
<1>1. /\ Firm(m) /\ Cells(m) = Cells(vm) /\ m.made = vm.made /\ m.frames = vm.frames
      /\ vm.frames # << >> => Calm(vm, m) /\ m.failed = vm.failed
  BY PrologueShows DEF JInv
<1>2. closure \in Seq(Upvalue) /\ \A j \in DOMAIN closure : closure[j] <= vm.made
  BY ClosureTypes
<1>3. vm' = [p EXCEPT !.registers = values] /\ runs' = Append(runs, NewRun(kind)) /\ ~p.failed
  BY DEF Entered, EntryValues
<1> HIDE DEF m
<1>4. Sound(p) /\ p.registers = m.registers
  BY <1>1, <1>2, PushSound DEF Firm
<1>5. Fits(m, function)
  BY <1>1, <1>3, PushRefused DEF Firm
<1>6. p.currentBase = m.stackTop /\ m.stackTop \in Nat /\ (m.failed = p.failed)
  BY <1>1, <1>5, PushFits DEF Firm
<1> HIDE DEF p
<1>7. values \in [Register -> Value] /\ \A a \in Register : a < m.stackTop => values[a] = m.registers[a]
  <2>1. Len(args) \in Nat /\ \A j \in 1 .. Len(args) : args[j] \in Value
    OBVIOUS
  <2>2. p.registers \in [Register -> Value] /\ Register \subseteq Int
    BY <1>4, FieldTypes, VMAssumption DEF Sound, Register
  <2>3. ASSUME NEW i \in Register
        PROVE  values[i] \in Value /\ (i < m.stackTop => values[i] = m.registers[i])
    <3>1. values[i] = IF i - p.currentBase \in 0 .. Len(args) - 1
                      THEN args[i - p.currentBase + 1] ELSE p.registers[i]
      BY DEF EntryValues
    <3>2. i - p.currentBase \in 0 .. Len(args) - 1 =>
            i - p.currentBase + 1 \in 1 .. Len(args) /\ ~(i < m.stackTop)
      BY <1>6, <2>1, <2>2
    <3> HIDE DEF values
    <3> QED
      BY <1>4, <2>1, <2>2, <3>1, <3>2
  <2>4. values = [i \in Register |-> values[i]]
    BY DEF EntryValues
  <2> HIDE DEF values
  <2> QED
    BY <2>3, <2>4
<1> HIDE DEF values
<1>8. Pushed(m, vm', function, 0, closure, values)
  BY <1>3 DEF Pushed, p
<1>9. PushedOn(m, vm', function, 0, closure, values)
  <2>1. m.frames # << >> => 0 < TopFrame(m).function.registers
    BY <1>1, TopFrameIs DEF Firm
  <2> QED
    BY <1>1, <1>2, <1>5, <1>7, <1>8, <2>1, PushShows
<1>10. vm'.failed = m.failed
  BY <1>9 DEF PushedOn
<1> QED
  BY <1>1, <1>2, <1>3, <1>6, <1>9, <1>10 DEF m, p, values

LEMMA EnteredStep ==
  ASSUME IInv, JInv, NEW kind \in Kind, NEW limit \in Nat, NEW function \in Function,
         NEW closure \in closures \cup {<< >>}, NEW args \in Seq(Value), MayEnter,
         Entered(kind, limit, function, closure, args), UNCHANGED closures
  PROVE  JInv' /\ Stack!Next
<1> DEFINE m == Prologue(vm, kind, limit)
           p == PushFrame(m, function, 0, closure)
           new == NewRun(kind)
           d == Len(vm.frames)
           f == NewFrame(m, function, 0, closure)
           values == EntryValues(p, args)
<1>1. CASE p.failed
  BY <1>1, EnteredFails
<1>2. CASE ~p.failed
  <2>1. /\ Firm(m) /\ Cells(m) = Cells(vm) /\ m.made = vm.made /\ m.frames = vm.frames
        /\ vm.frames # << >> => Calm(vm, m) /\ ~vm.failed
        /\ PushedOn(m, vm', function, 0, closure, values) /\ ~vm'.failed
        /\ runs' = Append(runs, new) /\ closure \in Seq(Upvalue)
    BY <1>2, EntryPushes
  <2> HIDE DEF m, p, f, values
  <2>2. /\ Firm(vm') /\ vm'.made = vm.made /\ Cells(vm') = Cells(vm)
        /\ d \in Nat /\ Len(vm'.frames) = d + 1 /\ vm'.frames # << >> /\ vm'.frames[d + 1] = f
        /\ Variables(vm', f) \in [0 .. function.registers - 1 -> Value]
        /\ \A i \in 1 .. d : /\ vm'.frames[i] = vm.frames[i]
                             /\ Variables(vm', vm.frames[i]) = Variables(m, vm.frames[i])
    BY <2>1 DEF PushedOn, f
  <2>3. f.function = function /\ f.closure = closure /\ f.return = 0
    BY DEF f, NewFrame
  <2>4. /\ vm \in Machine /\ vm' \in Machine /\ Firm(vm) /\ Sound(vm)
        /\ DOMAIN vm.frames = 1 .. d /\ (vm.frames = << >> <=> d = 0)
    <3>1. vm \in Machine /\ vm' \in Machine /\ Firm(vm) /\ Sound(vm)
      BY <2>2 DEF JInv, Firm, Sound
    <3>2. vm.frames \in Seq(Frame)
      BY <3>1, FieldTypes
    <3> QED
      BY <3>1, <3>2
  <2>5. \A i \in 1 .. d : /\ Variables(m, vm.frames[i]) = Variables(vm, vm.frames[i])
                          /\ m.registers = vm.registers
    BY <2>1, <2>4, CalmKeeps
  <2>6. /\ new \in Run /\ new.entry = d /\ new.native = None
        /\ vm.frames # << >> => new.saved0 = vm.registers[vm.frames[d].base]
    <3>1. new \in Run /\ new.entry = d
      BY NewRunType DEF Depth
    <3>2. vm.frames # << >> => Reg(vm, 0) = vm.registers[vm.frames[d].base]
      BY <2>4, TopFrameIs DEF Reg
    <3> QED
      BY <3>1, <3>2 DEF NewRun
  <2> HIDE DEF new
  <2>7. /\ runs \in Seq(Run) /\ runs' \in Seq(Run) /\ runs' # << >> /\ Last(runs') = new
        /\ (runs # << >> => InNative /\ Last(runs).native # None /\ runs[1].entry = 0)
        /\ (vm.frames # << >> => runs # << >> /\ Last(runs).entry < d)
    <3>1. runs \in Seq(Run) /\ (runs # << >> => runs[1].entry = 0)
      BY DEF IInv, TypeOK, RunsKept
    <3>2. runs' \in Seq(Run) /\ Len(runs') = Len(runs) + 1 /\ runs'[Len(runs) + 1] = new
      BY <2>1, <2>6, <3>1
    <3>3. runs' # << >> /\ Last(runs') = new
      BY <3>1, <3>2 DEF Last
    <3>4. runs # << >> => InNative /\ Last(runs).native # None
      BY DEF MayEnter, FromHost, InNative, Top, Last
    <3>5. vm.frames # << >> => runs # << >> /\ Last(runs).entry < d
      <4>1. vm.frames # << >> => runs # << >>
        BY <2>1 DEF IInv, LeftoversFailed, FromHost
      <4>2. vm.frames # << >> => InCall(vm, runs)
        BY <2>1 DEF JInv, Nested, Live
      <4> QED
        BY <3>4, <4>1, <4>2 DEF InCall
    <3> QED
      BY <3>1, <3>2, <3>3, <3>4, <3>5
  <2>8. JInv'
    <3>1. ASSUME NEW i \in 1 .. d
          PROVE  vm'.registers[vm.frames[i].base] = vm.registers[vm.frames[i].base]
      <4>1. /\ 0 \in 0 .. vm.frames[i].function.registers - 1 /\ vm.frames[i].base \in Nat
        BY <2>4, FrameTypes, SMTT(40)
      <4>2. vm'.registers[vm.frames[i].base + 0] = m.registers[vm.frames[i].base + 0]
        BY <2>1, <4>1 DEF PushedOn
      <4> QED
        BY <2>5, <4>1, <4>2, SMTT(40)
    <3>2. vm'.frames[d + 1].return = 0
      BY <2>2, <2>3
    <3> QED
      BY <2>1, <2>2, <2>6, <2>7, <3>1, <3>2, EnteredNests
  <2> DEFINE a == Activation(vm', runs', d + 1)
  <2>9. /\ a.function = function /\ a.closure = closure /\ a.return = None /\ a.native = None
        /\ a.locals = Variables(vm', f)
    <3>1. Shown(vm', runs') = vm'
      BY <2>2, <2>6, <2>7 DEF Shown, Depth
    <3>2. d + 1 \in EntryFrames(runs')
      BY <2>2, <2>6, <2>7, AboveRuns
    <3>3. NativeIn(vm', runs', d + 1) = None
      BY <2>2, <2>6, <2>7, NoNativeAbove, SMTT(40)
    <3> QED
      BY <2>2, <2>3, <3>1, <3>2, <3>3 DEF Activation
  <2>10. ASSUME NEW i \in 1 .. d PROVE Activation(vm', runs', i) = Activation(vm, runs, i)
    <3>1. /\ runs # << >> /\ Last(runs).entry < d /\ Last(runs).native # None /\ runs[1].entry = 0
          /\ new.entry > Last(runs).entry
      <4>1. vm.frames # << >>
        BY <2>2, <2>4
      <4>2. runs # << >> /\ Last(runs).entry < d /\ Last(runs).entry \in Nat
        BY <2>7, <4>1, LastRun
      <4> QED
        BY <2>2, <2>6, <2>7, <4>2
    <3>2. Shown(vm', runs') = vm' /\ Shown(vm, runs) = vm
      BY <2>2, <2>6, <2>7, <3>1 DEF Shown, Depth
    <3>3. /\ NativeIn(vm', runs', i) = NativeIn(vm, runs, i)
          /\ i \in EntryFrames(runs') <=> i \in EntryFrames(runs)
      <4>1. StartsOn(runs, new) /\ Depth(vm) = new.entry /\ i \in 1 .. new.entry
        BY <2>6, <2>7, <3>1 DEF StartsOn, Depth
      <4>2. runs' = Append(runs, new)
        BY <2>1, <2>6, <2>7
      <4> HIDE DEF new
      <4>3. /\ NativeIn(vm', Append(runs, new), i) = NativeIn(vm, runs, i)
            /\ i \in EntryFrames(Append(runs, new)) <=> i \in EntryFrames(runs)
        BY <4>1, RunStartsShows
      <4> QED
        BY <4>2, <4>3
    <3> QED
      BY <2>2, <2>5, <3>2, <3>3 DEF Activation
  <2> HIDE DEF a, d
  <2>11. Stack!Push /\ Stack!New = a
    <3>1. vm.failed => vm.frames = << >>
      BY <2>1
    <3>2. a = Activation(vm', runs', Len(vm.frames) + 1)
      BY DEF a, d
    <3>3. Len(vm'.frames) = Len(vm.frames) + 1 /\ \A i \in 1 .. Len(vm.frames) : Activation(vm', runs', i) = Activation(vm, runs, i)
      BY <2>2, <2>10 DEF d
    <3>4. /\ a.function \in Function /\ a.closure \in closures \cup {<< >>}
          /\ a.locals \in [0 .. a.function.registers - 1 -> Value]
      BY <2>2, <2>9
    <3> QED
      BY <2>1, <2>2, <2>4, <2>9, <3>1, <3>2, <3>3, <3>4, PushStep
  <2>12. ~Stack!InScript
    <3>1. CASE vm.frames = << >>
      BY <3>1, NoStack DEF Stack!InScript
    <3>2. CASE vm.frames # << >>
      <4>1. /\ Len(Activations(vm, runs)) = d /\ d \in 1 .. d
            /\ \A i \in 1 .. d : Activations(vm, runs)[i] = Activation(vm, runs, i)
        <5>1. ~vm.failed /\ vm \in Machine /\ d \in 1 .. d
          BY <2>1, <2>2, <2>4, <3>2
        <5>2. /\ Len(Activations(vm, runs)) = Len(vm.frames)
              /\ \A i \in 1 .. Len(vm.frames) : Activations(vm, runs)[i] = Activation(vm, runs, i)
          BY <5>1, StackIs
        <5> QED
          BY <5>1, <5>2 DEF d
      <4>2. NativeIn(vm, runs, d) # None
        BY <2>7, <3>2 DEF NativeIn, Depth, d
      <4>3. Activations(vm, runs)[Len(Activations(vm, runs))].native # None
        BY <4>1, <4>2 DEF Activation
      <4> QED
        BY <4>3 DEF Stack!InScript, Stack!Running
    <3> QED
      BY <3>1, <3>2
  <2>13. Stack!Enter
    BY <2>9, <2>11, <2>12 DEF Stack!Enter
  <2> QED
    BY <2>8, <2>13 DEF Stack!Next
<1> QED
  BY <1>1, <1>2

LEMMA EnterStep ==
  ASSUME IInv, JInv, Enter
  PROVE  JInv' /\ Stack!Next
<1>1. \A f \in Function : \A args \in Args(f) : args \in Seq(Value)
  BY VMAssumption, SeqDef DEF Args
<1>2. GasLimit \subseteq Nat /\ InitGas \in Nat /\ << >> \in closures \cup {<< >>} /\ << >> \in Seq(Value)
  BY VMAssumption
<1>3. CASE ExecuteCompiled
  <2>1. "compiled" \in Kind /\ UNCHANGED closures /\ MayEnter
    BY <1>3 DEF ExecuteCompiled
  <2>2. PICK limit \in GasLimit :
          \/ Refused("compiled", limit)
          \/ \E f \in Function : \E args \in Args(f) : Entered("compiled", limit, f, << >>, args)
    BY <1>3 DEF ExecuteCompiled
  <2>3. CASE Refused("compiled", limit)
    BY <1>2, <2>1, <2>3, RefusedStep
  <2>4. CASE \E f \in Function : \E args \in Args(f) : Entered("compiled", limit, f, << >>, args)
    BY <1>1, <1>2, <2>1, <2>4, EnteredStep
  <2> QED
    BY <2>2, <2>3, <2>4
<1>4. CASE ExecuteDirect
  <2>1. "direct" \in Kind /\ UNCHANGED closures /\ MayEnter
    BY <1>4 DEF ExecuteDirect
  <2>2. CASE Refused("direct", InitGas)
    BY <1>2, <2>1, <2>2, RefusedStep
  <2>3. CASE \E f \in Function, c \in closures \cup {<< >>} : \E args \in Args(f) :
               Entered("direct", InitGas, f, c, args)
    BY <1>1, <1>2, <2>1, <2>3, EnteredStep
  <2> QED
    BY <1>4, <2>2, <2>3 DEF ExecuteDirect
<1>5. CASE LoadModule
  <2>1. "init" \in Kind /\ UNCHANGED closures /\ MayEnter
    BY <1>5 DEF LoadModule
  <2>2. PICK f \in Function : Entered("init", InitGas, f, << >>, << >>)
    BY <1>5 DEF LoadModule
  <2> QED
    BY <1>2, <2>1, <2>2, EnteredStep
<1> QED
  BY <1>3, <1>4, <1>5 DEF Enter

LEMMA ResetStep ==
  ASSUME IInv, JInv, ResetError
  PROVE  JInv' /\ Stack!Next
<1>1. vm' = Reset(vm) /\ UNCHANGED <<runs, closures>> /\ Sound(vm)
  BY DEF ResetError, IInv
<1>2. Firm(vm') /\ Cells(vm') = Cells(vm) /\ vm'.frames = << >> /\ vm'.made = vm.made
  BY <1>1, ResetShows, ResetSound
<1> QED
  BY <1>1, <1>2, Aborts DEF JInv, Nested

-----------------------------------------------------------------------------
(* Instructions                                                              *)

LEMMA ExecutingIs ==
  ASSUME IInv, JInv, Executing
  PROVE  LET d == Len(vm.frames)
         IN  /\ runs \in Seq(Run) /\ runs # << >> /\ Top = Last(runs) /\ Last(runs).native = None
             /\ Last(runs).entry \in Nat /\ Last(runs).entry < d
             /\ ~vm.failed /\ Firm(vm) /\ Sound(vm) /\ vm \in Machine /\ vm.frames # << >>
             /\ d \in Nat \ {0} /\ DOMAIN vm.frames = 1 .. d /\ d \in 1 .. d
             /\ TopFrame(vm) = vm.frames[d] /\ vm.currentBase = vm.frames[d].base
             /\ Locals = 0 .. vm.frames[d].function.registers - 1
             /\ Resumable(vm, runs) /\ RunsNest(runs) /\ runs[1].entry = 0
             /\ Shown(vm, runs) = vm
<1> DEFINE d == Len(vm.frames)
<1>1. runs # << >> /\ ~InNative /\ ~vm.failed /\ ~(Depth(vm) <= Top.entry)
  BY DEF Executing, RunOver
<1>2. runs \in Seq(Run) /\ Sound(vm) /\ Firm(vm) /\ vm \in Machine /\ runs[1].entry = 0
  BY <1>1 DEF IInv, TypeOK, JInv, Sound, RunsKept
<1>3. Top = Last(runs) /\ Last(runs).native = None
  BY <1>1 DEF InNative, Top, Last
<1>4. Last(runs).entry \in Nat
  BY <1>1, <1>2, LastRun
<1>5. vm.frames # << >> /\ d \in Nat
  BY ExecutingHasFrame, <1>2, FieldTypes
<1>6. /\ d \in Nat \ {0} /\ DOMAIN vm.frames = 1 .. d /\ d \in 1 .. d
      /\ TopFrame(vm) = vm.frames[d] /\ vm.currentBase = vm.frames[d].base
  BY <1>2, <1>5, TopFrameIs
<1>7. Last(runs).entry < d
  BY <1>1, <1>3, <1>4, <1>5 DEF Depth
<1>8. Resumable(vm, runs) /\ RunsNest(runs)
  BY <1>1, <1>5 DEF JInv, Nested, Live
<1>9. Shown(vm, runs) = vm
  BY <1>4, <1>5, <1>7 DEF Shown, Depth
<1>10. Locals = 0 .. vm.frames[d].function.registers - 1
  BY <1>6 DEF Locals
<1> QED
  BY <1>1, <1>2, <1>3, <1>4, <1>5, <1>6, <1>7, <1>8, <1>9, <1>10

LEMMA ExecutingStack ==
  ASSUME IInv, JInv, Executing
  PROVE  LET d == Len(vm.frames)
             t == Activations(vm, runs)
         IN  /\ t \in Seq(Seen(vm, runs)) /\ Len(t) = d /\ t # << >>
             /\ \A i \in 1 .. d : t[i] = Activation(vm, runs, i)
             /\ t[d].native = None /\ t[d].locals = Variables(vm, vm.frames[d])
             /\ t[d].closure = vm.frames[d].closure
             /\ DOMAIN t[d].locals = Locals
             /\ Stack!Running = t[d] /\ Stack!InScript
<1> DEFINE d == Len(vm.frames)
           t == Activations(vm, runs)
<1>1. /\ runs \in Seq(Run) /\ runs # << >> /\ Last(runs).native = None
      /\ Last(runs).entry < d /\ ~vm.failed /\ vm \in Machine /\ vm.frames # << >>
      /\ d \in 1 .. d /\ Locals = 0 .. vm.frames[d].function.registers - 1 /\ d \in Int
      /\ Shown(vm, runs) = vm /\ Last(runs).entry \in Nat
  BY ExecutingIs
<1>2. /\ t \in Seq(Seen(vm, runs)) /\ Len(t) = d /\ t # << >>
      /\ \A i \in 1 .. d : t[i] = Activation(vm, runs, i)
  BY <1>1, StackIs
<1> HIDE DEF t
<1>3. NativeIn(vm, runs, d) = None
  BY <1>1, NoNativeAbove
<1> HIDE DEF d
<1>4. t[d] = Activation(vm, runs, d)
  BY <1>1, <1>2
<1>5. /\ t[d].native = None /\ t[d].locals = Variables(vm, vm.frames[d])
      /\ t[d].closure = vm.frames[d].closure
  BY <1>1, <1>3, <1>4 DEF Activation
<1>6. DOMAIN t[d].locals = Locals
  BY <1>1, <1>5 DEF Variables
<1>7. Stack!Running = t[d]
  BY <1>2 DEF Stack!Running, t
<1>8. Stack!InScript
  BY <1>2, <1>5, <1>7 DEF Stack!InScript, t
<1> QED
  BY <1>2, <1>5, <1>6, <1>7, <1>8 DEF t, d

(* A step inside a run leaves what the runs will need. *)
LEMMA InsideNests ==
  ASSUME IInv, JInv, Executing, UNCHANGED runs, Firm(vm'), Last(runs).entry <= Len(vm'.frames),
         \A i \in 1 .. Last(runs).entry + 1 : i <= Len(vm'.frames) =>
           /\ vm'.frames[i].base = vm.frames[i].base /\ vm'.frames[i].return = vm.frames[i].return
           /\ vm'.frames[i].function = vm.frames[i].function,
         \A i \in 1 .. Last(runs).entry : i < Len(vm'.frames) =>
           vm'.registers[vm.frames[i].base] = vm.registers[vm.frames[i].base]
  PROVE  JInv'
<1> DEFINE d == Len(vm.frames)
           n == Len(vm'.frames)
           top == Last(runs).entry
<1>1. /\ runs \in Seq(Run) /\ runs # << >> /\ Last(runs).native = None /\ top \in Nat /\ top < d
      /\ Resumable(vm, runs) /\ RunsNest(runs) /\ d \in Nat /\ n \in Nat
  <2>1. n \in Nat
    BY FieldTypes, SMTT(40) DEF Firm, Sound
  <2> QED
    BY <2>1, ExecutingIs
<1>2. ASSUME NEW k \in Current(runs), runs[k].entry > 0
      PROVE  /\ runs[k].entry <= n
             /\ runs[k - 1].native < vm'.frames[runs[k].entry].function.registers
             /\ runs[k].entry < n =>
                  /\ runs[k].saved0 = vm'.registers[vm'.frames[runs[k].entry].base]
                  /\ vm'.frames[runs[k].entry + 1].return = 0
  <2> DEFINE e == runs[k].entry
  <2>1. e \in Nat /\ e <= top /\ e > 0
    BY <1>1, <1>2, CurrentRuns, SMTT(40)
  <2>2. /\ runs[k - 1].native < vm.frames[e].function.registers
        /\ e < d => /\ runs[k].saved0 = vm.registers[vm.frames[e].base]
                    /\ vm.frames[e + 1].return = 0
    BY <1>1, <2>1 DEF Resumable
  <2> HIDE DEF e
  <2>3. e \in 1 .. top + 1 /\ e \in 1 .. top /\ e <= n /\ e < d
    BY <1>1, <2>1
  <2>4. vm'.frames[e].base = vm.frames[e].base /\ vm'.frames[e].function = vm.frames[e].function
    BY <2>3
  <2>5. ASSUME e < n
        PROVE  /\ vm'.frames[e + 1].return = vm.frames[e + 1].return
               /\ vm'.registers[vm.frames[e].base] = vm.registers[vm.frames[e].base]
    <3>1. e + 1 \in 1 .. top + 1 /\ e + 1 <= n
      BY <1>1, <2>1, <2>5
    <3> QED
      BY <2>3, <2>5, <3>1
  <2>6. /\ e <= n /\ runs[k - 1].native < vm'.frames[e].function.registers
        /\ e < n => /\ runs[k].saved0 = vm'.registers[vm'.frames[e].base]
                    /\ vm'.frames[e + 1].return = 0
    BY <2>2, <2>3, <2>4, <2>5, SMTT(40)
  <2> QED
    BY <2>6 DEF e
<1>3. Resumable(vm', runs')
  BY <1>2 DEF Resumable
<1>4. InCall(vm', runs')
  BY <1>1 DEF InCall
<1> QED
  BY <1>1, <1>3, <1>4 DEF JInv, Nested

(* A step that leaves the frames where they are *)
LEMMA SameFrames ==
  ASSUME IInv, JInv, Executing, UNCHANGED runs, Firm(vm'), ~vm'.failed,
         Len(vm'.frames) = Len(vm.frames),
         \A i \in 1 .. Len(vm.frames) :
           /\ vm'.frames[i].base = vm.frames[i].base /\ vm'.frames[i].return = vm.frames[i].return
           /\ vm'.frames[i].function = vm.frames[i].function
           /\ vm'.frames[i].closure = vm.frames[i].closure,
         \A i \in 1 .. Len(vm.frames) - 1 :
           /\ vm'.registers[vm.frames[i].base] = vm.registers[vm.frames[i].base]
           /\ Variables(vm', vm'.frames[i]) = Variables(vm, vm.frames[i])
  PROVE  LET d == Len(vm.frames)
             t == Activations(vm, runs)
         IN  /\ JInv'
             /\ Variables(vm', vm'.frames[d]) = Variables(vm, vm.frames[d]) => Activations(vm', runs') = t
             /\ \A r, x : Variables(vm', vm'.frames[d]) = [Variables(vm, vm.frames[d]) EXCEPT ![r] = x]
                            => Activations(vm', runs') = [t EXCEPT ![Len(t)].locals[r] = x]
<1> DEFINE d == Len(vm.frames)
           t == Activations(vm, runs)
           w == Activations(vm', runs')
           T == Seen(vm', runs')
<1>1. /\ runs \in Seq(Run) /\ runs # << >> /\ Last(runs).native = None /\ Last(runs).entry \in Nat
      /\ Last(runs).entry < d /\ d \in Nat \ {0} /\ ~vm.failed /\ d \in 1 .. d
      /\ Shown(vm, runs) = vm
  BY ExecutingIs
<1>2. JInv'
  <2>1. /\ Last(runs).entry <= Len(vm'.frames)
        /\ \A i \in 1 .. Last(runs).entry + 1 : i \in 1 .. d
        /\ \A i \in 1 .. Last(runs).entry : i \in 1 .. d - 1
    BY <1>1
  <2>2. /\ \A i \in 1 .. Last(runs).entry + 1 : i <= Len(vm'.frames) =>
             /\ vm'.frames[i].base = vm.frames[i].base /\ vm'.frames[i].return = vm.frames[i].return
             /\ vm'.frames[i].function = vm.frames[i].function
        /\ \A i \in 1 .. Last(runs).entry : i < Len(vm'.frames) =>
             vm'.registers[vm.frames[i].base] = vm.registers[vm.frames[i].base]
    BY <2>1
  <2> QED
    BY <2>1, <2>2, InsideNests
<1>3. Shown(vm', runs') = vm'
  BY <1>1 DEF Shown, Depth
<1>4. \A i : NativeIn(vm', runs', i) = NativeIn(vm, runs, i)
  BY <1>1, SameNatives
<1>5. ASSUME NEW i \in 1 .. d
      PROVE  Activation(vm', runs', i)
               = [Activation(vm, runs, i) EXCEPT !.locals = Variables(vm', vm'.frames[i])]
  <2> DEFINE now == Variables(vm', vm'.frames[i])
  <2>1. /\ vm'.frames[i].return = vm.frames[i].return /\ vm'.frames[i].function = vm.frames[i].function
        /\ vm'.frames[i].closure = vm.frames[i].closure
    OBVIOUS
  <2>2. Activation(vm', runs', i)
          = [function |-> vm.frames[i].function, closure |-> vm.frames[i].closure,
             return |-> IF i \in EntryFrames(runs) THEN None ELSE vm.frames[i].return,
             native |-> NativeIn(vm, runs, i), locals |-> now]
    BY <1>3, <1>4, <2>1 DEF Activation
  <2> HIDE DEF now
  <2> QED
    BY <2>2 DEF Activation, now
<1>6. ASSUME NEW i \in 1 .. d, Variables(vm', vm'.frames[i]) = Variables(vm, vm.frames[i])
      PROVE  Activation(vm', runs', i) = Activation(vm, runs, i)
  BY <1>1, <1>3, <1>4, <1>6 DEF Activation
<1>7. /\ t \in Seq(Seen(vm, runs)) /\ Len(t) = d /\ t # << >>
      /\ \A i \in 1 .. d : t[i] = Activation(vm, runs, i)
      /\ t[d].locals = Variables(vm, vm.frames[d])
  BY ExecutingStack
<1>8. w \in Seq(T) /\ Len(w) = d /\ \A i \in 1 .. d : w[i] = Activation(vm', runs', i)
  <2>1. vm' \in Machine /\ Len(vm'.frames) = d
    BY DEF Firm, Sound
  <2> HIDE DEF d
  <2>2. /\ w \in Seq(T) /\ Len(w) = Len(vm'.frames)
        /\ \A i \in 1 .. Len(vm'.frames) : w[i] = Activation(vm', runs', i)
    BY <2>1, StackIs
  <2> QED
    BY <2>1, <2>2
<1>9. ASSUME Variables(vm', vm'.frames[d]) = Variables(vm, vm.frames[d]) PROVE w = t
  <2>1. \A i \in 1 .. d : i \in 1 .. d - 1 \/ i = d
    BY <1>1
  <2>2. ASSUME NEW i \in 1 .. d PROVE Activation(vm', runs', i) = Activation(vm, runs, i)
    BY <1>6, <1>9, <2>1
  <2> QED
    BY <1>1, <2>2 DEF Activations, Depth
<1> HIDE DEF t, w, T, d
<1>10. ASSUME NEW r, NEW x, Variables(vm', vm'.frames[d]) = [Variables(vm, vm.frames[d]) EXCEPT ![r] = x]
       PROVE  w = [t EXCEPT ![Len(t)].locals[r] = x]
  <2>1. \A i \in 1 .. d - 1 : w[i] = t[i]
    <3>1. ASSUME NEW i \in 1 .. d - 1 PROVE Activation(vm', runs', i) = Activation(vm, runs, i) /\ i \in 1 .. d
      BY <1>1, <1>6 DEF d
    <3> QED
      BY <1>7, <1>8, <3>1
  <2>2. w[d] = [t[d] EXCEPT !.locals = Variables(vm', vm'.frames[d])]
    BY <1>1, <1>5, <1>7, <1>8
  <2>3. w = [t EXCEPT ![Len(t)] = w[Len(t)]]
    <3>1. \A i \in 1 .. Len(t) - 1 : w[i] = t[i]
      BY <1>7, <2>1
    <3> QED
      BY <1>7, <1>8, <3>1, StackChanges
  <2>4. w[d] = [t[d] EXCEPT !.locals = [t[d].locals EXCEPT ![r] = x]]
    BY <1>7, <1>10, <2>2
  <2>5. w = [t EXCEPT ![d] = [t[d] EXCEPT !.locals = [t[d].locals EXCEPT ![r] = x]]]
    BY <1>7, <2>3, <2>4
  <2>6. [t EXCEPT ![d].locals[r] = x] = [t EXCEPT ![d] = [t[d] EXCEPT !.locals = [t[d].locals EXCEPT ![r] = x]]]
    OBVIOUS
  <2> QED
    BY <1>7, <2>5, <2>6
<1> QED
  BY <1>2, <1>9, <1>10 DEF t, w, d

WrittenOn(m, n, i, r, v) ==
  LET x == Variables(m, m.frames[i])[r]
  IN  /\ Firm(n) /\ Alike(m, n) /\ n.failed = m.failed
      /\ \A j \in DOMAIN m.frames : \A s \in 0 .. m.frames[j].function.registers - 1 :
           j # i \/ s # r =>
             n.registers[m.frames[j].base + s] = m.registers[m.frames[j].base + s]
      /\ \A j \in DOMAIN m.frames : j # i => Variables(n, m.frames[j]) = Variables(m, m.frames[j])
      /\ x \in Upvalue =>
           /\ Variables(n, m.frames[i]) = Variables(m, m.frames[i])
           /\ Cells(n) = [Cells(m) EXCEPT ![x] = v]
      /\ x \notin Upvalue =>
           /\ Variables(n, m.frames[i]) = [Variables(m, m.frames[i]) EXCEPT ![r] = v]
           /\ Cells(n) = Cells(m)

LEMMA Writes ==
  ASSUME CapturesApart, NEW m, Firm(m), NEW i \in DOMAIN m.frames,
         NEW r \in 0 .. m.frames[i].function.registers - 1, NEW v \in Value,
         NEW n, Written(m, n, i, r, v)
  PROVE  WrittenOn(m, n, i, r, v)
<1> DEFINE a == m.frames[i].base + r
           values == [m.registers EXCEPT ![a] = v]
           x == Variables(m, m.frames[i])[r]
<1>1. Sound(m) /\ a \in Register /\ m.registers \in [Register -> Value]
  BY FrameRegister, FieldTypes DEF Firm, Sound
<1>2. n = [m EXCEPT !.registers = values]
  BY DEF Written
<1>3. /\ \A j \in DOMAIN m.frames : j # i => Variables(n, m.frames[j]) = Variables(m, m.frames[j])
      /\ x \in Upvalue =>
           /\ Variables(n, m.frames[i]) = Variables(m, m.frames[i])
           /\ Cells(n) = [Cells(m) EXCEPT ![x] = v]
      /\ x \notin Upvalue =>
           /\ Variables(n, m.frames[i]) = [Variables(m, m.frames[i]) EXCEPT ![r] = v]
           /\ Cells(n) = Cells(m)
  BY <1>1, WriteShows
<1>4. \A j \in DOMAIN m.frames : \A s \in 0 .. m.frames[j].function.registers - 1 :
        j # i \/ s # r => m.frames[j].base + s # a
  BY <1>1, RegistersApart
<1> HIDE DEF a, x
<1>5. values \in [Register -> Value] /\ \A b : b # a => values[b] = m.registers[b]
  BY <1>1
<1> HIDE DEF values
<1>6. Sound(n) /\ Alike(m, n) /\ n.failed = m.failed
  BY <1>1, <1>2, <1>5, RegistersSound
<1>7. n.registers = values
  BY <1>1, <1>2 DEF Sound, Machine
<1>8. Firm(n)
  BY <1>6 DEF Firm, ReturnsFit, BasesPlain, Alike
<1>9. \A j \in DOMAIN m.frames : \A s \in 0 .. m.frames[j].function.registers - 1 :
        j # i \/ s # r => n.registers[m.frames[j].base + s] = m.registers[m.frames[j].base + s]
  BY <1>4, <1>5, <1>7
<1> QED
  BY <1>3, <1>6, <1>8, <1>9 DEF WrittenOn, x

(* The bases of the frames have registers of their own. *)
LEMMA BasesKept ==
  ASSUME NEW m, Firm(m), NEW n, NEW i \in DOMAIN m.frames, NEW r, NEW v, WrittenOn(m, n, i, r, v),
         NEW j \in DOMAIN m.frames, j # i \/ r # 0
  PROVE  n.registers[m.frames[j].base] = m.registers[m.frames[j].base]
<1>1. /\ m.frames[j].base \in Nat /\ 0 \in 0 .. m.frames[j].function.registers - 1
      /\ m.frames[j].base + 0 = m.frames[j].base
  BY FrameTypes DEF Firm, Sound
<1>2. n.registers[m.frames[j].base + 0] = m.registers[m.frames[j].base + 0]
  BY <1>1 DEF WrittenOn
<1> QED
  BY <1>1, <1>2

(* An instruction that puts v into register r of the frame that runs *)
LEMMA PutStep ==
  ASSUME CapturesApart, IInv, JInv, Executing, NEW r \in Locals, NEW v \in Value,
         vm' = SetReg(vm, r, v), UNCHANGED <<runs, closures>>
  PROVE  JInv' /\ Stack!Put(Activations(vm, runs), r, v) /\ vm'.made = vm.made
<1> DEFINE d == Len(vm.frames)
           t == Activations(vm, runs)
           x == Variables(vm, vm.frames[d])[r]
<1>1. /\ Firm(vm) /\ DOMAIN vm.frames = 1 .. d /\ d \in 1 .. d /\ ~vm.failed /\ d \in Nat
      /\ vm.currentBase = vm.frames[d].base /\ Locals = 0 .. vm.frames[d].function.registers - 1
  BY ExecutingIs
<1>2. Len(t) = d /\ t[d].locals = Variables(vm, vm.frames[d])
  BY ExecutingStack
<1>3. Written(vm, vm', d, r, v)
  BY <1>1 DEF SetReg, Written
<1>4. WrittenOn(vm, vm', d, r, v)
  BY <1>1, <1>3, Writes
<1>5. Firm(vm') /\ ~vm'.failed /\ vm'.frames = vm.frames /\ vm'.made = vm.made
  BY <1>1, <1>4 DEF WrittenOn, Alike
<1>6. ASSUME NEW i \in 1 .. d - 1
      PROVE  /\ vm'.registers[vm.frames[i].base] = vm.registers[vm.frames[i].base]
             /\ Variables(vm', vm'.frames[i]) = Variables(vm, vm.frames[i])
  <2>1. i \in DOMAIN vm.frames /\ i # d /\ d \in DOMAIN vm.frames
    BY <1>1
  <2>2. Variables(vm', vm.frames[i]) = Variables(vm, vm.frames[i])
    BY <1>4, <2>1 DEF WrittenOn
  <2> HIDE DEF d
  <2>3. vm'.registers[vm.frames[i].base] = vm.registers[vm.frames[i].base]
    BY <1>1, <1>4, <2>1, BasesKept
  <2> QED
    BY <1>5, <2>2, <2>3
<1>7. /\ JInv'
      /\ Variables(vm', vm.frames[d]) = Variables(vm, vm.frames[d]) => Activations(vm', runs') = t
      /\ Variables(vm', vm.frames[d]) = [Variables(vm, vm.frames[d]) EXCEPT ![r] = v]
           => Activations(vm', runs') = [t EXCEPT ![Len(t)].locals[r] = v]
  <2>1. /\ JInv'
        /\ Variables(vm', vm'.frames[d]) = Variables(vm, vm.frames[d]) => Activations(vm', runs') = t
        /\ \A s, y : Variables(vm', vm'.frames[d]) = [Variables(vm, vm.frames[d]) EXCEPT ![s] = y]
                       => Activations(vm', runs') = [t EXCEPT ![Len(t)].locals[s] = y]
    BY <1>5, <1>6, SameFrames
  <2> HIDE DEF t, d
  <2>3. Variables(vm', vm.frames[d]) = Variables(vm, vm.frames[d]) => Activations(vm', runs') = t
    BY <1>5, <2>1
  <2>4. ASSUME Variables(vm', vm.frames[d]) = [Variables(vm, vm.frames[d]) EXCEPT ![r] = v]
        PROVE  Activations(vm', runs') = [t EXCEPT ![Len(t)].locals[r] = v]
    <3>1. Variables(vm', vm'.frames[d]) = [Variables(vm, vm.frames[d]) EXCEPT ![r] = v]
      BY <1>5, <2>4
    <3> QED
      BY <2>1, <3>1
  <2> QED
    BY <2>1, <2>3, <2>4
<1> HIDE DEF t, d
<1>8. CASE x \in Upvalue
  <2>1. Activations(vm', runs') = t /\ Cells(vm') = [Cells(vm) EXCEPT ![x] = v]
    BY <1>4, <1>7, <1>8 DEF WrittenOn
  <2> QED
    BY <1>2, <1>5, <1>7, <1>8, <2>1 DEF Stack!Put, t
<1>9. CASE x \notin Upvalue
  <2>1. Activations(vm', runs') = [t EXCEPT ![Len(t)].locals[r] = v] /\ Cells(vm') = Cells(vm)
    BY <1>4, <1>7, <1>9 DEF WrittenOn
  <2> QED
    BY <1>2, <1>5, <1>7, <1>9, <2>1 DEF Stack!Put, t
<1> QED
  BY <1>8, <1>9

(* Gas and the error flag are not seen until the machine fails. *)
LEMMA CalmStep ==
  ASSUME IInv, JInv, Executing, Calm(vm, vm'), UNCHANGED <<runs, closures>>
  PROVE  JInv' /\ [Stack!Next]_Stack!vars
<1>1. /\ Firm(vm) /\ Firm(vm') /\ Cells(vm') = Cells(vm) /\ vm'.made = vm.made
      /\ vm'.frames = vm.frames /\ vm'.registers = vm.registers /\ RunsNest(runs')
      /\ DOMAIN vm.frames = 1 .. Len(vm.frames) /\ Len(vm.frames) \in Nat
      /\ \A i \in DOMAIN vm.frames : Variables(vm', vm.frames[i]) = Variables(vm, vm.frames[i])
  BY ExecutingIs, CalmKeeps
<1>2. CASE vm'.failed
  BY <1>1, <1>2, Aborts
<1>3. CASE ~vm'.failed
  <2>1. /\ \A i \in 1 .. Len(vm.frames) - 1 : i \in DOMAIN vm.frames
        /\ Len(vm.frames) \in DOMAIN vm.frames
    BY <1>1, ExecutingIs
  <2>2. JInv' /\ Activations(vm', runs') = Activations(vm, runs)
    BY <1>1, <1>3, <2>1, SameFrames
  <2>3. UNCHANGED Stack!vars
    BY <1>1, <2>2 DEF Stack!vars
  <2> QED
    BY <2>2, <2>3
<1> QED
  BY <1>2, <1>3

LEMMA AssignStep ==
  ASSUME CapturesApart, IInv, JInv, Assign
  PROVE  JInv' /\ Stack!Next
<1>1. Executing /\ UNCHANGED <<runs, closures>>
  BY DEF Assign
<1>2. PICK r \in Locals, v \in Value : vm' = SetReg(vm, r, v)
  BY DEF Assign
<1>3. JInv' /\ Stack!Put(Activations(vm, runs), r, v) /\ vm'.made = vm.made
  BY <1>1, <1>2, PutStep
<1>4. Stack!Assign(r)
  BY <1>1, <1>3 DEF Stack!Assign
<1>5. r \in DOMAIN Stack!Running.locals /\ Stack!InScript
  BY <1>1, ExecutingStack
<1> QED
  BY <1>3, <1>4, <1>5 DEF Stack!Next, Stack!Script


(* The variables of the closure that runs have been made. *)
LEMMA ClosureIs ==
  ASSUME IInv, JInv, Executing, NEW i \in DOMAIN TopFrame(vm).closure
  PROVE  LET u == TopFrame(vm).closure[i]
         IN  /\ u \in Upvalue /\ u <= vm.made
             /\ Cells(vm)[u] = Read(vm, u) /\ Read(vm, u) \in Value
             /\ i \in DOMAIN Stack!Running.closure /\ Stack!Running.closure[i] = u
<1> DEFINE u == TopFrame(vm).closure[i]
<1>1. /\ Sound(vm) /\ vm \in Machine /\ Len(vm.frames) \in DOMAIN vm.frames
      /\ TopFrame(vm) = vm.frames[Len(vm.frames)]
  BY ExecutingIs
<1>2. u \in Upvalue
  <2>1. TopFrame(vm).closure \in Seq(Upvalue)
    BY <1>1, FrameTypes
  <2> QED
    BY <2>1
<1>3. u <= vm.made
  BY <1>1 DEF Sound, ClosuresMade
<1>4. Stack!Running.closure = TopFrame(vm).closure
  BY <1>1, ExecutingStack
<1> HIDE DEF u
<1>5. Cells(vm)[u] = Read(vm, u) /\ Read(vm, u) \in Value
  BY <1>1, <1>2, <1>3, ReadType DEF Cells
<1> QED
  BY <1>2, <1>3, <1>4, <1>5 DEF u

LEMMA GetUpvalStep ==
  ASSUME CapturesApart, IInv, JInv, GetUpval
  PROVE  JInv' /\ Stack!Next
<1>1. Executing /\ UNCHANGED <<runs, closures>>
  BY DEF GetUpval
<1>2. PICK r \in Locals, i \in DOMAIN TopFrame(vm).closure :
        vm' = SetReg(vm, r, Read(vm, TopFrame(vm).closure[i]))
  BY DEF GetUpval
<1> DEFINE u == TopFrame(vm).closure[i]
<1>3. /\ Cells(vm)[u] = Read(vm, u) /\ Read(vm, u) \in Value
      /\ i \in DOMAIN Stack!Running.closure /\ Stack!Running.closure[i] = u
  BY <1>1, ClosureIs
<1>4. JInv' /\ Stack!Put(Activations(vm, runs), r, Read(vm, u)) /\ vm'.made = vm.made
  <2> HIDE DEF u
  <2>1. vm' = SetReg(vm, r, Read(vm, u))
    BY <1>2 DEF u
  <2> QED
    BY <1>1, <1>3, <2>1, PutStep
<1>5. Stack!GetUpval(r, u)
  BY <1>1, <1>3, <1>4 DEF Stack!GetUpval
<1>6. r \in DOMAIN Stack!Running.locals /\ Stack!InScript
  BY <1>1, ExecutingStack
<1> HIDE DEF u
<1>7. Stack!Script
  BY <1>3, <1>5, <1>6 DEF Stack!Script
<1> QED
  BY <1>4, <1>6, <1>7 DEF Stack!Next

LEMMA RaiseStep ==
  ASSUME IInv, JInv, Raise \/ JumpBack
  PROVE  JInv' /\ [Stack!Next]_Stack!vars
<1>1. Executing /\ UNCHANGED <<runs, closures>> /\ (vm' = Fail(vm) \/ vm' = ConsumeGas(vm))
  BY DEF Raise, JumpBack
<1>2. Sound(vm)
  BY DEF JInv, Firm
<1>3. Calm(vm, vm')
  BY <1>1, <1>2, CalmSteps
<1> QED
  BY <1>1, <1>3, CalmStep


(* A write to an upvalue changes its cell and nothing else that shows. *)
LEMMA UpvalueShows ==
  ASSUME CapturesApart, NEW m, Firm(m), NEW u \in Upvalue, u <= m.made, NEW v \in Value,
         NEW n, n = Write(m, u, v)
  PROVE  /\ Firm(n) /\ Alike(m, n) /\ n.failed = m.failed
         /\ Cells(n) = [Cells(m) EXCEPT ![u] = v]
         /\ \A j \in DOMAIN m.frames :
              /\ Variables(n, m.frames[j]) = Variables(m, m.frames[j])
              /\ n.registers[m.frames[j].base] = m.registers[m.frames[j].base]
<1>1. Sound(m) /\ m \in Machine /\ m.location \in [Upvalue -> Address] /\ m.closed \in [Upvalue -> Value]
  BY FieldTypes DEF Firm, Sound
<1>2. Alike(m, n) /\ n.failed = m.failed /\ Sound(n)
  BY <1>1, WriteSound
<1>3. Firm(n)
  BY <1>2 DEF Firm, ReturnsFit, BasesPlain, Alike
<1>4. CASE m.location[u] = None
  <2>1. n = [m EXCEPT !.closed[u] = v]
    BY <1>4 DEF Write
  <2>2. n.registers = m.registers /\ n.closed = [m.closed EXCEPT ![u] = v] /\ n.made = m.made
        /\ n.location = m.location
    BY <1>1, <2>1 DEF Machine
  <2>3. \A w \in Upvalue : Read(n, w) = IF w = u THEN v ELSE Read(m, w)
    BY <1>1, <1>4, <2>2 DEF Read
  <2>4. Cells(n) = [Cells(m) EXCEPT ![u] = v]
    <3>1. DOMAIN Cells(m) = Upvalue
      BY DEF Cells
    <3>2. [Cells(m) EXCEPT ![u] = v] = [w \in Upvalue |-> IF w = u THEN v ELSE Cells(m)[w]]
      BY <3>1
    <3>3. \A w \in Upvalue : (IF w <= n.made THEN Read(n, w) ELSE NoValue)
                              = (IF w = u THEN v ELSE Cells(m)[w])
      BY <2>2, <2>3 DEF Cells
    <3> QED
      BY <3>2, <3>3 DEF Cells
  <2>5. ASSUME NEW j \in DOMAIN m.frames PROVE Variables(n, m.frames[j]) = Variables(m, m.frames[j])
    BY <2>2, SameVariables
  <2> QED
    BY <1>2, <1>3, <2>2, <2>4, <2>5
<1>5. CASE m.location[u] # None
  <2>1. DOMAIN m.frames = 1 .. Depth(m)
    BY <1>1, FieldTypes DEF Depth
  <2>2. PICK i \in DOMAIN m.frames : u \in m.frames[i].open
    BY <1>1, <1>5, <2>1 DEF Sound, UpvaluesInFrames
  <2> DEFINE f == m.frames[i]
             s == m.location[u] - f.base
  <2>3. f.base \in Nat /\ f.function.registers \in Nat /\ End(f) = f.base + f.function.registers
    BY <1>1, FrameTypes DEF End
  <2>4. m.location[u] \in f.base .. End(f) - 1 /\ m.location[u] # f.base
    BY <1>1, <2>1, <2>2 DEF Sound, UpvaluesInFrames, Firm, BasesPlain
  <2>5. s \in 0 .. f.function.registers - 1 /\ s # 0 /\ m.location[u] = f.base + s
    BY <2>3, <2>4
  <2> HIDE DEF s
  <2>6. Variables(m, f)[s] = u
    BY <1>1, <2>5, VariableIs
  <2>7. Written(m, n, i, s, v)
    BY <1>5, <2>5 DEF Write, Written
  <2>8. WrittenOn(m, n, i, s, v)
    BY <2>5, <2>7, Writes
  <2>9. /\ Variables(n, f) = Variables(m, f) /\ Cells(n) = [Cells(m) EXCEPT ![u] = v]
        /\ \A j \in DOMAIN m.frames : j # i => Variables(n, m.frames[j]) = Variables(m, m.frames[j])
    BY <2>6, <2>8 DEF WrittenOn
  <2>10. \A j \in DOMAIN m.frames : n.registers[m.frames[j].base] = m.registers[m.frames[j].base]
    <3>1. i \in DOMAIN m.frames /\ s # 0
      BY <2>2, <2>5
    <3>2. ASSUME NEW j \in DOMAIN m.frames
          PROVE  n.registers[m.frames[j].base] = m.registers[m.frames[j].base]
      <4>1. j # i \/ s # 0
        BY <3>1
      <4> HIDE DEF f
      <4> QED
        BY <2>8, <3>1, <4>1, BasesKept
    <3> QED
      BY <3>2
  <2> QED
    BY <1>2, <1>3, <2>9, <2>10
<1> QED
  BY <1>4, <1>5

(* What a local is worth is what its register holds. *)
LEMMA LocalReads ==
  ASSUME CapturesApart, IInv, JInv, Executing, NEW r \in Locals
  PROVE  Stack!Local(r) = Reg(vm, r) /\ Reg(vm, r) \in Value /\ r \in DOMAIN Stack!Running.locals
<1> DEFINE d == Len(vm.frames)
<1>1. /\ Sound(vm) /\ d \in DOMAIN vm.frames /\ vm.currentBase = vm.frames[d].base
      /\ r \in 0 .. vm.frames[d].function.registers - 1
  BY ExecutingIs
<1>2. Stack!Running.locals = Variables(vm, vm.frames[d]) /\ r \in DOMAIN Stack!Running.locals
  BY ExecutingStack
<1> DEFINE x == Variables(vm, vm.frames[d])[r]
<1> HIDE DEF d
<1>3. /\ (IF x \in Upvalue THEN Cells(vm)[x] ELSE x) = vm.registers[vm.frames[d].base + r]
      /\ vm.registers[vm.frames[d].base + r] \in Value
  BY <1>1, LocalIs
<1>4. Stack!Local(r) = IF x \in Upvalue THEN Cells(vm)[x] ELSE x
  BY <1>2 DEF Stack!Local
<1> HIDE DEF x
<1> QED
  BY <1>1, <1>2, <1>3, <1>4 DEF Reg

LEMMA SetUpvalStep ==
  ASSUME CapturesApart, IInv, JInv, SetUpval
  PROVE  JInv' /\ Stack!Next
<1>1. Executing /\ UNCHANGED <<runs, closures>>
  BY DEF SetUpval
<1>2. PICK r \in Locals, i \in DOMAIN TopFrame(vm).closure :
        vm' = Write(vm, TopFrame(vm).closure[i], Reg(vm, r))
  BY DEF SetUpval
<1> DEFINE u == TopFrame(vm).closure[i]
           v == Reg(vm, r)
           d == Len(vm.frames)
           t == Activations(vm, runs)
<1>3. /\ u \in Upvalue /\ u <= vm.made
      /\ i \in DOMAIN Stack!Running.closure /\ Stack!Running.closure[i] = u
  BY <1>1, ClosureIs
<1>4. Stack!Local(r) = v /\ v \in Value /\ r \in DOMAIN Stack!Running.locals
  BY <1>1, LocalReads
<1>5. Firm(vm) /\ ~vm.failed /\ d \in DOMAIN vm.frames /\ DOMAIN vm.frames = 1 .. d /\ d \in Nat
  BY <1>1, ExecutingIs
<1> HIDE DEF u, v
<1>6. /\ Firm(vm') /\ Alike(vm, vm') /\ vm'.failed = vm.failed
      /\ Cells(vm') = [Cells(vm) EXCEPT ![u] = v]
      /\ \A j \in DOMAIN vm.frames :
           /\ Variables(vm', vm.frames[j]) = Variables(vm, vm.frames[j])
           /\ vm'.registers[vm.frames[j].base] = vm.registers[vm.frames[j].base]
  BY <1>2, <1>3, <1>4, <1>5, UpvalueShows DEF u, v
<1>7. vm'.frames = vm.frames /\ vm'.made = vm.made /\ ~vm'.failed
  BY <1>5, <1>6 DEF Alike
<1>8. \A j \in 1 .. d - 1 : j \in DOMAIN vm.frames
  BY <1>5
<1>9. JInv' /\ Activations(vm', runs') = t
  BY <1>1, <1>5, <1>6, <1>7, <1>8, SameFrames
<1> HIDE DEF t
<1>10. Stack!SetUpval(r, u)
  BY <1>1, <1>4, <1>6, <1>7, <1>9 DEF Stack!SetUpval, t
<1>11. Stack!InScript
  BY <1>1, ExecutingStack
<1>12. Stack!Script
  BY <1>3, <1>4, <1>10 DEF Stack!Script
<1> QED
  BY <1>9, <1>11, <1>12 DEF Stack!Next


LEMMA CaptureStep ==
  ASSUME CapturesApart, IInv, JInv, Executing, UNCHANGED runs, NEW r \in Captured \cap Locals,
         UpvalueFor(vm, r) \in Upvalue, vm' = Capture(vm, UpvalueFor(vm, r), r),
         closures' = closures \cup {<<UpvalueFor(vm, r)>>}
  PROVE  JInv' /\ Stack!Next
<1> DEFINE u == UpvalueFor(vm, r)
           d == Len(vm.frames)
           t == Activations(vm, runs)
           x == Variables(vm, vm.frames[d])[r]
<1>1. /\ Firm(vm) /\ Sound(vm) /\ ~vm.failed /\ vm.frames # << >> /\ TopFrame(vm) = vm.frames[d]
      /\ r \in 0 .. TopFrame(vm).function.registers - 1
      /\ d \in Nat \ {0} /\ DOMAIN vm.frames = 1 .. d
  BY ExecutingIs
<1>2. r # 0 /\ r \in Locals
  BY DEF CapturesApart
<1>3. /\ r \in DOMAIN Stack!Running.locals /\ Stack!InScript /\ Stack!Running.locals = Variables(vm, vm.frames[d])
      /\ Len(t) = d /\ Stack!Running = t[d]
  BY <1>2, ExecutingStack
<1>4. /\ Firm(vm') /\ vm'.failed = vm.failed /\ vm'.registers = vm.registers
      /\ Len(vm'.frames) = d
      /\ \A i \in 1 .. d :
           /\ vm'.frames[i].base = vm.frames[i].base /\ vm'.frames[i].function = vm.frames[i].function
           /\ vm'.frames[i].return = vm.frames[i].return /\ vm'.frames[i].closure = vm.frames[i].closure
           /\ i # d => Variables(vm', vm'.frames[i]) = Variables(vm, vm.frames[i])
      /\ x \in Upvalue => vm' = vm /\ u = x
      /\ x \notin Upvalue =>
           /\ vm.made \in Nat /\ u = vm.made + 1 /\ vm'.made = u
           /\ Variables(vm', vm'.frames[d]) = [Variables(vm, vm.frames[d]) EXCEPT ![r] = u]
           /\ Cells(vm') = [Cells(vm) EXCEPT ![u] = x]
  <2>1. CapturedIn(vm, Capture(vm, UpvalueFor(vm, r), r), UpvalueFor(vm, r), r)
    BY <1>1, <1>2, CaptureShows
  <2>2. CapturedIn(vm, vm', u, r)
    BY <2>1
  <2> HIDE DEF u
  <2> QED
    BY <2>2 DEF CapturedIn
<1> HIDE DEF x, u
<1>5. CASE x \in Upvalue
  <2>1. JInv' /\ Activations(vm', runs') = t /\ Cells(vm') = Cells(vm) /\ vm'.made = vm.made
    BY <1>4, <1>5 DEF JInv
  <2>2. Stack!Running.locals[r] = x /\ u = x
    BY <1>3, <1>4, <1>5 DEF x
  <2>3. closures' = closures \cup {<<x>>}
    BY <2>2 DEF u
  <2> HIDE DEF t
  <2>4. Stack!MakeClosure(r)
    BY <1>5, <2>1, <2>2, <2>3 DEF Stack!MakeClosure, t
  <2> QED
    BY <1>3, <2>1, <2>4 DEF Stack!Next, Stack!Script
<1>6. CASE x \notin Upvalue
  <2>1. \A i \in 1 .. d - 1 : i \in 1 .. d /\ i # d
    BY <1>1
  <2>2. JInv' /\ Activations(vm', runs') = [t EXCEPT ![Len(t)].locals[r] = u]
    <3>1. /\ JInv'
          /\ \A s, y : Variables(vm', vm'.frames[d]) = [Variables(vm, vm.frames[d]) EXCEPT ![s] = y]
                         => Activations(vm', runs') = [t EXCEPT ![Len(t)].locals[s] = y]
      BY <1>1, <1>4, <2>1, SameFrames
    <3>2. Variables(vm', vm'.frames[d]) = [Variables(vm, vm.frames[d]) EXCEPT ![r] = u]
      BY <1>4, <1>6
    <3> HIDE DEF t, d
    <3> QED
      BY <3>1, <3>2, ZenonT(60)
  <2>3. /\ u \in Upvalue \ (1 .. vm.made) /\ 1 .. vm'.made = (1 .. vm.made) \cup {u}
    <3>1. u \in Upvalue /\ vm.made \in Nat /\ u = vm.made + 1 /\ vm'.made = vm.made + 1
      BY <1>4, <1>6 DEF u
    <3> QED
      BY <3>1
  <2>4. t[Len(t)].locals[r] = x /\ Stack!Running.locals[r] = x
    BY <1>3 DEF x
  <2>5. closures' = closures \cup {<<u>>}
    BY DEF u
  <2> HIDE DEF t
  <2>6. Stack!MakeClosure(r)
    BY <1>4, <1>6, <2>2, <2>3, <2>4, <2>5 DEF Stack!MakeClosure, t
  <2> QED
    BY <1>3, <2>2, <2>6 DEF Stack!Next, Stack!Script
<1> QED
  BY <1>5, <1>6

LEMMA MakeClosureStep ==
  ASSUME CapturesApart, IInv, JInv, MakeClosure
  PROVE  JInv' /\ Stack!Next
<1>1. Executing /\ UNCHANGED runs
  BY DEF MakeClosure
<1>2. ASSUME NEW r \in Captured \cap Locals, UpvalueFor(vm, r) \in Upvalue,
             vm' = Capture(vm, UpvalueFor(vm, r), r),
             closures' = closures \cup {<<UpvalueFor(vm, r)>>}
      PROVE  JInv' /\ Stack!Next
  BY <1>1, <1>2, CaptureStep
<1>3. ASSUME NEW i \in DOMAIN TopFrame(vm).closure,
             closures' = closures \cup {<<TopFrame(vm).closure[i]>>}, UNCHANGED vm
      PROVE  JInv' /\ Stack!Next
  <2>1. JInv' /\ Activations(vm', runs') = Activations(vm, runs) /\ Cells(vm') = Cells(vm)
    BY <1>1, <1>3 DEF JInv
  <2>2. /\ i \in DOMAIN Stack!Running.closure /\ Stack!Running.closure[i] = TopFrame(vm).closure[i]
        /\ Stack!InScript
    BY <1>1, ClosureIs, ExecutingStack
  <2>3. Stack!PassOn(Stack!Running.closure[i])
    BY <1>3, <2>1, <2>2 DEF Stack!PassOn
  <2> QED
    BY <2>1, <2>2, <2>3 DEF Stack!Next, Stack!Script
<1> QED
  BY <1>2, <1>3 DEF MakeClosure


(* The registers after a call: the arguments follow the destination. *)
CallValues(p, dest, function) ==
  [i \in Register |-> IF i - p.currentBase \in 0 .. function.params - 1
                      THEN Reg(vm, dest + 1 + (i - p.currentBase)) ELSE p.registers[i]]

LEMMA CallPushes ==
  ASSUME IInv, JInv, Executing, NEW dest \in Locals, NEW f \in Function, NEW c \in closures \cup {<< >>},
         dest + f.params \in Locals, ScriptCall(dest, f, c), ~PushFrame(vm, f, dest, c).failed
  PROVE  /\ PushedOn(vm, vm', f, dest, c, CallValues(PushFrame(vm, f, dest, c), dest, f)) /\ ~vm'.failed
         /\ c \in Seq(Upvalue) /\ vm.stackTop + f.registers <= MaxRegisters /\ vm.stackTop \in Nat
         /\ \A i \in 1 .. f.params :
              CallValues(PushFrame(vm, f, dest, c), dest, f)[vm.stackTop + (i - 1)] = Reg(vm, dest + i)
         /\ \A i \in 0 .. f.params : dest + i \in Locals
<1> DEFINE p == PushFrame(vm, f, dest, c)
           values == CallValues(p, dest, f)
<1>1. /\ Firm(vm) /\ Sound(vm) /\ vm.frames # << >> /\ ~vm.failed
      /\ TopFrame(vm) = vm.frames[Len(vm.frames)] /\ Locals = 0 .. TopFrame(vm).function.registers - 1
      /\ TopFrame(vm).function.registers \in Nat
  BY ExecutingIs, TopFrameIs
<1>2. c \in Seq(Upvalue) /\ \A j \in DOMAIN c : c[j] <= vm.made
  BY ClosureTypes
<1>3. /\ dest \in Nat /\ dest < TopFrame(vm).function.registers
      /\ f.params \in Nat /\ f.registers \in Nat /\ f.params <= f.registers
      /\ \A i \in 0 .. f.params : dest + i \in Locals
  <2>1. dest \in Nat /\ dest < TopFrame(vm).function.registers
    BY <1>1
  <2>2. f.params \in Nat /\ f.registers \in Nat /\ f.params <= f.registers
    BY VMAssumption
  <2>3. dest + f.params < TopFrame(vm).function.registers
    BY <1>1, <2>1, <2>2
  <2> QED
    BY <1>1, <2>1, <2>2, <2>3, SMTT(40)
<1>4. \A r \in Locals : Reg(vm, r) \in Value
  BY ExecutingHasFrame
<1>5. Sound(p) /\ p.registers = vm.registers
  <2>1. Sound(vm) /\ dest \in Nat
    BY <1>1, <1>3
  <2> QED
    BY <1>2, <2>1, PushSound
<1>6. Fits(vm, f)
  BY <1>1, PushRefused
<1>7. p.currentBase = vm.stackTop /\ vm.stackTop \in Nat
  BY <1>1, <1>6, PushFits
<1>8. vm.stackTop + f.registers <= MaxRegisters /\ MaxRegisters \in Nat
  BY <1>3, <1>6, <1>7, VMAssumption DEF Fits
<1>9. vm' = [p EXCEPT !.registers = values]
  BY DEF ScriptCall, CallValues
<1> HIDE DEF p
<1>10. \A i \in Register : values[i] = IF i - vm.stackTop \in 0 .. f.params - 1
                                       THEN Reg(vm, dest + 1 + (i - vm.stackTop)) ELSE vm.registers[i]
  BY <1>5, <1>7 DEF CallValues
<1>11. values = [i \in Register |-> values[i]]
  BY DEF CallValues
<1> HIDE DEF values
<1>12. values \in [Register -> Value] /\ \A a \in Register : a < vm.stackTop => values[a] = vm.registers[a]
  <2>1. vm.registers \in [Register -> Value] /\ Register \subseteq Int
    BY <1>1, FieldTypes, VMAssumption DEF Sound, Register
  <2>2. ASSUME NEW i \in Register
        PROVE  values[i] \in Value /\ (i < vm.stackTop => values[i] = vm.registers[i])
    <3>1. i \in Int
      BY <2>1
    <3>2. CASE i - vm.stackTop \in 0 .. f.params - 1
      <4>1. ~(i < vm.stackTop) /\ i - vm.stackTop + 1 \in 0 .. f.params
        BY <1>3, <1>7, <3>1, <3>2, SMTT(40)
      <4>2. dest + 1 + (i - vm.stackTop) = dest + (i - vm.stackTop + 1)
        BY <1>3, <1>7, <3>1, SMTT(40)
      <4>3. dest + 1 + (i - vm.stackTop) \in Locals
        BY <1>3, <4>1, <4>2
      <4> QED
        BY <1>4, <1>10, <3>2, <4>1, <4>3
    <3>3. CASE i - vm.stackTop \notin 0 .. f.params - 1
      BY <1>10, <2>1, <3>3
    <3> QED
      BY <3>2, <3>3
  <2> QED
    BY <1>11, <2>2
<1>13. ASSUME NEW i \in 1 .. f.params PROVE values[vm.stackTop + (i - 1)] = Reg(vm, dest + i)
  <2> DEFINE b == vm.stackTop + (i - 1)
  <2>1. /\ b \in Register /\ b - vm.stackTop = i - 1
        /\ i - 1 \in 0 .. f.params - 1 /\ dest + 1 + (i - 1) = dest + i
    <3>1. i \in Nat /\ i >= 1 /\ i <= f.params
      BY <1>3
    <3> QED
      BY <1>3, <1>7, <1>8, <3>1, SMTT(40) DEF Register
  <2> HIDE DEF b
  <2>2. values[b] = Reg(vm, dest + 1 + (b - vm.stackTop))
    BY <1>10, <2>1
  <2> QED
    BY <2>1, <2>2 DEF b
<1>14. PushedOn(vm, vm', f, dest, c, values)
  <2>1. Pushed(vm, vm', f, dest, c, values)
    BY <1>9 DEF Pushed, p
  <2> QED
    BY <1>1, <1>2, <1>3, <1>6, <1>12, <2>1, PushShows
<1>15. ~vm'.failed
  BY <1>1, <1>14 DEF PushedOn
<1> QED
  BY <1>2, <1>3, <1>7, <1>8, <1>13, <1>14, <1>15 DEF values, p

LEMMA CalledStep ==
  ASSUME CapturesApart, IInv, JInv, Executing, UNCHANGED <<runs, closures>>,
         NEW dest \in Locals, NEW f \in Function, NEW c \in closures \cup {<< >>},
         dest + f.params \in Locals, ScriptCall(dest, f, c)
  PROVE  JInv' /\ Stack!Next
<1> DEFINE p == PushFrame(vm, f, dest, c)
           d == Len(vm.frames)
           values == CallValues(p, dest, f)
           a == Activation(vm', runs', d + 1)
           new == NewFrame(vm, f, dest, c)
<1>1. /\ runs \in Seq(Run) /\ runs # << >> /\ Last(runs).native = None
      /\ Last(runs).entry \in Nat /\ Last(runs).entry < d /\ RunsNest(runs)
      /\ ~vm.failed /\ Firm(vm) /\ vm \in Machine /\ vm.frames # << >>
      /\ d \in Nat \ {0} /\ DOMAIN vm.frames = 1 .. d /\ TopFrame(vm) = vm.frames[d]
      /\ Locals = 0 .. vm.frames[d].function.registers - 1
      /\ Shown(vm, runs) = vm
  BY ExecutingIs
<1>2. CASE p.failed
  <2>1. vm' = p
    BY <1>2 DEF ScriptCall
  <2>2. dest \in Nat /\ dest < TopFrame(vm).function.registers
    BY <1>1, TopFrameIs DEF Firm
  <2>3. c \in Seq(Upvalue) /\ \A j \in DOMAIN c : c[j] <= vm.made
    BY ClosureTypes
  <2>4. Firm(p) /\ Cells(p) = Cells(vm) /\ p.made = vm.made
    BY <1>1, <2>2, <2>3, PushFirm
  <2> HIDE DEF p
  <2> QED
    BY <1>1, <1>2, <2>1, <2>4, Aborts
<1>3. CASE ~p.failed
  <2>1. /\ PushedOn(vm, vm', f, dest, c, values) /\ ~vm'.failed
        /\ c \in Seq(Upvalue) /\ vm.stackTop + f.registers <= MaxRegisters /\ vm.stackTop \in Nat
        /\ \A i \in 1 .. f.params : values[vm.stackTop + (i - 1)] = Reg(vm, dest + i)
        /\ \A i \in 0 .. f.params : dest + i \in Locals
    BY <1>3, CallPushes
  <2> HIDE DEF values, p
  <2>2. /\ Firm(vm') /\ vm'.made = vm.made
        /\ Len(vm'.frames) = d + 1 /\ vm'.frames[d + 1] = new
        /\ Cells(vm') = Cells(vm)
        /\ Variables(vm', new) = [r \in 0 .. f.registers - 1 |-> values[vm.stackTop + r]]
        /\ Variables(vm', new) \in [0 .. f.registers - 1 -> Value]
        /\ \A i \in 1 .. d :
             /\ vm'.frames[i] = vm.frames[i]
             /\ Variables(vm', vm.frames[i]) = Variables(vm, vm.frames[i])
             /\ \A r \in 0 .. vm.frames[i].function.registers - 1 :
                  vm'.registers[vm.frames[i].base + r] = vm.registers[vm.frames[i].base + r]
    BY <2>1 DEF PushedOn
  <2> HIDE DEF new
  <2>3. vm' \in Machine
    BY <2>2 DEF Firm, Sound
  <2>4. ASSUME NEW i \in 1 .. d
        PROVE  vm'.registers[vm.frames[i].base] = vm.registers[vm.frames[i].base]
    <3>1. /\ vm.frames[i].base + 0 = vm.frames[i].base
          /\ 0 \in 0 .. vm.frames[i].function.registers - 1
      <4>1. vm.frames[i].base \in Nat /\ vm.frames[i].function.registers \in Nat \ {0}
        BY <1>1, FrameTypes
      <4> QED
        BY <4>1
    <3> QED
      BY <2>2, <3>1
  <2>5. JInv'
    <3>1. \A i \in 1 .. Last(runs).entry + 1 : i \in 1 .. d
      BY <1>1
    <3>2. \A i \in 1 .. Last(runs).entry : i \in 1 .. d
      BY <1>1
    <3>3. Last(runs).entry <= Len(vm'.frames)
      BY <1>1, <2>2
    <3> QED
      BY <2>2, <2>4, <3>1, <3>2, <3>3, InsideNests
  <2>6. Shown(vm', runs') = vm'
    <3>1. Depth(vm') # Last(runs').entry
      BY <1>1, <2>2 DEF Depth
    <3> QED
      BY <3>1 DEF Shown
  <2>7. ASSUME NEW i \in 1 .. d PROVE Activation(vm', runs', i) = Activation(vm, runs, i)
    <3>1. NativeIn(vm', runs', i) = NativeIn(vm, runs, i)
      BY <1>1, SameNatives
    <3>2. Variables(Shown(vm', runs'), vm'.frames[i]) = Variables(Shown(vm, runs), vm.frames[i])
      BY <1>1, <2>2, <2>6
    <3> QED
      BY <2>2, <3>1, <3>2 DEF Activation
  <2>8. /\ a.function = f /\ a.closure = c /\ a.return = dest /\ a.native = None
        /\ a.locals = Variables(vm', new)
    <3>1. d + 1 \in Int /\ d + 1 > Last(runs').entry /\ d + 1 > Last(runs').entry + 1
      BY <1>1
    <3>2. NativeIn(vm', runs', d + 1) = None
      BY <1>1, <3>1, NoNativeAbove
    <3>3. d + 1 \notin EntryFrames(runs')
      BY <1>1, <3>1, AboveRuns
    <3>4. new.function = f /\ new.closure = c /\ new.return = dest
      BY SMTT(40) DEF new, NewFrame
    <3> QED
      BY <2>2, <2>6, <3>2, <3>3, <3>4 DEF Activation
  <2> HIDE DEF a
  <2>9. Stack!Push /\ Stack!New = a
    <3>1. \A i \in 1 .. Len(vm.frames) : Activation(vm', runs', i) = Activation(vm, runs, i)
      BY <2>7
    <3>2. a = Activation(vm', runs', Len(vm.frames) + 1)
      BY DEF a
    <3>3. a.locals \in [0 .. a.function.registers - 1 -> Value] /\ a.function \in Function
      BY <2>2, <2>8
    <3> QED
      BY <1>1, <2>1, <2>2, <2>3, <2>8, <3>1, <3>2, <3>3, PushStep
  <2>10. ASSUME NEW i \in 0 .. f.params
         PROVE  /\ dest + i \in DOMAIN Stack!Running.locals
                /\ i > 0 => a.locals[i - 1] = Stack!Local(dest + i)
    <3>1. dest + i \in Locals
      BY <2>1
    <3>2. Stack!Local(dest + i) = Reg(vm, dest + i) /\ dest + i \in DOMAIN Stack!Running.locals
      BY <3>1, LocalReads
    <3>3. ASSUME i > 0 PROVE a.locals[i - 1] = Reg(vm, dest + i)
      <4>1. f.params \in Nat /\ f.registers \in Nat /\ f.params <= f.registers
        BY VMAssumption
      <4>2. i \in 1 .. f.params /\ i - 1 \in 0 .. f.registers - 1
        BY <3>3, <4>1
      <4> QED
        BY <2>1, <2>2, <2>8, <4>2
    <3> QED
      BY <3>2, <3>3
  <2>11. Stack!Call
    BY <2>8, <2>9, <2>10 DEF Stack!Call
  <2>12. Stack!InScript
    BY ExecutingStack
  <2> QED
    BY <2>5, <2>11, <2>12 DEF Stack!Next, Stack!Script
<1> QED
  BY <1>2, <1>3

LEMMA CallStep ==
  ASSUME CapturesApart, IInv, JInv, Call
  PROVE  JInv' /\ Stack!Next
<1>1. Executing /\ UNCHANGED <<runs, closures>>
  BY DEF Call
<1>2. PICK dest \in Locals, f \in Function, c \in closures \cup {<< >>} :
        dest + f.params \in Locals /\ ScriptCall(dest, f, c)
  BY DEF Call
<1> QED
  BY <1>1, <1>2, CalledStep


-----------------------------------------------------------------------------
(* Natives                                                                   *)

LEMMA NativeNests ==
  ASSUME NEW R \in Seq(Run), R # << >>, RunsNest(R), NEW x
  PROVE  RunsNest([R EXCEPT ![Len(R)].native = x])
<1> DEFINE Q == [R EXCEPT ![Len(R)].native = x]
<1>1. Len(Q) = Len(R) /\ Len(R) \in Nat \ {0} /\ DOMAIN R = 1 .. Len(R)
  OBVIOUS
<1>2. \A k \in 1 .. Len(R) : R[k] \in Run
  OBVIOUS
<1>3. \A k \in 1 .. Len(R) : Q[k].entry = R[k].entry /\ (k # Len(R) => Q[k] = R[k])
  BY <1>1, <1>2 DEF Run
<1> HIDE DEF Q
<1>4. ASSUME NEW k \in 1 .. Len(R) - 1
      PROVE  Q[k].native # None /\ (Q[k + 1].entry = 0 \/ Q[k + 1].entry > Q[k].entry)
  <2>1. k \in 1 .. Len(R) /\ k # Len(R) /\ k + 1 \in 1 .. Len(R)
    <3> DEFINE l == Len(R)
    <3>1. k \in 1 .. l - 1 /\ l \in Nat
      BY <1>1
    <3> HIDE DEF l
    <3>2. k \in 1 .. l /\ k # l /\ k + 1 \in 1 .. l
      BY <3>1
    <3> QED
      BY <3>2 DEF l
  <2>2. R[k].native # None /\ (R[k + 1].entry = 0 \/ R[k + 1].entry > R[k].entry)
    BY DEF RunsNest
  <2> QED
    BY <1>3, <2>1, <2>2
<1>5. RunsNest(Q)
  BY <1>1, <1>4, SMTT(40) DEF RunsNest
<1> QED
  BY <1>5 DEF Q

(* A native starts or returns in the frame that runs. *)
LEMMA NativeStack ==
  ASSUME IInv, JInv, runs # << >>, ~vm.failed, Last(runs).entry < Len(vm.frames), Shown(vm, runs) = vm,
         NEW x \in Nat \cup {None}, x # None => x < TopFrame(vm).function.registers,
         runs' = [runs EXCEPT ![Len(runs)].native = x],
         Firm(vm'), ~vm'.failed, vm'.frames = vm.frames,
         \A i \in 1 .. Len(vm.frames) - 1 :
           /\ vm'.registers[vm.frames[i].base] = vm.registers[vm.frames[i].base]
           /\ Variables(vm', vm.frames[i]) = Variables(vm, vm.frames[i])
  PROVE  LET d == Len(vm.frames)
             t == Activations(vm, runs)
             s == [t EXCEPT ![Len(t)].native = x]
         IN  /\ JInv'
             /\ Len(t) = d /\ Len(s) = d /\ t # << >> /\ d \in 1 .. d
             /\ t[d].native = Last(runs).native /\ s[d].locals = Variables(vm, vm.frames[d])
             /\ t[d].locals = Variables(vm, vm.frames[d])
             /\ Variables(vm', vm.frames[d]) = Variables(vm, vm.frames[d]) => Activations(vm', runs') = s
             /\ \A r, v : Variables(vm', vm.frames[d]) = [Variables(vm, vm.frames[d]) EXCEPT ![r] = v]
                            => Activations(vm', runs') = [s EXCEPT ![Len(s)].locals[r] = v]
<1> DEFINE d == Len(vm.frames)
           t == Activations(vm, runs)
           s == [t EXCEPT ![Len(t)].native = x]
           w == Activations(vm', runs')
<1>1. /\ runs \in Seq(Run) /\ runs[1].entry = 0 /\ RunsNest(runs)
      /\ Firm(vm) /\ Sound(vm) /\ vm \in Machine /\ vm' \in Machine /\ Firm(vm')
  BY DEF JInv, Nested, Firm, Sound, IInv, TypeOK, RunsKept
<1>2. /\ Last(runs).entry \in Nat /\ Last(runs).native \in Nat \cup {None}
      /\ d \in Nat /\ d > 0 /\ d \in 1 .. d /\ vm.frames # << >> /\ DOMAIN vm.frames = 1 .. d
  <2>1. Last(runs).entry \in Nat /\ Last(runs).native \in Nat \cup {None}
    BY <1>1, LastRun
  <2>2. vm.frames \in Seq(Frame)
    BY <1>1, FieldTypes
  <2> QED
    BY <2>1, <2>2
<1>3. Depth(vm) = d /\ Depth(vm') = d
  BY DEF Depth
<1>4. /\ runs' \in Seq(Run) /\ Len(runs') = Len(runs) /\ runs' # << >>
      /\ \A k \in 1 .. Len(runs) : runs'[k].entry = runs[k].entry /\ runs'[k].saved0 = runs[k].saved0
      /\ \A k \in 1 .. Len(runs) - 1 : runs'[k] = runs[k]
      /\ Last(runs').native = x /\ Last(runs').entry = Last(runs).entry
      /\ Current(runs') = Current(runs) /\ EntryFrames(runs') = EntryFrames(runs)
      /\ \A i \in 1 .. d - 1 : NativeIn(vm', runs', i) = NativeIn(vm, runs, i)
      /\ NativeIn(vm', runs', d) = x
  <2> HIDE DEF d
  <2>1. Depth(vm) \in Nat /\ Depth(vm') = Depth(vm) /\ Depth(vm) > Last(runs).entry
    BY <1>2, <1>3 DEF d
  <2>2. NativeOn(runs, runs', x, vm, vm')
    BY <1>1, <2>1, NativeShows
  <2> QED
    BY <1>3, <2>2 DEF NativeOn
<1>5. JInv'
  <2>1. RunsNest(runs')
    BY <1>1, NativeNests
  <2>2. Live(vm)
    BY <1>2 DEF Live
  <2>3. ASSUME NEW k \in Current(runs'), runs'[k].entry > 0
        PROVE  /\ runs'[k].entry <= Len(vm'.frames)
               /\ runs'[k - 1].native < vm'.frames[runs'[k].entry].function.registers
               /\ runs'[k].entry < Len(vm'.frames) =>
                    /\ runs'[k].saved0 = vm'.registers[vm'.frames[runs'[k].entry].base]
                    /\ vm'.frames[runs'[k].entry + 1].return = 0
    <3>1. k \in Current(runs) /\ k \in 1 .. Len(runs) /\ Len(runs) \in Nat
      BY <1>1, <1>4, CurrentRuns
    <3>2. runs[k].entry > 0 /\ runs'[k].entry = runs[k].entry /\ runs'[k].saved0 = runs[k].saved0
          /\ runs[k].entry \in Nat
      BY <1>1, <1>4, <2>3, <3>1, CurrentRuns
    <3>3. k # 1
      BY <1>1, <3>2
    <3>4. runs'[k - 1] = runs[k - 1]
      BY <1>4, <3>1, <3>3, SMTT(40)
    <3>5. /\ runs[k].entry <= Len(vm.frames)
          /\ runs[k - 1].native < vm.frames[runs[k].entry].function.registers
          /\ runs[k].entry < Len(vm.frames) =>
               /\ runs[k].saved0 = vm.registers[vm.frames[runs[k].entry].base]
               /\ vm.frames[runs[k].entry + 1].return = 0
      BY <2>2, <3>1, <3>2, SMTT(40) DEF JInv, Nested, Resumable
    <3>6. runs[k].entry < Len(vm.frames) =>
            vm'.registers[vm.frames[runs[k].entry].base] = vm.registers[vm.frames[runs[k].entry].base]
      <4>1. runs[k].entry < d => runs[k].entry \in 1 .. d - 1
        BY <1>2, <3>2, SMTT(40)
      <4> QED
        BY <4>1
    <3> QED
      BY <3>2, <3>4, <3>5, <3>6
  <2>4. Resumable(vm', runs')
    BY <2>3 DEF Resumable
  <2>5. InCall(vm', runs')
    BY <1>4 DEF InCall, TopFrame
  <2> QED
    BY <2>1, <2>4, <2>5 DEF JInv, Nested
<1>6. Shown(vm', runs') = vm'
  <2>1. Last(runs').native # None \/ Depth(vm') # Last(runs').entry
    BY <1>2, <1>3, <1>4
  <2> QED
    BY <2>1 DEF Shown
<1>7. /\ t \in Seq(Seen(vm, runs)) /\ Len(t) = d
      /\ \A i \in 1 .. d : t[i] = Activation(vm, runs, i)
  BY <1>1, StackIs
<1>8. /\ w \in Seq(Seen(vm', runs')) /\ Len(w) = d
      /\ \A i \in 1 .. d : w[i] = Activation(vm', runs', i)
  BY <1>1, StackIs
<1>9. t # << >>
  BY <1>2, <1>7
<1> DEFINE F == vm.frames[d].function
           C == vm.frames[d].closure
           E == IF d \in EntryFrames(runs) THEN None ELSE vm.frames[d].return
           L == Variables(vm, vm.frames[d])
           M == Variables(vm', vm.frames[d])
           N == NativeIn(vm, runs, d)
<1> HIDE DEF t, w, s
<1>10. t[d] = [function |-> F, closure |-> C, return |-> E, native |-> N, locals |-> L]
  BY <1>2, <1>7 DEF Activation
<1>11. w[d] = [function |-> F, closure |-> C, return |-> E, native |-> x, locals |-> M]
  BY <1>2, <1>4, <1>6, <1>8 DEF Activation
<1>12. N = Last(runs).native
  <2>1. Last(runs).native = None => NativeIn(vm, runs, d) = None
    BY <1>1, <1>2, NoNativeAbove
  <2>2. Last(runs).native # None => NativeIn(vm, runs, d) = Last(runs).native
    BY <1>3 DEF NativeIn
  <2> QED
    BY <2>1, <2>2
<1>13. \A i \in 1 .. d - 1 : w[i] = t[i]
  <2> SUFFICES ASSUME NEW i \in 1 .. d - 1 PROVE w[i] = t[i]
    OBVIOUS
  <2>1. i \in 1 .. d
    BY <1>2
  <2>2. NativeIn(vm', runs', i) = NativeIn(vm, runs, i)
    BY <1>4
  <2>3. Activation(vm', runs', i) = Activation(vm, runs, i)
    BY <1>4, <1>6, <2>2 DEF Activation
  <2> QED
    BY <1>7, <1>8, <2>1, <2>3
<1> HIDE DEF F, C, E, L, M, N, d
<1>14. w = [t EXCEPT ![d] = w[d]] /\ DOMAIN t = 1 .. d
  <2>1. \A i \in 1 .. Len(t) - 1 : w[i] = t[i]
    BY <1>7, <1>13
  <2> QED
    BY <1>7, <1>8, <1>9, <2>1, StackChanges
<1>15. s = [t EXCEPT ![d] = [function |-> F, closure |-> C, return |-> E, native |-> x, locals |-> L]]
  <2>1. s = [t EXCEPT ![d] = [t[d] EXCEPT !.native = x]]
    BY <1>7 DEF s
  <2>2. [t[d] EXCEPT !.native = x]
          = [function |-> F, closure |-> C, return |-> E, native |-> x, locals |-> L]
    BY <1>10
  <2> QED
    BY <2>1, <2>2
<1>16. /\ s[d] = [function |-> F, closure |-> C, return |-> E, native |-> x, locals |-> L]
       /\ DOMAIN s = 1 .. d /\ Len(s) = d /\ s[d].locals = L /\ t[d].native = N /\ t[d].locals = L
       /\ \A i \in 1 .. d : i # d => s[i] = t[i]
  <2>1. /\ s[d] = [function |-> F, closure |-> C, return |-> E, native |-> x, locals |-> L]
        /\ DOMAIN s = 1 .. d /\ \A i \in 1 .. d : i # d => s[i] = t[i]
    BY <1>2, <1>14, <1>15
  <2>2. Len(s) = d
    BY <1>7, <1>14, <1>15
  <2> QED
    BY <1>10, <2>1, <2>2
<1>17. ASSUME M = L PROVE w = s
  BY <1>11, <1>14, <1>15, <1>17
<1>18. ASSUME NEW r, NEW v, M = [L EXCEPT ![r] = v] PROVE w = [s EXCEPT ![Len(s)].locals[r] = v]
  <2> DEFINE K == [L EXCEPT ![r] = v]
             b == [function |-> F, closure |-> C, return |-> E, native |-> x, locals |-> L]
             c == [function |-> F, closure |-> C, return |-> E, native |-> x, locals |-> K]
  <2>1. [s EXCEPT ![Len(s)].locals[r] = v] = [s EXCEPT ![d] = [s[d] EXCEPT !.locals = [s[d].locals EXCEPT ![r] = v]]]
    BY <1>16
  <2>2. [s[d] EXCEPT !.locals = [s[d].locals EXCEPT ![r] = v]] = [b EXCEPT !.locals = K]
    BY <1>16
  <2>3. w[d] = c
    BY <1>11, <1>18
  <2> HIDE DEF K
  <2>4. [b EXCEPT !.locals = K] = c
    OBVIOUS
  <2> HIDE DEF b, c
  <2>5. w = [t EXCEPT ![d] = c]
    BY <1>14, <2>3
  <2>6. s = [t EXCEPT ![d] = b]
    BY <1>15 DEF b
  <2>7. [s EXCEPT ![d] = c] = [t EXCEPT ![d] = c]
    BY <1>2, <1>14, <2>6
  <2> QED
    BY <2>1, <2>2, <2>4, <2>5, <2>7
<1> QED
  BY <1>2, <1>5, <1>7, <1>9, <1>12, <1>16, <1>17, <1>18 DEF s, t, w, d, L, M


LEMMA CallNativeStep ==
  ASSUME CapturesApart, IInv, JInv, CallNative
  PROVE  JInv' /\ Stack!Next
<1>1. Executing /\ UNCHANGED closures
  BY DEF CallNative
<1>2. PICK dest \in Locals, paid \in {vm, ConsumeGas(vm)} :
        /\ vm' = paid
        /\ runs' = IF paid.failed THEN runs ELSE [runs EXCEPT ![Len(runs)].native = dest]
  BY DEF CallNative
<1> DEFINE d == Len(vm.frames)
           t == Activations(vm, runs)
<1>3. /\ runs # << >> /\ ~vm.failed /\ Firm(vm) /\ Sound(vm) /\ Last(runs).entry < d
      /\ d \in Nat \ {0} /\ DOMAIN vm.frames = 1 .. d /\ TopFrame(vm) = vm.frames[d]
      /\ Locals = 0 .. vm.frames[d].function.registers - 1 /\ Shown(vm, runs) = vm /\ RunsNest(runs)
      /\ vm.frames # << >>
  BY <1>1, ExecutingIs
<1>4. Calm(vm, vm')
  BY <1>2, <1>3, CalmSteps
<1>5. /\ Firm(vm') /\ Cells(vm') = Cells(vm) /\ vm'.made = vm.made
      /\ vm'.frames = vm.frames /\ vm'.registers = vm.registers
      /\ \A i \in DOMAIN vm.frames : Variables(vm', vm.frames[i]) = Variables(vm, vm.frames[i])
  BY <1>3, <1>4, CalmKeeps
<1>6. CASE vm'.failed
  BY <1>1, <1>2, <1>3, <1>5, <1>6, Aborts
<1>7. CASE ~vm'.failed
  <2>1. runs' = [runs EXCEPT ![Len(runs)].native = dest]
    BY <1>2, <1>7
  <2>2. dest \in Nat /\ dest < TopFrame(vm).function.registers
    BY <1>3, TopFrameIs
  <2>3. /\ \A i \in 1 .. d - 1 : Variables(vm', vm.frames[i]) = Variables(vm, vm.frames[i])
        /\ Variables(vm', vm.frames[d]) = Variables(vm, vm.frames[d])
    <3>1. /\ \A i \in 1 .. d - 1 : i \in DOMAIN vm.frames
          /\ d \in DOMAIN vm.frames
      BY <1>3
    <3> QED
      BY <1>5, <3>1
  <2>4. dest \in Nat \cup {None} /\ ~vm'.failed /\ dest < TopFrame(vm).function.registers
    BY <1>7, <2>2, SMTT(40)
  <2>5. JInv' /\ Activations(vm', runs') = [t EXCEPT ![Len(t)].native = dest]
    BY <1>3, <1>5, <2>1, <2>3, <2>4, NativeStack
  <2> HIDE DEF t
  <2>6. Stack!CallNative(dest)
    BY <1>1, <1>5, <2>5 DEF Stack!CallNative, t
  <2>7. dest \in DOMAIN Stack!Running.locals /\ Stack!InScript
    BY <1>1, ExecutingStack
  <2> QED
    BY <2>5, <2>6, <2>7 DEF Stack!Next, Stack!Script
<1> QED
  BY <1>6, <1>7

LEMMA NativeFailsStep ==
  ASSUME IInv, JInv, NativeFails
  PROVE  JInv' /\ Stack!Next
<1>1. vm' = Fail(vm) /\ runs' = runs /\ UNCHANGED closures
  BY DEF NativeFails
<1>2. Firm(vm) /\ Sound(vm) /\ RunsNest(runs)
  BY DEF JInv, Firm, Nested
<1>3. Calm(vm, vm') /\ vm'.failed
  BY <1>1, <1>2, CalmSteps, FailSound
<1>4. Firm(vm') /\ Cells(vm') = Cells(vm) /\ vm'.made = vm.made
  BY <1>2, <1>3, CalmKeeps
<1> QED
  BY <1>1, <1>2, <1>3, <1>4, Aborts

(* A native that returns to a machine that has failed, or that a nested call *)
(* has reset, is not seen.                                                   *)
LEMMA ReturnsToNone ==
  ASSUME IInv, JInv, NativeReturns, vm.failed \/ vm.frames = << >>
  PROVE  JInv' /\ Stack!Next
<1>1. /\ runs # << >> /\ runs' = [runs EXCEPT ![Len(runs)].native = None] /\ UNCHANGED closures
  BY DEF NativeReturns, InNative
<1>2. PICK v \in Value : vm' = IF vm.failed THEN vm ELSE SetReg(vm, Top.native, v)
  BY DEF NativeReturns
<1>3. /\ runs \in Seq(Run) /\ RunsNest(runs) /\ Firm(vm) /\ Sound(vm) /\ vm \in Machine
  BY DEF JInv, Firm, Sound, Nested, IInv, TypeOK
<1>4. RunsNest(runs')
  BY <1>1, <1>3, NativeNests
<1>5. CASE vm.failed
  <2>1. vm' = vm
    BY <1>2, <1>5
  <2> QED
    BY <1>1, <1>3, <1>4, <1>5, <2>1, Aborts
<1>6. CASE ~vm.failed
  <2>1. vm.frames = << >>
    BY <1>6
  <2> DEFINE r == Top.native
  <2>2. vm' = SetReg(vm, r, v)
    BY <1>2, <1>6
  <2> HIDE DEF r
  <2>3. Sound(vm') /\ Alike(vm, vm')
    BY <1>3, <2>2, SetRegSound
  <2>4. vm'.frames = << >> /\ vm'.location = vm.location /\ vm'.made = vm.made
    BY <2>1, <2>3 DEF Alike
  <2>5. Firm(vm')
    <3>1. Len(vm'.frames) = 0 /\ DOMAIN vm'.frames = {}
      BY <2>4
    <3> QED
      BY <2>3, <3>1 DEF Firm, ReturnsFit, BasesPlain
  <2>6. vm.stackTop = 0 /\ Register \subseteq Nat
    BY <1>3, <2>1, VMAssumption DEF Sound, WindowsTile, Register
  <2>7. vm'.closed = vm.closed
    BY <1>3, <2>2 DEF SetReg, Machine
  <2>8. Cells(vm') = Cells(vm)
    <3>1. \A a \in Register : a < vm.stackTop => vm'.registers[a] = vm.registers[a]
      BY <2>6
    <3> QED
      BY <1>3, <2>4, <2>7, <3>1, SameCells
  <2> QED
    BY <1>1, <1>4, <2>4, <2>5, <2>8, Aborts
<1> QED
  BY <1>5, <1>6

(* The result of a native is put into its register when it returns. *)
LEMMA ReturnsResult ==
  ASSUME CapturesApart, IInv, JInv, NativeReturns, ~vm.failed, vm.frames # << >>
  PROVE  JInv' /\ Stack!Next
<1> DEFINE d == Len(vm.frames)
           t == Activations(vm, runs)
           s == [t EXCEPT ![Len(t)].native = None]
           r == Last(runs).native
           x == Variables(vm, vm.frames[d])[r]
<1>1. /\ runs # << >> /\ Top.native # None /\ runs' = [runs EXCEPT ![Len(runs)].native = None]
      /\ UNCHANGED closures
  BY DEF NativeReturns, InNative
<1>2. /\ runs \in Seq(Run) /\ Firm(vm) /\ Sound(vm) /\ vm \in Machine
      /\ Top = Last(runs) /\ r \in Nat
  <2>1. runs \in Seq(Run) /\ Firm(vm) /\ Sound(vm) /\ vm \in Machine
    BY DEF JInv, Firm, Sound, IInv, TypeOK
  <2>2. Top = Last(runs) /\ Last(runs).native \in Nat \cup {None}
    BY <1>1, <2>1, LastRun DEF Top
  <2> QED
    BY <1>1, <2>1, <2>2
<1>3. PICK v \in Value : vm' = SetReg(vm, r, v)
  BY <1>2 DEF NativeReturns
<1>4. Last(runs).entry < d /\ r < TopFrame(vm).function.registers
  BY <1>1, <1>2 DEF JInv, Nested, Live, InCall
<1>5. /\ d \in Nat \ {0} /\ DOMAIN vm.frames = 1 .. d /\ d \in DOMAIN vm.frames
      /\ TopFrame(vm) = vm.frames[d] /\ vm.currentBase = vm.frames[d].base
      /\ vm.frames[d].function.registers \in Nat
  BY <1>2, TopFrameIs
<1>6. r \in 0 .. vm.frames[d].function.registers - 1
  BY <1>2, <1>4, <1>5
<1>7. Shown(vm, runs) = vm
  BY <1>1, <1>2 DEF Shown
<1> HIDE DEF r, d
<1>8. Written(vm, vm', d, r, v)
  BY <1>3, <1>5 DEF SetReg, Written
<1>9. WrittenOn(vm, vm', d, r, v)
  BY <1>2, <1>5, <1>6, <1>8, Writes
<1>10. /\ Firm(vm') /\ ~vm'.failed /\ vm'.frames = vm.frames /\ vm'.made = vm.made
       /\ \A j \in DOMAIN vm.frames : j # d => Variables(vm', vm.frames[j]) = Variables(vm, vm.frames[j])
       /\ x \in Upvalue =>
            /\ Variables(vm', vm.frames[d]) = Variables(vm, vm.frames[d])
            /\ Cells(vm') = [Cells(vm) EXCEPT ![x] = v]
       /\ x \notin Upvalue =>
            /\ Variables(vm', vm.frames[d]) = [Variables(vm, vm.frames[d]) EXCEPT ![r] = v]
            /\ Cells(vm') = Cells(vm)
  BY <1>9 DEF WrittenOn, Alike
<1>11. ASSUME NEW i \in 1 .. d - 1
       PROVE  /\ vm'.registers[vm.frames[i].base] = vm.registers[vm.frames[i].base]
              /\ Variables(vm', vm.frames[i]) = Variables(vm, vm.frames[i])
  <2>1. i \in DOMAIN vm.frames /\ i # d
    BY <1>5
  <2>2. Variables(vm', vm.frames[i]) = Variables(vm, vm.frames[i])
    BY <1>10, <2>1
  <2>3. vm'.registers[vm.frames[i].base] = vm.registers[vm.frames[i].base]
    BY <1>2, <1>5, <1>9, <2>1, BasesKept
  <2> QED
    BY <2>2, <2>3
<1>12. /\ JInv' /\ Len(t) = d /\ Len(s) = d /\ t # << >>
       /\ t[d].native = r /\ s[d].locals = Variables(vm, vm.frames[d])
       /\ Variables(vm', vm.frames[d]) = Variables(vm, vm.frames[d]) => Activations(vm', runs') = s
       /\ \A q, y : Variables(vm', vm.frames[d]) = [Variables(vm, vm.frames[d]) EXCEPT ![q] = y]
                      => Activations(vm', runs') = [s EXCEPT ![Len(s)].locals[q] = y]
  <2>1. runs # << >> /\ Last(runs).entry < Len(vm.frames) /\ None \in Nat \cup {None}
    BY <1>1, <1>4 DEF d
  <2>2. \A i \in 1 .. Len(vm.frames) - 1 :
          /\ vm'.registers[vm.frames[i].base] = vm.registers[vm.frames[i].base]
          /\ Variables(vm', vm.frames[i]) = Variables(vm, vm.frames[i])
    BY <1>11 DEF d
  <2> QED
    BY <1>1, <1>7, <1>10, <2>1, <2>2, NativeStack DEF d, r
<1> HIDE DEF t, s, x
<1>13. /\ Stack!Running = t[d] /\ Stack!Running.native = r /\ Stack!InNative
       /\ [t EXCEPT ![Len(t)].native = None] = s
  <2>1. Stack!Running = t[d]
    BY <1>12 DEF Stack!Running, t
  <2>2. t[d].native # None
    BY <1>1, <1>2, <1>12 DEF r
  <2>3. Stack!InNative
    BY <1>12, <2>1, <2>2 DEF Stack!InNative, t
  <2> QED
    BY <1>12, <2>1, <2>3 DEF s
<1>14. s[Len(s)].locals[r] = x
  BY <1>12 DEF x
<1>15. Stack!Put(s, r, v)
  <2>1. CASE x \in Upvalue
    <3>1. Activations(vm', runs') = s /\ Cells(vm') = [Cells(vm) EXCEPT ![x] = v]
      BY <1>10, <1>12, <2>1
    <3> QED
      BY <1>14, <2>1, <3>1 DEF Stack!Put
  <2>2. CASE x \notin Upvalue
    <3> DEFINE w == [s EXCEPT ![Len(s)].locals[r] = v]
    <3>1. Activations(vm', runs') = w /\ Cells(vm') = Cells(vm)
      <4>1. /\ Cells(vm') = Cells(vm)
            /\ Variables(vm', vm.frames[d]) = [Variables(vm, vm.frames[d]) EXCEPT ![r] = v]
        BY <1>10, <2>2
      <4>2. \A q, y : Variables(vm', vm.frames[d]) = [Variables(vm, vm.frames[d]) EXCEPT ![q] = y]
                      => Activations(vm', runs') = [s EXCEPT ![Len(s)].locals[q] = y]
        BY <1>12
      <4>3. Variables(vm', vm.frames[d]) = [Variables(vm, vm.frames[d]) EXCEPT ![r] = v]
              => Activations(vm', runs') = [s EXCEPT ![Len(s)].locals[r] = v]
        BY <4>2, Zenon
      <4> QED
        BY <4>1, <4>3
    <3>2. ~(s[Len(s)].locals[r] \in Upvalue)
      BY <1>14, <2>2
    <3> HIDE DEF w
    <3>3. IF s[Len(s)].locals[r] \in Upvalue
          THEN Activations(vm', runs') = s /\ Cells(vm') = [Cells(vm) EXCEPT ![s[Len(s)].locals[r]] = v]
          ELSE Activations(vm', runs') = w /\ UNCHANGED Cells(vm)
      BY <3>1, <3>2
    <3> QED
      BY <3>3 DEF Stack!Put, w
  <2> QED
    BY <2>1, <2>2
<1>16. Stack!NativeReturns
  <2>1. Stack!Put([t EXCEPT ![Len(t)].native = None], Stack!Running.native, v)
    BY <1>13, <1>15
  <2>2. 1 .. vm'.made = 1 .. vm.made
    BY <1>10
  <2> QED
    BY <1>1, <1>13, <2>1, <2>2 DEF Stack!NativeReturns, t
<1> QED
  BY <1>12, <1>16 DEF Stack!Next

LEMMA NativeReturnsStep ==
  ASSUME CapturesApart, IInv, JInv, NativeReturns
  PROVE  JInv' /\ Stack!Next
BY ReturnsToNone, ReturnsResult


-----------------------------------------------------------------------------
(* Returns                                                                   *)

PoppedOn(m, w) ==
  LET e == Len(vm.frames) - 1
      s == Front(Activations(vm, runs))
  IN  /\ Len(s) = e /\ s[e].locals = Variables(vm, vm.frames[e])
      /\ Variables(m, vm.frames[e]) = Variables(vm, vm.frames[e]) => w = s
      /\ \A r, x : Variables(m, vm.frames[e]) = [Variables(vm, vm.frames[e]) EXCEPT ![r] = x]
                     => w = [s EXCEPT ![Len(s)].locals[r] = x]

(* What scripts see when the last frame is gone, and one variable below it  *)
(* may be written.                                                          *)
LEMMA PoppedStack ==
  ASSUME IInv, JInv, Executing, UNCHANGED runs, Firm(vm'), ~vm'.failed,
         Len(vm.frames) > 1, Len(vm'.frames) = Len(vm.frames) - 1,
         NEW m, Shown(vm', runs') = m,
         \A i \in 1 .. Len(vm.frames) - 1 : vm'.frames[i] = vm.frames[i],
         \A i \in 1 .. Len(vm.frames) - 2 : Variables(m, vm.frames[i]) = Variables(vm, vm.frames[i])
  PROVE  PoppedOn(m, Activations(vm', runs'))
<1> DEFINE e == Len(vm.frames) - 1
           t == Activations(vm, runs)
           s == Front(t)
           w == Activations(vm', runs')
           S == Seen(vm, runs)
           T == Seen(vm', runs')
<1>1. /\ runs \in Seq(Run) /\ runs # << >> /\ Last(runs).native = None
      /\ Len(vm.frames) \in Nat \ {0} /\ ~vm.failed /\ vm \in Machine
      /\ Shown(vm, runs) = vm
  BY ExecutingIs
<1>2. e \in Nat \ {0} /\ e \in 1 .. e /\ Len(vm.frames) = e + 1
  <2> DEFINE d == Len(vm.frames)
  <2>1. d \in Nat /\ d > 1
    BY <1>1
  <2> HIDE DEF d
  <2>2. d - 1 \in Nat \ {0} /\ d - 1 \in 1 .. (d - 1) /\ d = (d - 1) + 1
    BY <2>1
  <2> QED
    BY <2>2 DEF d
<1>3. \A i : NativeIn(vm', runs', i) = NativeIn(vm, runs, i)
  BY <1>1, SameNatives
<1>4. /\ t \in Seq(S) /\ Len(t) = e + 1 /\ t # << >>
      /\ \A i \in 1 .. e + 1 : t[i] = Activation(vm, runs, i)
  <2>1. /\ t \in Seq(S) /\ Len(t) = Len(vm.frames) /\ t # << >>
        /\ \A i \in 1 .. Len(vm.frames) : t[i] = Activation(vm, runs, i)
    BY ExecutingStack
  <2> HIDE DEF t, S
  <2> QED
    BY <1>2, <2>1
<1>5. w \in Seq(T) /\ Len(w) = e /\ \A i \in 1 .. e : w[i] = Activation(vm', runs', i)
  <2>1. vm' \in Machine
    BY DEF Firm, Sound
  <2>2. /\ w \in Seq(T) /\ Len(w) = Len(vm'.frames)
        /\ \A i \in 1 .. Len(vm'.frames) : w[i] = Activation(vm', runs', i)
    BY <2>1, StackIs
  <2> HIDE DEF w, T
  <2> QED
    BY <2>2
<1> HIDE DEF t, w, S, T
<1>6. /\ s \in Seq(S) /\ Len(s) = e /\ s # << >> /\ \A i \in 1 .. e : s[i] = t[i]
  <2>1. Front(t) \in Seq(S) /\ Len(Front(t)) = e /\ \A i \in 1 .. e : Front(t)[i] = t[i]
    <3> HIDE DEF e
    <3> QED
      BY <1>2, <1>4 DEF Front
  <2> HIDE DEF e
  <2> QED
    BY <1>2, <2>1
<1>7. ASSUME NEW i \in 1 .. e, Variables(m, vm.frames[i]) = Variables(vm, vm.frames[i])
      PROVE  w[i] = s[i]
  <2>1. vm'.frames[i] = vm.frames[i] /\ i \in 1 .. e + 1
    BY <1>2
  <2>2. Activation(vm', runs', i) = Activation(vm, runs, i)
    BY <1>1, <1>3, <1>7, <2>1 DEF Activation
  <2> HIDE DEF s, e
  <2> QED
    BY <1>4, <1>5, <1>6, <2>1, <2>2
<1> DEFINE F == vm.frames[e].function
           C == vm.frames[e].closure
           E == IF e \in EntryFrames(runs) THEN None ELSE vm.frames[e].return
           N == NativeIn(vm, runs, e)
           L == Variables(vm, vm.frames[e])
           M == Variables(m, vm.frames[e])
<1>8. s[e] = [function |-> F, closure |-> C, return |-> E, native |-> N, locals |-> L]
  <2>1. s[e] = Activation(vm, runs, e)
    <3> HIDE DEF s, e
    <3>1. e \in 1 .. e + 1
      BY <1>2
    <3> QED
      BY <1>2, <1>4, <1>6, <3>1
  <2> HIDE DEF s, e
  <2> QED
    BY <1>1, <2>1 DEF Activation
<1>9. w[e] = [function |-> F, closure |-> C, return |-> E, native |-> N, locals |-> M]
  <2>1. w[e] = Activation(vm', runs', e) /\ vm'.frames[e] = vm.frames[e]
    BY <1>2, <1>5
  <2> HIDE DEF w, e
  <2> QED
    BY <1>3, <2>1 DEF Activation
<1>10. \A i \in 1 .. e - 1 : w[i] = s[i]
  <2> SUFFICES ASSUME NEW i \in 1 .. e - 1 PROVE w[i] = s[i]
    OBVIOUS
  <2>1. i \in 1 .. e /\ i \in 1 .. Len(vm.frames) - 2
    BY <1>2
  <2>2. Variables(m, vm.frames[i]) = Variables(vm, vm.frames[i])
    BY <2>1
  <2> HIDE DEF s, e
  <2> QED
    BY <1>7, <2>1, <2>2
<1> HIDE DEF F, C, E, N, L, M, s, e
<1>11. w = [s EXCEPT ![e] = w[e]] /\ DOMAIN s = 1 .. e
  <2>1. \A i \in 1 .. Len(s) - 1 : w[i] = s[i]
    BY <1>6, <1>10
  <2> QED
    BY <1>5, <1>6, <2>1, StackChanges
<1>12. ASSUME M = L PROVE w = s
  <2>1. w[e] = s[e]
    BY <1>8, <1>9, <1>12
  <2>2. [s EXCEPT ![e] = s[e]] = s
    BY <1>6
  <2> QED
    BY <1>11, <2>1, <2>2
<1>13. ASSUME NEW r, NEW x, M = [L EXCEPT ![r] = x] PROVE w = [s EXCEPT ![Len(s)].locals[r] = x]
  <2> DEFINE K == [L EXCEPT ![r] = x]
  <2>1. s[e].locals = L
    BY <1>8
  <2>2. [s EXCEPT ![Len(s)].locals[r] = x] = [s EXCEPT ![e] = [s[e] EXCEPT !.locals = [s[e].locals EXCEPT ![r] = x]]]
    BY <1>6
  <2>3. [s[e] EXCEPT !.locals = [s[e].locals EXCEPT ![r] = x]] = [s[e] EXCEPT !.locals = K]
    BY <2>1
  <2>4. M = K
    BY <1>13
  <2> HIDE DEF K
  <2>5. [s[e] EXCEPT !.locals = K] = w[e]
    BY <1>8, <1>9, <2>4
  <2> QED
    BY <1>11, <2>2, <2>3, <2>5
<1>14. s[e].locals = L
  BY <1>8
<1> QED
  BY <1>6, <1>12, <1>13, <1>14 DEF s, t, w, e, L, M, PoppedOn


(* When the frames of a run are gone, register 0 of the frame below is what *)
(* execute saved.                                                           *)
LEMMA PoppedIs ==
  ASSUME IInv, JInv, Executing
  PROVE  LET n == PopFrame(vm)
             d == Len(vm.frames)
             e == Last(runs).entry
         IN  /\ Firm(n) /\ Sound(n) /\ ~n.failed /\ n.made = vm.made /\ Cells(n) = Cells(vm)
             /\ d \in Nat \ {0} /\ Len(n.frames) = d - 1 /\ DOMAIN n.frames = 1 .. d - 1
             /\ n.frames # << >> <=> d > 1
             /\ e \in Nat /\ e <= d - 1 /\ Last(runs).native = None /\ RunsNest(runs) /\ runs \in Seq(Run)
             /\ runs # << >> /\ Firm(vm)
             /\ \A i \in 1 .. d - 1 :
                  /\ n.frames[i] = vm.frames[i] /\ Variables(n, vm.frames[i]) = Variables(vm, vm.frames[i])
                  /\ n.registers[vm.frames[i].base] = vm.registers[vm.frames[i].base]
             /\ d > 1 => n.currentBase = vm.frames[d - 1].base /\ d - 1 \in 1 .. d - 1
             /\ e = d - 1 /\ e > 0 =>
                  Last(runs).saved0 = n.registers[vm.frames[e].base] /\ vm.frames[d].return = 0
<1> DEFINE n == PopFrame(vm)
           d == Len(vm.frames)
           e == Last(runs).entry
<1>1. /\ runs \in Seq(Run) /\ runs # << >> /\ Last(runs).native = None
      /\ e \in Nat /\ e < d /\ RunsNest(runs)
      /\ ~vm.failed /\ Firm(vm) /\ vm.frames # << >> /\ Sound(vm)
      /\ d \in Nat \ {0} /\ Resumable(vm, runs)
  BY ExecutingIs
<1>2. /\ Firm(n) /\ n.failed = vm.failed /\ n.made = vm.made
      /\ Len(n.frames) = d - 1 /\ DOMAIN n.frames = 1 .. d - 1
      /\ n.frames # << >> <=> d > 1
      /\ Cells(n) = Cells(vm)
      /\ \A i \in 1 .. d - 1 :
           /\ n.frames[i] = vm.frames[i]
           /\ Variables(n, vm.frames[i]) = Variables(vm, vm.frames[i])
           /\ \A r \in 0 .. vm.frames[i].function.registers - 1 :
                n.registers[vm.frames[i].base + r] = vm.registers[vm.frames[i].base + r]
  BY <1>1, PopShows
<1> HIDE DEF n
<1>3. ASSUME NEW i \in 1 .. d - 1
      PROVE  n.registers[vm.frames[i].base] = vm.registers[vm.frames[i].base]
  <2>1. n.frames[i] = vm.frames[i] /\ i \in DOMAIN n.frames /\ n \in Machine
    BY <1>2 DEF Firm, Sound
  <2>2. vm.frames[i].base \in Nat /\ vm.frames[i].function.registers \in Nat \ {0}
    BY <2>1, FrameTypes
  <2>3. vm.frames[i].base + 0 = vm.frames[i].base /\ 0 \in 0 .. vm.frames[i].function.registers - 1
    BY <2>2, SMTT(40)
  <2> QED
    BY <1>2, <2>3
<1>4. Sound(n)
  BY <1>2 DEF Firm
<1> HIDE DEF d, e
<1>5. ASSUME d > 1 PROVE n.currentBase = vm.frames[d - 1].base /\ d - 1 \in 1 .. d - 1
  <2>1. d - 1 \in 1 .. d - 1
    BY <1>1, <1>5
  <2>2. TopFrame(n) = n.frames[d - 1] /\ n.currentBase = TopFrame(n).base
    BY <1>2, <1>4, <1>5, TopFrameIs
  <2> QED
    BY <1>2, <2>1, <2>2
<1>6. ASSUME e = d - 1, e > 0
      PROVE  Last(runs).saved0 = n.registers[vm.frames[e].base] /\ vm.frames[d].return = 0
  <2>1. Len(runs) \in Current(runs) /\ Last(runs) = runs[Len(runs)]
    BY <1>1, CurrentRuns, LastRun
  <2>2. runs[Len(runs)].entry = e
    BY <2>1 DEF e
  <2>3. runs[Len(runs)].entry > 0 /\ runs[Len(runs)].entry < Len(vm.frames)
    BY <1>1, <1>6, <2>2 DEF d
  <2>4. /\ runs[Len(runs)].saved0 = vm.registers[vm.frames[runs[Len(runs)].entry].base]
        /\ vm.frames[runs[Len(runs)].entry + 1].return = 0
    BY <1>1, <2>1, <2>3 DEF Resumable
  <2>5. e + 1 = d /\ e \in 1 .. d - 1
    BY <1>1, <1>6
  <2>6. n.registers[vm.frames[e].base] = vm.registers[vm.frames[e].base]
    BY <1>3, <2>5
  <2> QED
    BY <2>1, <2>2, <2>4, <2>5, <2>6
<1>7. e <= d - 1
  BY <1>1
<1> QED
  BY <1>1, <1>2, <1>3, <1>4, <1>5, <1>6, <1>7 DEF n, d, e

(* The frame that runs returns what C++ gets, unless a function called it. *)
LEMMA RunningReturn ==
  ASSUME IInv, JInv, Executing
  PROVE  LET d == Len(vm.frames)
         IN  Stack!Running.return = IF d = Last(runs).entry + 1 THEN None ELSE vm.frames[d].return
<1> DEFINE d == Len(vm.frames)
<1>1. /\ runs \in Seq(Run) /\ runs # << >> /\ Last(runs).entry \in Nat /\ Last(runs).entry < d
      /\ d \in Nat \ {0} /\ d \in 1 .. d
  BY ExecutingIs
<1>2. Stack!Running = Activation(vm, runs, d)
  BY <1>1, ExecutingStack
<1> HIDE DEF d
<1>3. d = Last(runs).entry + 1 => d \in EntryFrames(runs)
  BY <1>1, AboveRuns
<1>4. d # Last(runs).entry + 1 => d \notin EntryFrames(runs)
  <2>1. d # Last(runs).entry + 1 => d > Last(runs).entry + 1 /\ d \in Int
    BY <1>1
  <2> QED
    BY <1>1, <2>1, AboveRuns
<1> QED
  BY <1>2, <1>3, <1>4 DEF Activation, d

(* The state after pop_frame takes the last frame of a script away. *)
LEMMA PoppedNests ==
  ASSUME IInv, JInv, Executing, UNCHANGED runs, Firm(vm'), Len(vm.frames) > 1,
         vm'.frames = PopFrame(vm).frames,
         \A i \in 1 .. Len(vm.frames) - 2 :
           vm'.registers[vm.frames[i].base] = vm.registers[vm.frames[i].base]
  PROVE  JInv'
<1> DEFINE d == Len(vm.frames)
           e == Last(runs).entry
<1>1. /\ e \in Nat /\ e <= d - 1 /\ d \in Nat /\ Len(vm'.frames) = d - 1
      /\ \A i \in 1 .. d - 1 : vm'.frames[i] = vm.frames[i]
  BY PoppedIs
<1>2. e <= Len(vm'.frames)
  BY <1>1
<1> HIDE DEF d, e
<1>3. \A i \in 1 .. e + 1 : i <= Len(vm'.frames) => vm'.frames[i] = vm.frames[i]
  <2>1. \A i \in 1 .. e + 1 : i <= d - 1 => i \in 1 .. d - 1
    BY <1>1
  <2> QED
    BY <1>1, <2>1
<1>4. \A i \in 1 .. e : i < Len(vm'.frames) =>
        vm'.registers[vm.frames[i].base] = vm.registers[vm.frames[i].base]
  <2>1. \A i \in 1 .. e : i < d - 1 => i \in 1 .. d - 2
    BY <1>1
  <2> QED
    BY <1>1, <2>1 DEF d
<1> QED
  BY <1>2, <1>3, <1>4, InsideNests DEF e

LEMMA RetVoidStep ==
  ASSUME IInv, JInv, RetVoid
  PROVE  JInv' /\ Stack!Next
<1>1. Executing /\ vm' = PopFrame(vm) /\ UNCHANGED <<runs, closures>>
  BY DEF RetVoid
<1> DEFINE d == Len(vm.frames)
           e == Last(runs).entry
           t == Activations(vm, runs)
<1>2. /\ Firm(vm') /\ Sound(vm') /\ ~vm'.failed /\ vm'.made = vm.made /\ Cells(vm') = Cells(vm)
      /\ d \in Nat \ {0} /\ Len(vm'.frames) = d - 1
      /\ vm'.frames # << >> <=> d > 1
      /\ e \in Nat /\ e <= d - 1 /\ Last(runs).native = None /\ RunsNest(runs)
      /\ runs \in Seq(Run) /\ runs # << >>
      /\ \A i \in 1 .. d - 1 :
           /\ vm'.frames[i] = vm.frames[i] /\ Variables(vm', vm.frames[i]) = Variables(vm, vm.frames[i])
           /\ vm'.registers[vm.frames[i].base] = vm.registers[vm.frames[i].base]
      /\ d > 1 => vm'.currentBase = vm.frames[d - 1].base /\ d - 1 \in 1 .. d - 1
      /\ e = d - 1 /\ e > 0 => Last(runs).saved0 = vm'.registers[vm.frames[e].base]
  BY <1>1, PoppedIs
<1>3. CASE d = 1
  <2>1. vm'.frames = << >>
    BY <1>2, <1>3
  <2> QED
    BY <1>1, <1>2, <2>1, Aborts
<1>4. CASE d # 1
  <2>1. d > 1 /\ \A i \in 1 .. d - 2 : i \in 1 .. d - 1
    <3> HIDE DEF d
    <3> QED
      BY <1>2, <1>4
  <2>2. JInv'
    BY <1>1, <1>2, <2>1, PoppedNests
  <2>3. Shown(vm', runs') = vm'
    <3>1. CASE e = d - 1 /\ e > 0
      <4> DEFINE a == vm.frames[e].base
      <4>1. vm'.currentBase = a /\ vm'.registers[a] = Last(runs).saved0 /\ a + 0 = a
        <5>1. vm'.currentBase \in Nat
          BY <1>2, FieldTypes DEF Sound
        <5>2. vm'.currentBase = a /\ vm'.registers[a] = Last(runs).saved0
          BY <1>2, <2>1, <3>1
        <5> QED
          BY <5>1, <5>2
      <4> HIDE DEF a
      <4>2. SetReg(vm', 0, Last(runs').saved0) = [vm' EXCEPT !.registers = [vm'.registers EXCEPT ![a] = vm'.registers[a]]]
        BY <1>1, <4>1 DEF SetReg
      <4>3. [vm'.registers EXCEPT ![a] = vm'.registers[a]] = vm'.registers
        <5>1. vm'.registers \in [Register -> Value]
          BY <1>2, FieldTypes DEF Sound
        <5> QED
          BY <5>1
      <4>4. [vm' EXCEPT !.registers = vm'.registers] = vm'
        BY <1>2 DEF Sound, Machine
      <4> QED
        BY <4>2, <4>3, <4>4 DEF Shown
    <3>2. CASE ~(e = d - 1 /\ e > 0)
      <4>1. Depth(vm') # Last(runs').entry
        BY <1>1, <1>2, <2>1, <3>2 DEF Depth
      <4> QED
        BY <4>1 DEF Shown
    <3> QED
      BY <3>1, <3>2
  <2>4. Activations(vm', runs') = Front(t)
    <3>1. \A i \in 1 .. d - 2 : Variables(vm', vm.frames[i]) = Variables(vm, vm.frames[i])
      BY <1>2, <2>1
    <3>2. Variables(vm', vm.frames[d - 1]) = Variables(vm, vm.frames[d - 1])
      BY <1>2, <2>1
    <3>3. \A i \in 1 .. d - 1 : vm'.frames[i] = vm.frames[i]
      BY <1>2
    <3>4. PoppedOn(vm', Activations(vm', runs'))
      BY <1>1, <1>2, <2>1, <2>3, <3>1, <3>3, PoppedStack
    <3> QED
      BY <3>2, <3>4 DEF PoppedOn
  <2> HIDE DEF t
  <2>5. Stack!ReturnVoid
    BY <1>1, <1>2, <2>4 DEF Stack!ReturnVoid, Stack!Front, Front, t
  <2>6. Stack!InScript
    BY <1>1, ExecutingStack
  <2> QED
    BY <2>2, <2>5, <2>6 DEF Stack!Next, Stack!Script
<1> QED
  BY <1>3, <1>4


(* No upvalue is register 0 of a frame. *)
LEMMA BaseIsPlain ==
  ASSUME CapturesApart, NEW m, Firm(m), NEW i \in DOMAIN m.frames
  PROVE  Variables(m, m.frames[i])[0] \notin Upvalue /\ 0 \in 0 .. m.frames[i].function.registers - 1
<1> DEFINE x == Variables(m, m.frames[i])[0]
<1>1. Sound(m) /\ m \in Machine
  BY DEF Firm, Sound
<1>2. m.frames[i].base \in Nat /\ m.frames[i].function.registers \in Nat \ {0}
  BY <1>1, FrameTypes
<1>3. 0 \in 0 .. m.frames[i].function.registers - 1 /\ m.frames[i].base + 0 = m.frames[i].base
  BY <1>2
<1>4. x \in Upvalue => m.location[x] = m.frames[i].base + 0
  BY <1>1, <1>3, LocalIs
<1> HIDE DEF x
<1>5. ASSUME x \in Upvalue PROVE FALSE
  <2>1. m.location[x] = m.frames[i].base + 0
    BY <1>4, <1>5
  <2>2. x \in Holders(m, m.frames[i], 0)
    BY <1>1, <1>3, <1>5, <2>1, HolderIs
  <2>3. x \in m.frames[i].open
    BY <2>2 DEF Holders
  <2> QED
    BY <1>3, <2>1, <2>3 DEF Firm, BasesPlain
<1> QED
  BY <1>3, <1>5 DEF x

(* A function that C++ called leaves its result in register 0 of the frame *)
(* below, until execute puts back what it saved.                           *)
LEMMA RetLeaves ==
  ASSUME CapturesApart, IInv, JInv, Executing, UNCHANGED <<runs, closures>>, NEW r \in Locals,
         Len(vm.frames) > 1, Last(runs).entry = Len(vm.frames) - 1,
         vm' = SetReg(PopFrame(vm), TopFrame(vm).return, Reg(vm, r))
  PROVE  JInv' /\ Stack!Next
<1> DEFINE d == Len(vm.frames)
           e == d - 1
           n == PopFrame(vm)
           t == Activations(vm, runs)
           v == Reg(vm, r)
           s0 == Last(runs).saved0
<1>1. /\ Firm(n) /\ Sound(n) /\ ~n.failed /\ n.made = vm.made /\ Cells(n) = Cells(vm)
      /\ d \in Nat \ {0} /\ Len(n.frames) = e /\ DOMAIN n.frames = 1 .. e
      /\ n.frames # << >> /\ Last(runs).native = None
      /\ runs \in Seq(Run) /\ runs # << >>
      /\ \A i \in 1 .. e :
           /\ n.frames[i] = vm.frames[i] /\ Variables(n, vm.frames[i]) = Variables(vm, vm.frames[i])
           /\ n.registers[vm.frames[i].base] = vm.registers[vm.frames[i].base]
      /\ n.currentBase = vm.frames[e].base /\ e \in 1 .. e
      /\ Last(runs).saved0 = n.registers[vm.frames[e].base] /\ vm.frames[d].return = 0
  <2>1. Last(runs).entry > 0
    BY PoppedIs
  <2> QED
    BY <2>1, PoppedIs
<1>2. v \in Value /\ Stack!Local(r) = v /\ r \in DOMAIN Stack!Running.locals /\ Stack!InScript
  BY LocalReads, ExecutingStack
<1>3. vm' = SetReg(n, 0, v)
  BY <1>1 DEF TopFrame
<1>4. Stack!Running.return = None
  <2>1. d = Last(runs).entry + 1
    BY <1>1
  <2> QED
    BY <2>1, RunningReturn
<1> HIDE DEF v, n
<1>5. Written(n, vm', e, 0, v)
  BY <1>1, <1>3 DEF SetReg, Written
<1>6. /\ e \in DOMAIN n.frames
      /\ Variables(n, n.frames[e])[0] \notin Upvalue /\ 0 \in 0 .. n.frames[e].function.registers - 1
  <2>1. e \in DOMAIN n.frames
    BY <1>1
  <2> HIDE DEF e
  <2> QED
    BY <1>1, <2>1, BaseIsPlain
<1> HIDE DEF e
<1>7. WrittenOn(n, vm', e, 0, v)
  BY <1>1, <1>2, <1>5, <1>6, Writes, SMTT(40)
<1>8. /\ Firm(vm') /\ ~vm'.failed /\ vm'.frames = n.frames /\ vm'.made = vm.made
      /\ Cells(vm') = Cells(vm) /\ vm'.currentBase = n.currentBase
  BY <1>1, <1>6, <1>7 DEF WrittenOn, Alike
<1>9. \A i \in 1 .. e : i # e => vm'.registers[vm.frames[i].base] = vm.registers[vm.frames[i].base]
  <2> SUFFICES ASSUME NEW i \in 1 .. e, i # e
               PROVE  vm'.registers[vm.frames[i].base] = vm.registers[vm.frames[i].base]
    OBVIOUS
  <2>1. i \in DOMAIN n.frames
    BY <1>1
  <2>2. vm'.registers[n.frames[i].base] = n.registers[n.frames[i].base]
    <3>1. Firm(n) /\ e \in DOMAIN n.frames /\ (i # e \/ 0 # 0)
      BY <1>1, <1>6
    <3> QED
      BY <1>7, <2>1, <3>1, BasesKept
  <2> QED
    BY <1>1, <2>2, SMTT(40)
<1>10. \A i \in 1 .. d - 2 : i \in 1 .. e /\ i # e
  BY <1>1 DEF e
<1>11. JInv'
  <2>1. \A i \in 1 .. Len(vm.frames) - 2 :
           vm'.registers[vm.frames[i].base] = vm.registers[vm.frames[i].base]
    BY <1>9, <1>10
  <2> QED
    BY <1>8, <2>1, PoppedNests DEF n
<1>12. Shown(vm', runs') = n
  <2> DEFINE a == vm.frames[e].base
  <2>1. n.currentBase = a /\ n.registers[a] = s0 /\ a + 0 = a
    <3>1. n.currentBase \in Nat
      BY <1>1, FieldTypes DEF Sound
    <3> QED
      BY <1>1, <3>1
  <2> HIDE DEF a, s0
  <2>2. vm' = [n EXCEPT !.registers = [n.registers EXCEPT ![a] = v]]
    BY <1>3, <2>1 DEF SetReg
  <2>3. n.registers \in [Register -> Value] /\ n \in Machine
    BY <1>1, FieldTypes DEF Sound
  <2>4. vm'.registers = [n.registers EXCEPT ![a] = v] /\ vm'.currentBase = a
    BY <1>8, <2>1, <2>2, <2>3 DEF Machine
  <2>5. SetReg(vm', 0, s0) = [vm' EXCEPT !.registers = [vm'.registers EXCEPT ![a] = s0]]
    BY <2>1, <2>4 DEF SetReg
  <2>6. [vm'.registers EXCEPT ![a] = s0] = n.registers
    BY <2>1, <2>3, <2>4
  <2>7. [vm' EXCEPT !.registers = n.registers] = n
    BY <2>2, <2>3 DEF Machine
  <2>8. SetReg(vm', 0, s0) = n
    BY <2>5, <2>6, <2>7
  <2>9. /\ runs' # << >> /\ Last(runs').native = None /\ vm'.frames # << >> /\ Last(runs').saved0 = s0
        /\ Depth(vm') = Last(runs').entry
    BY <1>1, <1>8 DEF Depth, s0, e
  <2> QED
    BY <1>8, <2>8, <2>9 DEF Shown
<1>13. Activations(vm', runs') = Front(t)
  <2>1. /\ \A i \in 1 .. d - 2 : Variables(n, vm.frames[i]) = Variables(vm, vm.frames[i])
        /\ Variables(n, vm.frames[e]) = Variables(vm, vm.frames[e])
        /\ \A i \in 1 .. e : vm'.frames[i] = vm.frames[i]
        /\ Len(vm'.frames) = e
    BY <1>1, <1>8, <1>10
  <2>2. PoppedOn(n, Activations(vm', runs'))
    BY <1>8, <1>12, <2>1, PoppedStack DEF e
  <2> QED
    BY <2>1, <2>2 DEF PoppedOn, e
<1> HIDE DEF t
<1>14. Stack!Return(r)
  BY <1>4, <1>8, <1>13 DEF Stack!Return, Stack!Front, Front, t
<1> QED
  BY <1>2, <1>11, <1>14 DEF Stack!Next, Stack!Script

(* A function that a script called puts its result into the frame below. *)
LEMMA RetPuts ==
  ASSUME CapturesApart, IInv, JInv, Executing, UNCHANGED <<runs, closures>>, NEW r \in Locals,
         Len(vm.frames) > 1, Last(runs).entry # Len(vm.frames) - 1,
         vm' = SetReg(PopFrame(vm), TopFrame(vm).return, Reg(vm, r))
  PROVE  JInv' /\ Stack!Next
<1> DEFINE d == Len(vm.frames)
           e == d - 1
           n == PopFrame(vm)
           t == Activations(vm, runs)
           s == Front(t)
           v == Reg(vm, r)
           p == vm.frames[d].return
           x == Variables(vm, vm.frames[e])[p]
<1>1. /\ Firm(n) /\ Sound(n) /\ ~n.failed /\ n.made = vm.made /\ Cells(n) = Cells(vm)
      /\ d \in Nat \ {0} /\ Len(n.frames) = e /\ DOMAIN n.frames = 1 .. e
      /\ n.frames # << >> /\ Last(runs).native = None /\ Firm(vm)
      /\ runs \in Seq(Run) /\ runs # << >> /\ Last(runs).entry \in Nat
      /\ \A i \in 1 .. e :
           /\ n.frames[i] = vm.frames[i] /\ Variables(n, vm.frames[i]) = Variables(vm, vm.frames[i])
           /\ n.registers[vm.frames[i].base] = vm.registers[vm.frames[i].base]
      /\ n.currentBase = vm.frames[e].base /\ e \in 1 .. e
  BY PoppedIs
<1>2. v \in Value /\ Stack!Local(r) = v /\ r \in DOMAIN Stack!Running.locals /\ Stack!InScript
  BY LocalReads, ExecutingStack
<1>3. vm' = SetReg(n, p, v)
  BY DEF TopFrame
<1>4. p \in Nat /\ p < vm.frames[e].function.registers /\ vm.frames[e].function.registers \in Nat
  <2>1. d \in DOMAIN vm.frames /\ vm \in Machine
    BY ExecutingIs
  <2>2. p \in Nat
    BY <2>1, FrameTypes
  <2>3. d \in 2 .. d
    BY <1>1
  <2>4. p < vm.frames[e].function.registers
    BY <1>1, <2>3 DEF Firm, ReturnsFit
  <2>5. vm.frames[e].function.registers \in Nat
    BY <1>1, FrameTypes, ZenonT(60) DEF Sound
  <2> QED
    BY <2>2, <2>4, <2>5
<1>5. Stack!Running.return = p /\ p # None
  <2>1. d # Last(runs).entry + 1
    BY <1>1
  <2> QED
    BY <1>4, <2>1, RunningReturn, VMAssumption
<1> HIDE DEF v, n, p
<1>6. Written(n, vm', e, p, v)
  <2>1. n.currentBase = n.frames[e].base
    BY <1>1
  <2> HIDE DEF e
  <2> QED
    BY <1>3, <2>1 DEF SetReg, Written
<1> HIDE DEF e
<1>7. e \in DOMAIN n.frames /\ p \in 0 .. n.frames[e].function.registers - 1
  <2>1. e \in 1 .. e /\ DOMAIN n.frames = 1 .. e /\ n.frames[e] = vm.frames[e]
    BY <1>1
  <2> QED
    BY <1>4, <2>1, SMTT(40)
<1>8. WrittenOn(n, vm', e, p, v)
  BY <1>1, <1>2, <1>6, <1>7, Writes
<1>9. n.frames[e] = vm.frames[e] /\ Variables(n, vm.frames[e]) = Variables(vm, vm.frames[e])
  BY <1>1
<1>10. /\ Firm(vm') /\ ~vm'.failed /\ vm'.frames = n.frames /\ vm'.made = vm.made
       /\ \A j \in 1 .. e : j # e => Variables(vm', n.frames[j]) = Variables(n, n.frames[j])
       /\ x \in Upvalue =>
            /\ Variables(vm', vm.frames[e]) = Variables(vm, vm.frames[e])
            /\ Cells(vm') = [Cells(vm) EXCEPT ![x] = v]
       /\ x \notin Upvalue =>
            /\ Variables(vm', vm.frames[e]) = [Variables(vm, vm.frames[e]) EXCEPT ![p] = v]
            /\ Cells(vm') = Cells(vm)
  <2> HIDE DEF x
  <2>1. Variables(n, n.frames[e])[p] = x
    BY <1>9 DEF x
  <2>2. /\ Firm(vm') /\ ~vm'.failed /\ vm'.frames = n.frames /\ vm'.made = vm.made
        /\ \A j \in 1 .. e : j # e => Variables(vm', n.frames[j]) = Variables(n, n.frames[j])
        /\ x \in Upvalue =>
             /\ Variables(vm', n.frames[e]) = Variables(n, n.frames[e])
             /\ Cells(vm') = [Cells(n) EXCEPT ![x] = v]
        /\ x \notin Upvalue =>
             /\ Variables(vm', n.frames[e]) = [Variables(n, n.frames[e]) EXCEPT ![p] = v]
             /\ Cells(vm') = Cells(n)
    BY <1>1, <1>8, <2>1, SMTT(40) DEF WrittenOn, Alike
  <2> QED
    BY <1>1, <1>9, <2>2
<1>11. \A i \in 1 .. d - 2 :
         /\ vm'.registers[vm.frames[i].base] = vm.registers[vm.frames[i].base]
         /\ Variables(vm', vm.frames[i]) = Variables(vm, vm.frames[i])
  <2> SUFFICES ASSUME NEW i \in 1 .. d - 2
               PROVE  /\ vm'.registers[vm.frames[i].base] = vm.registers[vm.frames[i].base]
                      /\ Variables(vm', vm.frames[i]) = Variables(vm, vm.frames[i])
    OBVIOUS
  <2>1. i \in 1 .. e /\ i # e
    BY <1>1 DEF e
  <2>2. i \in DOMAIN n.frames /\ n.frames[i] = vm.frames[i]
    BY <1>1, <2>1
  <2>3. vm'.registers[n.frames[i].base] = n.registers[n.frames[i].base]
    <3>1. Firm(n) /\ e \in DOMAIN n.frames /\ (i # e \/ p # 0)
      BY <1>1, <1>7, <2>1
    <3> QED
      BY <1>8, <2>2, <3>1, BasesKept
  <2> QED
    BY <1>1, <1>10, <2>1, <2>2, <2>3
<1>12. JInv'
  <2>1. \A i \in 1 .. Len(vm.frames) - 2 :
           vm'.registers[vm.frames[i].base] = vm.registers[vm.frames[i].base]
    BY <1>11
  <2> QED
    BY <1>10, <2>1, PoppedNests DEF n
<1>13. Shown(vm', runs') = vm'
  <2>1. Depth(vm') # Last(runs').entry
    BY <1>1, <1>10 DEF Depth, e
  <2> QED
    BY <2>1 DEF Shown
<1>14. /\ Len(s) = e /\ s[e].locals = Variables(vm, vm.frames[e])
       /\ Variables(vm', vm.frames[e]) = Variables(vm, vm.frames[e]) => Activations(vm', runs') = s
       /\ \A q, y : Variables(vm', vm.frames[e]) = [Variables(vm, vm.frames[e]) EXCEPT ![q] = y]
                      => Activations(vm', runs') = [s EXCEPT ![Len(s)].locals[q] = y]
  <2>1. /\ \A i \in 1 .. Len(vm.frames) - 2 : Variables(vm', vm.frames[i]) = Variables(vm, vm.frames[i])
        /\ \A i \in 1 .. Len(vm.frames) - 1 : vm'.frames[i] = vm.frames[i]
        /\ Len(vm'.frames) = Len(vm.frames) - 1
    BY <1>1, <1>10, <1>11 DEF e
  <2>2. PoppedOn(vm', Activations(vm', runs'))
    BY <1>10, <1>13, <2>1, PoppedStack
  <2> QED
    BY <2>2 DEF PoppedOn, e
<1> HIDE DEF s, x
<1>15. s[Len(s)].locals[p] = x
  BY <1>14 DEF x
<1>16. Stack!Put(s, p, v)
  <2>1. CASE x \in Upvalue
    <3>1. Activations(vm', runs') = s /\ Cells(vm') = [Cells(vm) EXCEPT ![x] = v]
      BY <1>10, <1>14, <2>1
    <3> QED
      BY <1>15, <2>1, <3>1 DEF Stack!Put
  <2>2. CASE x \notin Upvalue
    <3>1. Cells(vm') = Cells(vm) /\ Variables(vm', vm.frames[e]) = [Variables(vm, vm.frames[e]) EXCEPT ![p] = v]
      BY <1>10, <2>2
    <3>2. Activations(vm', runs') = [s EXCEPT ![Len(s)].locals[p] = v]
      BY <1>14, <3>1
    <3> QED
      BY <1>15, <2>2, <3>1, <3>2 DEF Stack!Put
  <2> QED
    BY <2>1, <2>2
<1>17. Stack!Return(r)
  <2>1. Stack!Put(Stack!Front(Activations(vm, runs)), Stack!Running.return, Stack!Local(r))
    <3>1. Stack!Front(Activations(vm, runs)) = s
      BY DEF Stack!Front, Front, s
    <3> QED
      BY <1>2, <1>5, <1>16, <3>1
  <2> QED
    BY <1>5, <1>10, <2>1 DEF Stack!Return
<1> QED
  BY <1>2, <1>12, <1>17 DEF Stack!Next, Stack!Script

LEMMA RetStep ==
  ASSUME CapturesApart, IInv, JInv, Ret
  PROVE  JInv' /\ Stack!Next
<1>1. Executing /\ UNCHANGED <<runs, closures>>
  BY DEF Ret
<1>2. PICK r \in Locals :
        vm' = IF PopFrame(vm).frames # << >>
              THEN SetReg(PopFrame(vm), TopFrame(vm).return, Reg(vm, r)) ELSE PopFrame(vm)
  BY DEF Ret
<1>3. /\ PopFrame(vm).frames # << >> <=> Len(vm.frames) > 1
      /\ Firm(PopFrame(vm)) /\ PopFrame(vm).made = vm.made /\ Cells(PopFrame(vm)) = Cells(vm)
      /\ RunsNest(runs)
  BY <1>1, PoppedIs
<1>4. CASE ~(Len(vm.frames) > 1)
  <2>1. vm' = PopFrame(vm) /\ PopFrame(vm).frames = << >>
    BY <1>2, <1>3, <1>4
  <2>2. Firm(vm') /\ vm'.made = vm.made /\ Cells(vm') = Cells(vm) /\ vm'.frames = << >> /\ RunsNest(runs')
    BY <1>1, <1>3, <2>1
  <2> QED
    BY <1>1, <2>2, Aborts
<1>5. CASE Len(vm.frames) > 1
  <2>1. vm' = SetReg(PopFrame(vm), TopFrame(vm).return, Reg(vm, r))
    BY <1>2, <1>3, <1>5
  <2>2. CASE Last(runs).entry = Len(vm.frames) - 1
    BY <1>1, <1>5, <2>1, <2>2, RetLeaves
  <2>3. CASE Last(runs).entry # Len(vm.frames) - 1
    BY <1>1, <1>5, <2>1, <2>3, RetPuts
  <2> QED
    BY <2>2, <2>3
<1> QED
  BY <1>4, <1>5

-----------------------------------------------------------------------------
(* The end of execute                                                        *)

(* Putting register 0 back changes no cell, and no other frame. *)
LEMMA LeaveShows ==
  ASSUME CapturesApart, IInv, JInv, LeaveRun
  PROVE  LET m == IF Top.entry > 0 /\ vm.frames # << >> THEN SetReg(vm, 0, Top.saved0) ELSE vm
         IN  /\ Firm(m) /\ m.failed = vm.failed /\ m.frames = vm.frames /\ m.made = vm.made
             /\ Firm(vm') /\ Cells(vm') = Cells(vm) /\ vm'.made = vm.made
             /\ vm'.frames = << >> \/ (vm'.frames = vm.frames /\ vm'.failed = vm.failed)
             /\ ~vm.failed => Calm(m, vm') /\ ~vm'.failed
             /\ \A j \in DOMAIN vm.frames : j # Len(vm.frames) =>
                  m.registers[vm.frames[j].base] = vm.registers[vm.frames[j].base]
<1> DEFINE m == IF Top.entry > 0 /\ vm.frames # << >> THEN SetReg(vm, 0, Top.saved0) ELSE vm
           d == Len(vm.frames)
           v == Top.saved0
<1>1. runs # << >> /\ runs \in Seq(Run) /\ vm' = Epilogue(m, Top) /\ Firm(vm) /\ Sound(vm)
  BY DEF LeaveRun, IInv, TypeOK, JInv, Firm
<1>2. /\ Top \in Run /\ v \in Value /\ Top.entry \in Nat
      /\ Top.kind = "init" /\ Top.entry > 0 => Top.budget # << >>
  BY <1>1, TopTypes DEF IInv, RunsKept, Top
<1> HIDE DEF v
<1>3. /\ Firm(m) /\ m.failed = vm.failed /\ m.frames = vm.frames /\ m.made = vm.made
      /\ Cells(m) = Cells(vm)
      /\ \A j \in DOMAIN vm.frames : j # d =>
           m.registers[vm.frames[j].base] = vm.registers[vm.frames[j].base]
  <2>1. CASE Top.entry > 0 /\ vm.frames # << >>
    <3>1. d \in DOMAIN vm.frames /\ vm.currentBase = vm.frames[d].base
      BY <1>1, <2>1, TopFrameIs
    <3>2. m = SetReg(vm, 0, v)
      BY <2>1 DEF v
    <3> HIDE DEF d, m
    <3>3. Written(vm, m, d, 0, v)
      BY <3>1, <3>2 DEF SetReg, Written
    <3>4. Variables(vm, vm.frames[d])[0] \notin Upvalue /\ 0 \in 0 .. vm.frames[d].function.registers - 1
      BY <1>1, <3>1, BaseIsPlain
    <3>5. WrittenOn(vm, m, d, 0, v)
      BY <1>1, <1>2, <3>1, <3>3, <3>4, Writes
    <3>6. \A j \in DOMAIN vm.frames : j # d =>
            m.registers[vm.frames[j].base] = vm.registers[vm.frames[j].base]
      <4> SUFFICES ASSUME NEW j \in DOMAIN vm.frames, j # d
                   PROVE  m.registers[vm.frames[j].base] = vm.registers[vm.frames[j].base]
        OBVIOUS
      <4>1. Firm(vm) /\ d \in DOMAIN vm.frames /\ (j # d \/ 0 # 0)
        BY <1>1, <3>1
      <4>2. /\ vm.frames[j].base \in Nat /\ 0 \in 0 .. vm.frames[j].function.registers - 1
            /\ vm.frames[j].base + 0 = vm.frames[j].base
        BY <1>1, FrameTypes DEF Sound
      <4>3. m.registers[vm.frames[j].base + 0] = vm.registers[vm.frames[j].base + 0]
        BY <3>5, <4>1, <4>2 DEF WrittenOn
      <4> QED
        BY <4>2, <4>3
    <3> QED
      BY <3>4, <3>5, <3>6 DEF WrittenOn, Alike
  <2>2. CASE ~(Top.entry > 0 /\ vm.frames # << >>)
    <3>1. m = vm
      BY <2>2
    <3> HIDE DEF m
    <3> QED
      BY <1>1, <3>1
  <2> QED
    BY <2>1, <2>2
<1> HIDE DEF m
<1>4. /\ Firm(vm') /\ Cells(vm') = Cells(m) /\ vm'.made = m.made
      /\ vm'.frames = << >> \/ (Calm(m, vm') /\ vm'.failed = m.failed)
      /\ ~m.failed => Calm(m, vm') /\ ~vm'.failed
  BY <1>1, <1>2, <1>3, EpilogueShows
<1>5. Calm(m, vm') => vm'.frames = m.frames
  BY DEF Calm, Alike
<1> QED
  BY <1>3, <1>4, <1>5 DEF m, d, v

LEMMA RunsLeft ==
  ASSUME NEW R \in Seq(Run), R # << >>, RunsNest(R)
  PROVE  LET Q == Front(R)
         IN  /\ Q \in Seq(Run) /\ Len(Q) = Len(R) - 1 /\ RunsNest(Q)
             /\ \A k \in 1 .. Len(R) - 1 : Q[k] = R[k]
             /\ Q # << >> =>
                  /\ R = Append(Q, Last(R)) /\ Q[1] = R[1] /\ Last(Q) = R[Len(R) - 1]
                  /\ Last(Q).native # None
                  /\ Last(R).entry = 0 \/ Last(R).entry > Last(Q).entry
<1> DEFINE Q == Front(R)
           l == Len(R)
<1>1. l \in Nat \ {0} /\ Last(R) = R[l] /\ DOMAIN R = 1 .. l
  BY LastRun
<1>2. Q \in Seq(Run) /\ Len(Q) = l - 1 /\ \A k \in 1 .. l - 1 : Q[k] = R[k]
  BY <1>1 DEF Front
<1> HIDE DEF Q
<1>3. \A k \in 1 .. l - 1 :
        R[k].native # None /\ (R[k + 1].entry = 0 \/ R[k + 1].entry > R[k].entry)
  BY DEF RunsNest
<1> HIDE DEF l
<1>4. RunsNest(Q)
  <2>1. ASSUME NEW k \in 1 .. (l - 1) - 1
        PROVE  Q[k].native # None /\ (Q[k + 1].entry = 0 \/ Q[k + 1].entry > Q[k].entry)
    <3>1. k \in 1 .. l - 1 /\ k + 1 \in 1 .. l - 1
      BY <1>1, <2>1
    <3> QED
      BY <1>2, <1>3, <3>1
  <2> QED
    BY <1>2, <2>1 DEF RunsNest
<1>5. ASSUME Q # << >>
      PROVE  /\ R = Append(Q, Last(R)) /\ Q[1] = R[1] /\ Last(Q) = R[l - 1]
             /\ Last(Q).native # None
             /\ Last(R).entry = 0 \/ Last(R).entry > Last(Q).entry
  <2>1. Len(Q) \in Nat \ {0} /\ Last(Q) = Q[Len(Q)]
    BY <1>2, <1>5, LastRun
  <2>2. l - 1 \in 1 .. l - 1 /\ 1 \in 1 .. l - 1 /\ (l - 1) + 1 = l
    BY <1>1, <1>2, <2>1
  <2>3. Q[1] = R[1] /\ Last(Q) = R[l - 1]
    BY <1>2, <2>1, <2>2
  <2>4. R[l - 1].native # None /\ (R[(l - 1) + 1].entry = 0 \/ R[(l - 1) + 1].entry > R[l - 1].entry)
    BY <1>3, <2>2
  <2>5. R[(l - 1) + 1] = Last(R)
    BY <1>1, <2>2
  <2> DEFINE S == Append(Q, Last(R))
  <2>6. R = S
    <3>1. Last(R) \in Run
      BY LastRun
    <3>2. /\ S \in Seq(Run) /\ Len(S) = Len(Q) + 1 /\ S[Len(Q) + 1] = Last(R)
          /\ \A k \in 1 .. Len(Q) : S[k] = Q[k]
      BY <1>2, <3>1
    <3> HIDE DEF S
    <3>3. Len(S) = l /\ S[l] = R[l] /\ \A k \in 1 .. l - 1 : S[k] = R[k]
      BY <1>1, <1>2, <3>2
    <3>4. \A k \in 1 .. l : S[k] = R[k]
      <4>1. \A k \in 1 .. l : k = l \/ k \in 1 .. l - 1
        BY <1>1
      <4> QED
        BY <3>3, <4>1
    <3> QED
      BY <3>2, <3>3, <3>4 DEF l
  <2> QED
    BY <2>3, <2>4, <2>5, <2>6
<1> QED
  BY <1>2, <1>4, <1>5 DEF Q, l

(* A run that ends while the machine goes on left the frame that it        *)
(* interrupted on top, and the native that started it in progress.         *)
LEMMA LeavingIs ==
  ASSUME IInv, JInv, LeaveRun, Live(vm)
  PROVE  LET d == Len(vm.frames)
             Q == runs'
         IN  /\ runs \in Seq(Run) /\ runs # << >> /\ Q \in Seq(Run) /\ Q # << >> /\ Q = Front(runs)
             /\ runs = Append(Q, Last(runs)) /\ Len(Q) = Len(runs) - 1 /\ RunsNest(Q)
             /\ \A k \in 1 .. Len(Q) : Q[k] = runs[k]
             /\ Last(runs) \in Run /\ Last(runs).entry = d /\ Last(runs).native = None
             /\ d \in Nat \ {0} /\ d \in 1 .. d /\ DOMAIN vm.frames = 1 .. d
             /\ Q[1].entry = 0 /\ Last(Q).native # None /\ Last(Q).entry \in Nat /\ Last(Q).entry < d
             /\ Last(Q).native < vm.frames[d].function.registers
             /\ vm \in Machine /\ ~vm.failed /\ Resumable(vm, runs)
             /\ Top = Last(runs) /\ UNCHANGED closures
<1> DEFINE d == Len(vm.frames)
           e == Last(runs).entry
           l == Len(runs)
           Q == Front(runs)
<1>1. /\ runs # << >> /\ runs \in Seq(Run) /\ ~InNative /\ RunOver /\ runs' = Q /\ UNCHANGED closures
      /\ Firm(vm) /\ Sound(vm) /\ RunsNest(runs) /\ vm.frames # << >> /\ ~vm.failed
      /\ Resumable(vm, runs) /\ vm \in Machine /\ runs[1].entry = 0
  BY DEF LeaveRun, IInv, TypeOK, JInv, Firm, Nested, Live, Sound, RunsKept
<1>2. /\ l \in Nat \ {0} /\ Last(runs) = runs[l] /\ Last(runs) \in Run /\ e \in Nat
      /\ l \in Current(runs)
  BY <1>1, LastRun, CurrentRuns
<1>3. Top = Last(runs) /\ Last(runs).native = None
  BY <1>1, <1>2 DEF InNative, Top
<1>4. d \in Nat \ {0} /\ DOMAIN vm.frames = 1 .. d /\ d \in 1 .. d
  BY <1>1, TopFrameIs
<1>5. d <= e
  BY <1>1, <1>3 DEF RunOver, Depth
<1> HIDE DEF d, e, l
<1>6. e > 0
  BY <1>2, <1>4, <1>5
<1>7. e <= d /\ runs[l - 1].native < vm.frames[e].function.registers
  BY <1>1, <1>2, <1>6 DEF Resumable, d, e, l
<1>8. e = d
  BY <1>2, <1>4, <1>5, <1>7
<1>9. l # 1
  BY <1>1, <1>2, <1>6 DEF e
<1>10. Q \in Seq(Run) /\ Len(Q) = l - 1 /\ \A k \in 1 .. l - 1 : Q[k] = runs[k] /\ RunsNest(Q)
  BY <1>1, RunsLeft DEF l
<1>11. Q # << >>
  <2> HIDE DEF Q
  <2>1. Len(Q) # 0
    BY <1>2, <1>9, <1>10
  <2> QED
    BY <2>1
<1>12. /\ runs = Append(Q, Last(runs)) /\ Q[1] = runs[1] /\ Last(Q) = runs[l - 1]
       /\ Last(Q).native # None /\ RunsNest(Q)
       /\ Last(runs).entry = 0 \/ Last(runs).entry > Last(Q).entry
  BY <1>1, <1>11, RunsLeft DEF l
<1> HIDE DEF Q
<1>13. Last(Q).entry \in Nat /\ Last(Q).entry < d
  <2>1. Last(Q).entry \in Nat
    BY <1>10, <1>11, LastRun
  <2> QED
    BY <1>2, <1>6, <1>8, <1>12, <2>1 DEF e
<1>14. \A k \in 1 .. Len(Q) : Q[k] = runs[k]
  BY <1>10
<1>15. Q[1].entry = 0 /\ Last(Q).native < vm.frames[d].function.registers
  BY <1>1, <1>7, <1>8, <1>12
<1>16. /\ runs \in Seq(Run) /\ runs # << >> /\ Q \in Seq(Run) /\ Q # << >> /\ Q = Front(runs) /\ runs' = Q
       /\ runs = Append(Q, Last(runs)) /\ Len(Q) = Len(runs) - 1 /\ RunsNest(Q)
       /\ Last(runs) \in Run /\ Last(runs).entry = d /\ Last(runs).native = None
  BY <1>1, <1>2, <1>3, <1>8, <1>10, <1>11, <1>12 DEF e, l, Q
<1> QED
  BY <1>1, <1>3, <1>4, <1>12, <1>13, <1>14, <1>15, <1>16 DEF d

(* The runs that are left find what they had saved. *)
LEMMA LeaveNests ==
  ASSUME CapturesApart, IInv, JInv, LeaveRun, Live(vm)
  PROVE  JInv'
<1> DEFINE m == IF Top.entry > 0 /\ vm.frames # << >> THEN SetReg(vm, 0, Top.saved0) ELSE vm
           d == Len(vm.frames)
           Q == runs'
<1>1. /\ runs \in Seq(Run) /\ Q \in Seq(Run) /\ Q # << >> /\ RunsNest(Q)
      /\ runs = Append(Q, Last(runs)) /\ Last(runs) \in Run /\ Last(runs).entry = d
      /\ d \in Nat \ {0} /\ DOMAIN vm.frames = 1 .. d
      /\ Last(Q).entry \in Nat /\ Last(Q).entry < d
      /\ Last(Q).native < vm.frames[d].function.registers
      /\ ~vm.failed /\ Resumable(vm, runs) /\ \A k \in 1 .. Len(Q) : Q[k] = runs[k]
  BY LeavingIs, SMTT(40)
<1>2. /\ Firm(vm') /\ Calm(m, vm') /\ m.frames = vm.frames /\ ~vm'.failed
      /\ \A j \in DOMAIN vm.frames : j # d =>
           m.registers[vm.frames[j].base] = vm.registers[vm.frames[j].base]
  BY <1>1, LeaveShows
<1>3. vm'.frames = vm.frames /\ vm'.registers = m.registers
  BY <1>2 DEF Calm, Alike
<1> HIDE DEF m
<1>4. Current(runs) = Current(Q) \cup {Len(Q) + 1} /\ Current(Q) \subseteq 1 .. Len(Q)
  BY <1>1, RunStarts, CurrentRuns
<1>5. Last(Q).entry \in Nat /\ Len(Q) \in Nat
  BY <1>1
<1> HIDE DEF Q, d
<1>6. ASSUME NEW k \in Current(Q), Q[k].entry > 0
      PROVE  /\ Q[k].entry <= d
             /\ Q[k - 1].native < vm'.frames[Q[k].entry].function.registers
             /\ Q[k].saved0 = vm'.registers[vm'.frames[Q[k].entry].base]
             /\ vm'.frames[Q[k].entry + 1].return = 0
  <2> DEFINE e == Q[k].entry
  <2>1. e \in Nat /\ e <= Last(Q).entry /\ e > 0
    BY <1>1, <1>6, CurrentRuns
  <2>2. k \in 1 .. Len(Q) /\ Q[k] = runs[k] /\ k \in Current(runs)
    BY <1>1, <1>4
  <2>3. k # 1 /\ k - 1 \in 1 .. Len(Q)
    <3>1. Q[1] = runs[1] /\ runs[1].entry = 0
      BY LeavingIs DEF Q
    <3>2. k # 1
      BY <1>6, <3>1
    <3> QED
      BY <1>5, <2>2, <3>2
  <2>4. Q[k - 1] = runs[k - 1]
    BY <1>1, <2>3
  <2> HIDE DEF e
  <2>5. e < d /\ e \in 1 .. d /\ e # d
    BY <1>1, <2>1, SMTT(40)
  <2>6. /\ runs[k - 1].native < vm.frames[e].function.registers
        /\ runs[k].saved0 = vm.registers[vm.frames[e].base]
        /\ vm.frames[e + 1].return = 0
    <3>1. runs[k].entry = e
      BY <2>2 DEF e
    <3> QED
      BY <1>1, <2>1, <2>2, <2>5, <3>1 DEF Resumable, d
  <2>7. vm'.registers[vm.frames[e].base] = vm.registers[vm.frames[e].base]
    BY <1>1, <1>2, <1>3, <2>5
  <2> QED
    BY <1>3, <2>2, <2>4, <2>5, <2>6, <2>7 DEF e
<1>7. Resumable(vm', Q)
  BY <1>3, <1>6 DEF Resumable, d
<1>8. InCall(vm', Q)
  BY <1>1, <1>3 DEF InCall, TopFrame, d
<1> QED
  BY <1>1, <1>2, <1>7, <1>8 DEF JInv, Nested, Q

(* The result in register 0 is not seen, nor is its end. *)
LEMMA LeaveUnseen ==
  ASSUME CapturesApart, IInv, JInv, LeaveRun, Live(vm)
  PROVE  UNCHANGED Stack!vars
<1> DEFINE m == IF Top.entry > 0 /\ vm.frames # << >> THEN SetReg(vm, 0, Top.saved0) ELSE vm
           d == Len(vm.frames)
           Q == runs'
<1>1. /\ runs \in Seq(Run) /\ Q \in Seq(Run) /\ Q # << >> /\ runs # << >>
      /\ runs = Append(Q, Last(runs)) /\ Last(runs) \in Run /\ Last(runs).entry = d
      /\ Last(runs).native = None /\ Q[1].entry = 0 /\ Last(Q).native # None /\ Last(Q).entry < d
      /\ d \in Nat \ {0} /\ DOMAIN vm.frames = 1 .. d /\ Last(Q).entry \in Nat
      /\ ~vm.failed /\ Top = Last(runs) /\ UNCHANGED closures /\ vm.frames # << >>
  BY LeavingIs DEF Live
<1>2. /\ Firm(m) /\ Firm(vm') /\ Calm(m, vm') /\ m.frames = vm.frames /\ ~vm'.failed
      /\ Cells(vm') = Cells(vm) /\ vm'.made = vm.made
  BY <1>1, LeaveShows
<1>3. /\ vm'.frames = vm.frames
      /\ \A i \in 1 .. d : Variables(vm', vm.frames[i]) = Variables(m, vm.frames[i])
  BY <1>1, <1>2, CalmKeeps
<1>4. Shown(vm, runs) = m
  <2>1. d > 0 /\ Depth(vm) = d
    BY <1>1 DEF Depth
  <2>2. m = SetReg(vm, 0, Top.saved0)
    BY <1>1, <2>1
  <2> HIDE DEF m, d
  <2> QED
    BY <1>1, <2>1, <2>2 DEF Shown
<1> HIDE DEF m
<1>5. Shown(vm', Q) = vm'
  BY <1>1 DEF Shown
<1>6. Depth(vm') = d /\ Depth(vm) = d
  BY <1>3 DEF Depth
<1> HIDE DEF d, Q
<1>7. ASSUME NEW i \in 1 .. d PROVE Activation(vm', Q, i) = Activation(vm, runs, i)
  <2> DEFINE new == Last(runs)
             S == Append(Q, new)
  <2>1. new \in Run /\ new.entry = d /\ new.native = None /\ runs = S
    BY <1>1
  <2> HIDE DEF new
  <2>2. /\ NativeIn(vm, S, i) = NativeIn(vm', Q, i)
        /\ i \in EntryFrames(S) <=> i \in EntryFrames(Q)
    <3>1. /\ Q \in Seq(Run) /\ Q # << >> /\ Q[1].entry = 0 /\ Last(Q).native # None
          /\ new \in Run /\ new.entry > Last(Q).entry /\ new.native = None
          /\ Depth(vm') = new.entry /\ i \in 1 .. new.entry
      BY <1>1, <1>6, <2>1
    <3>2. StartsOn(Q, new)
      BY <3>1 DEF StartsOn
    <3>3. Depth(vm') = new.entry /\ i \in 1 .. new.entry
      BY <3>1
    <3>4. /\ NativeIn(vm, Append(Q, new), i) = NativeIn(vm', Q, i)
          /\ i \in EntryFrames(Append(Q, new)) <=> i \in EntryFrames(Q)
      BY <3>2, <3>3, RunStartsShows
    <3> QED
      BY <3>4
  <2>3. /\ NativeIn(vm, runs, i) = NativeIn(vm', Q, i)
        /\ i \in EntryFrames(runs) <=> i \in EntryFrames(Q)
    <3> HIDE DEF S
    <3> QED
      BY <2>1, <2>2
  <2>4. Variables(vm', vm.frames[i]) = Variables(m, vm.frames[i])
    BY <1>3
  <2> QED
    BY <1>3, <1>4, <1>5, <2>3, <2>4 DEF Activation
<1>8. Activations(vm', Q) = Activations(vm, runs)
  BY <1>1, <1>2, <1>6, <1>7 DEF Activations
<1> QED
  BY <1>1, <1>2, <1>8 DEF Stack!vars, Q

LEMMA LeaveStep ==
  ASSUME CapturesApart, IInv, JInv, LeaveRun
  PROVE  JInv' /\ [Stack!Next]_Stack!vars
<1>1. CASE Live(vm)
  BY <1>1, LeaveNests, LeaveUnseen
<1>2. CASE ~Live(vm)
  <2>1. /\ runs # << >> /\ runs \in Seq(Run) /\ runs' = Front(runs) /\ UNCHANGED closures
        /\ RunsNest(runs)
    BY DEF LeaveRun, IInv, TypeOK, JInv, Nested
  <2>2. RunsNest(runs')
    BY <2>1, RunsLeft
  <2>3. /\ Firm(vm') /\ Cells(vm') = Cells(vm) /\ vm'.made = vm.made
        /\ vm'.frames = << >> \/ (vm'.frames = vm.frames /\ vm'.failed = vm.failed)
    BY LeaveShows
  <2>4. vm'.failed \/ vm'.frames = << >>
    BY <1>2, <2>3 DEF Live
  <2> QED
    BY <2>1, <2>2, <2>3, <2>4, Aborts
<1> QED
  BY <1>1, <1>2

-----------------------------------------------------------------------------
(* The refinement                                                            *)

LEMMA InitiallyStack == Init => IInv /\ JInv /\ Stack!Init
<1> SUFFICES ASSUME Init PROVE IInv /\ JInv /\ Stack!Init
  OBVIOUS
<1>1. /\ vm.frames = << >> /\ vm.made = 0 /\ runs = << >> /\ closures = {}
      /\ \A u \in Upvalue : u \in Nat \ {0}
  BY VMAssumption DEF Init, Upvalue
<1>2. IInv
  BY Initially
<1>3. JInv
  <2>1. Len(vm.frames) = 0 /\ DOMAIN vm.frames = {} /\ Len(runs) = 0
    BY <1>1
  <2>2. Firm(vm)
    BY <1>2, <2>1 DEF Firm, IInv, ReturnsFit, BasesPlain
  <2>3. Nested(vm, runs)
    BY <1>1, <2>1 DEF Nested, RunsNest, Live
  <2> QED
    BY <2>2, <2>3 DEF JInv
<1>4. Activations(vm, runs) = << >>
  BY <1>1, NoStack
<1>5. Cells(vm) = [u \in Upvalue |-> NoValue]
  <2>1. \A u \in Upvalue : ~(u <= vm.made)
    BY <1>1
  <2> QED
    BY <2>1 DEF Cells
<1>6. 1 .. vm.made = {}
  BY <1>1
<1> QED
  BY <1>1, <1>2, <1>3, <1>4, <1>5, <1>6 DEF Stack!Init

LEMMA StepStack ==
  ASSUME CapturesApart, IInv, JInv, [Next]_vars
  PROVE  JInv' /\ [Stack!Next]_Stack!vars
<1>1. CASE Enter \/ ResetError
  BY <1>1, EnterStep, ResetStep
<1>2. CASE Assign \/ GetUpval \/ SetUpval \/ MakeClosure
  BY <1>2, AssignStep, GetUpvalStep, SetUpvalStep, MakeClosureStep
<1>3. CASE Call \/ Ret \/ RetVoid
  BY <1>3, CallStep, RetStep, RetVoidStep
<1>4. CASE CallNative \/ NativeFails \/ NativeReturns
  BY <1>4, CallNativeStep, NativeFailsStep, NativeReturnsStep
<1>5. CASE Raise \/ JumpBack
  BY <1>5, RaiseStep
<1>6. CASE LeaveRun
  BY <1>6, LeaveStep
<1>7. CASE UNCHANGED vars
  <2>1. vm' = vm /\ runs' = runs /\ closures' = closures
    BY <1>7 DEF vars
  <2>2. JInv'
    BY <2>1 DEF JInv
  <2>3. UNCHANGED Stack!vars
    BY <2>1 DEF Stack!vars
  <2> QED
    BY <2>2, <2>3
<1> QED
  BY <1>1, <1>2, <1>3, <1>4, <1>5, <1>6, <1>7 DEF Next

(* What VirtualMachine.cpp does with registers, windows and upvalues is what *)
(* a script expects of its variables: a call gives a function locals that no *)
(* other activation touches, push_frame and pop_frame of others included, a  *)
(* captured variable is one cell before and after close_upvalues, and a run  *)
(* that a native starts on the same frames changes nothing below it but the  *)
(* cells, nor does its end, which puts register 0 back.                      *)
THEOREM MachineIsCallStack ==
  ASSUME CapturesApart
  PROVE  Spec => ImplementsCallStack
<1>1. Init => IInv /\ JInv /\ Stack!Init
  BY InitiallyStack
<1>2. IInv /\ JInv /\ [Next]_vars => JInv' /\ [Stack!Next]_(Stack!vars)
  BY StepStack
<1>3. Spec => []IInv
  BY Inductive
<1>4. Spec => [](IInv /\ JInv)
  BY <1>1, <1>2, <1>3, PTL DEF Spec
<1> QED
  BY <1>1, <1>2, <1>4, PTL DEF Spec, ImplementsCallStack, Stack!Spec

=============================================================================
