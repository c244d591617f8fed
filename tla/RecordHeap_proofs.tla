------------------------- MODULE RecordHeap_proofs -------------------------
(***************************************************************************)
(* Theorems about ScriptGC for programs of records and strings: nothing    *)
(* that a script can reach is freed, however minor and major collections   *)
(* alternate with what the script does.                                    *)
(*                                                                         *)
(* The programs are those for which this is so.  Sums, closures and views  *)
(* of strings store pointers past the barriers, and collect_minor_step     *)
(* lets script run in the middle of a minor collection.                    *)
(***************************************************************************)
EXTENDS ScriptGC_proofs

RecordsAndStrings ==
  /\ Kinds \subseteq {"struct", "backing"}
  /\ "collect_minor_step" \notin EntryPoints

(***************************************************************************)
(* What is left of ScriptGC: every object is a record, a string or what    *)
(* backs one, no register is captured, and a collection that has begun     *)
(* ends before script runs.                                                *)
(***************************************************************************)
Kind == {"struct", "backing", "string"}

KindsOnly ==
  /\ \A o \in Obj : kind[o] \in Kind
  /\ \A r \in Reg : open[r] = Null
  /\ Requesting =>
       /\ req.kind \in Kind
       /\ req.kind # "string" => req.init = Null
       /\ req.kind = "string" =>
            /\ req.init = root[req.dest] /\ req.init # Null
            /\ kind[req.init] = "backing"

Phases ==
  /\ caller # "step"
  /\ minorPhase # "idle" => pc = "minor"
  /\ minorPhase = "idle" => phase \in {"idle", "mark_incremental"}
  /\ pc \in {"mark", "finish"} => phase = "mark_incremental"
  /\ minorPhase # "scan_remembered" => retained = {}

(* The young list and the size of the old generation *)
Lists ==
  /\ YoungListExact
  /\ OldBytesExact
  /\ minorPhase \in {"mark_roots", "scan_remembered", "trace_gray"} => ~sweepKept
  /\ minorPhase # "idle" /\ ~sweepKept => sweepTodo = young

(* What a minor sweep has found to be garbage and not reclaimed yet, and   *)
(* the rest of the heap, which has no pointer to it                        *)
Doomed == {o \in sweepTodo : minorPhase = "sweep_promote" /\ color[o] = "white"}
Safe == live \ Doomed

SafeClosed ==
  /\ \A r \in Root : root[r] \in Safe \cup {Null}
  /\ \A o \in Safe : Refs(o) \subseteq Safe

Shapes ==
  \A o \in Safe :
    /\ kind[o] = "backing" => Refs(o) = {}
    /\ kind[o] = "string" => \A x \in Refs(o) : kind[x] = "backing"

(* During the scan an old object with a young child is in the part of the  *)
(* remembered set that was scanned or in the one that was not.             *)
Remembered ==
  \A o \in live : gen[o] = 1 /\ (\E x \in Refs(o) \cap live : gen[x] = 0) => o \in pending \cup retained

(***************************************************************************)
(* Marking: a gray object is on the gray stack, a black one points to no   *)
(* white one.  A minor collection sees young objects only.                 *)
(***************************************************************************)
Looks(o, youngOnly) == youngOnly => gen[o] = 0

Tricolor(youngOnly) ==
  \A o \in live : Looks(o, youngOnly) =>
    /\ color[o] = "gray" => o \in gray
    /\ color[o] = "black" => \A x \in Refs(o) : Looks(x, youngOnly) => color[x] # "white"

RootsMarked(youngOnly) ==
  \A r \in Root : root[r] # Null /\ Looks(root[r], youngOnly) => color[root[r]] # "white"

MajorInv ==
  MajorMarking =>
    /\ Tricolor(FALSE)
    /\ Requesting /\ req.kind = "string" => color[req.init] # "white"
    /\ pc = "finish" => RootsMarked(FALSE)

(* Every closed set that has the roots and the old objects has o. *)
Anchors == Roots \cup {o \in live : gen[o] = 1}
AnchorClosed(S) == Anchors \subseteq S /\ \A o \in S : Refs(o) \subseteq S
Anchored(o) == \A S \in SUBSET Obj : AnchorClosed(S) => o \in S

ToScan == IF minorPhase = "scan_remembered" THEN pending ELSE {}

MinorInv ==
  /\ minorPhase = "mark_roots" => gray = {} /\ \A o \in young : color[o] = "white"
  /\ minorPhase \in {"scan_remembered", "trace_gray"} =>
       /\ Tricolor(TRUE)
       /\ gray \subseteq {o \in young : color[o] # "white"}
       /\ RootsMarked(TRUE)
       /\ \A o \in live \ ToScan : gen[o] = 1 => \A x \in Refs(o) : gen[x] = 0 => color[x] # "white"
       /\ \A o \in young : color[o] # "white" => Anchored(o)
  /\ minorPhase = "sweep_promote" => \A o \in sweepTodo : color[o] # "white" => Anchored(o)

HInv == KindsOnly /\ Phases /\ Lists /\ SafeClosed /\ Shapes /\ Remembered /\ MajorInv /\ MinorInv

-----------------------------------------------------------------------------
(* What the definitions of ScriptGC come to for such programs               *)

LEMMA Types ==
  ASSUME TypeOK
  PROVE  /\ live \subseteq Obj
         /\ \A o \in Obj, f \in Field : field[o][f] \in Obj \cup {Null}
         /\ \A o \in Obj : color[o] \in {"white", "gray", "black"} /\ gen[o] \in {0, 1}
         /\ \A r \in Root : root[r] \in Obj \cup {Null}
         /\ \A r \in Reg : r \in Root
BY DEF TypeOK, Root

LEMMA RefsTypes ==
  ASSUME TypeOK
  PROVE  \A o \in Obj : Refs(o) \subseteq Obj /\ Null \notin Refs(o)
BY Types DEF Refs

(* No object that can be traced holds an upvalue. *)
LEMMA TracedIsRefs ==
  ASSUME TypeOK, KindsOnly, NEW o \in Obj
  PROVE  /\ Traced(o) = Refs(o)
         /\ \A youngOnly \in BOOLEAN :
              TraceTargets(o, youngOnly) = {x \in Refs(o) \cap live : Looks(x, youngOnly)}
<1>1. kind[o] \in {"struct", "backing", "string"}
  BY DEF KindsOnly, Kind
<1>2. Traced(o) = Refs(o)
  BY <1>1 DEF Traced
<1> QED
  BY <1>2 DEF TraceTargets, Looks

LEMMA RootsOnly ==
  ASSUME TypeOK, KindsOnly
  PROVE  /\ RootValues = {root[r] : r \in Root} \ {Null}
         /\ Roots = {root[r] : r \in Root} \ {Null}
         /\ \A youngOnly \in BOOLEAN :
              RootTargets(youngOnly) = {x \in Roots \cap live : Looks(x, youngOnly)}
<1>1. \A r \in Reg : open[r] = Null
  BY DEF KindsOnly
<1>2. {c \in {root[r] : r \in Reg} \cap live : kind[c] = "closure"} = {}
  BY Types DEF KindsOnly, Kind
<1>3. RootValues = {root[r] : r \in Root} \ {Null}
  <2>1. UNION {Traced(c) : c \in {}} = {}
    OBVIOUS
  <2> QED
    BY <1>1, <1>2, <2>1 DEF RootValues
<1>4. Roots = {root[r] : r \in Root} \ {Null}
  BY <1>1 DEF Roots
<1> QED
  BY <1>3, <1>4 DEF RootTargets, Looks

(* Outside the sweep nothing is doomed. *)
LEMMA NoneDoomed ==
  ASSUME minorPhase # "sweep_promote"
  PROVE  Doomed = {} /\ Safe = live
BY DEF Doomed, Safe

LEMMA ShadeColors ==
  ASSUME NEW S \in SUBSET Obj, ShadeGray(S)
  PROVE  /\ gray \subseteq gray'
         /\ \A x \in Obj : /\ color[x] # "white" => color'[x] = color[x]
                           /\ color[x] = "white" /\ x \in S => color'[x] = "gray" /\ x \in gray'
                           /\ color[x] = "white" /\ x \notin S => color'[x] = "white"
         /\ \A x \in gray' : x \in gray \/ x \in S
BY DEF ShadeGray, Shaded, Pushed

(* What marks keeps the marks there are. *)
LEMMA ShadeTricolor ==
  ASSUME TypeOK, NEW S \in SUBSET Obj, NEW youngOnly \in BOOLEAN, Tricolor(youngOnly),
         ShadeGray(S), UNCHANGED <<live, field, gen>>
  PROVE  /\ Tricolor(youngOnly)'
         /\ \A x \in Obj : color[x] # "white" \/ x \in S => color'[x] # "white"
<1>3. \A x \in Obj : Refs(x)' = Refs(x) /\ Refs(x) \subseteq Obj
  BY RefsTypes DEF Refs
<1>4. Tricolor(youngOnly)'
  <2> SUFFICES ASSUME NEW o \in live, Looks(o, youngOnly)
               PROVE  /\ color'[o] = "gray" => o \in gray'
                      /\ color'[o] = "black" => \A x \in Refs(o) : Looks(x, youngOnly) => color'[x] # "white"
    BY <1>3, Types DEF Tricolor, Looks
  <2>1. o \in Obj
    BY Types
  <2> QED
    BY ShadeColors, <1>3, <2>1 DEF Tricolor
<1> QED
  BY ShadeColors, <1>4

(* Tracing an object from the gray stack blackens it and leaves none of    *)
(* its children white.                                                     *)
LEMMA PopTricolor ==
  ASSUME TypeOK, KindsOnly, SafeClosed, Shapes, minorPhase # "sweep_promote",
         NEW youngOnly \in BOOLEAN, Tricolor(youngOnly),
         NEW o \in Obj, PopGray(o, youngOnly), UNCHANGED <<live, field, gen>>
  PROVE  /\ Tricolor(youngOnly)'
         /\ \A x \in Obj : color[x] # "white" => color'[x] # "white"
         /\ \A x \in gray' : x \in gray \/ (x \in live /\ x \in Refs(o) /\ o \in live /\ Looks(x, youngOnly))
         /\ gray' \subseteq {x \in Obj : x \in gray \/ color'[x] # "white"}
         /\ \A x \in Obj : color'[x] # "white" =>
              color[x] # "white" \/ (x = o /\ o \in live) \/ (o \in live /\ x \in Refs(o) /\ Looks(x, youngOnly))
<1> DEFINE white == {x \in Refs(o) : Looks(x, youngOnly) /\ o \in live /\ color[x] = "white"}
           direct == {x \in white : kind[o] = "string"}
<1>1. Safe = live
  BY NoneDoomed
<1>2. o \in live => Refs(o) \subseteq live
  BY <1>1 DEF SafeClosed
<1>3. {x \in TraceTargets(o, youngOnly) : o \in live /\ color[x] = "white"} = white
  BY <1>2, TracedIsRefs
<1>4. /\ o \in gray
      /\ color' = [x \in Obj |-> IF (x = o /\ o \in live) \/ x \in direct THEN "black"
                                 ELSE IF x \in white THEN "gray" ELSE color[x]]
      /\ gray' = (gray \ {o}) \cup (white \ direct)
  <2> HIDE DEF white
  <2> QED
    BY <1>3 DEF PopGray
<1>5. /\ \A x \in white : x \in live /\ x \in Obj /\ o \in live /\ x \in Refs(o) /\ Looks(x, youngOnly)
      /\ \A x \in direct : x \in white /\ Refs(x) = {}
      /\ kind[o] # "string" => direct = {}
      /\ \A x \in Refs(o) : o \in live /\ Looks(x, youngOnly) => x \in white \/ color[x] # "white"
  <2>1. \A x \in white : x \in live /\ x \in Obj /\ o \in live /\ x \in Refs(o) /\ Looks(x, youngOnly)
    BY <1>2, Types
  <2>2. \A x \in direct : x \in white /\ Refs(x) = {}
    BY <1>1, <2>1 DEF Shapes
  <2> QED
    BY <2>1, <2>2
<1> HIDE DEF white, direct
<1>6. \A x \in Obj :
        /\ color'[x] = IF (x = o /\ o \in live) \/ x \in direct THEN "black"
                       ELSE IF x \in white THEN "gray" ELSE color[x]
        /\ color[x] # "white" => color'[x] # "white"
        /\ color'[x] # "white" => color[x] # "white" \/ (x = o /\ o \in live) \/ x \in white
        /\ x \in white => color'[x] # "white"
  BY <1>4, <1>5
<1>7. \A x \in Obj : Refs(x)' = Refs(x) /\ Refs(x) \subseteq Obj
  BY RefsTypes DEF Refs
<1>8. Tricolor(youngOnly)'
  <2> SUFFICES ASSUME NEW y \in live, Looks(y, youngOnly)
               PROVE  /\ color'[y] = "gray" => y \in gray'
                      /\ color'[y] = "black" => \A x \in Refs(y) : Looks(x, youngOnly) => color'[x] # "white"
    BY <1>7, Types DEF Tricolor, Looks
  <2>1. y \in Obj
    BY Types
  <2>2. CASE y = o
    BY <1>5, <1>6, <1>7, <2>1, <2>2
  <2>3. CASE y # o
    <3>1. ASSUME color'[y] = "gray" PROVE y \in gray'
      BY <1>4, <1>6, <2>1, <2>3, <3>1 DEF Tricolor
    <3>2. ASSUME color'[y] = "black", NEW x \in Refs(y), Looks(x, youngOnly) PROVE color'[x] # "white"
      BY <1>5, <1>6, <1>7, <2>1, <2>3, <3>2 DEF Tricolor
    <3> QED
      BY <3>1, <3>2
  <2> QED
    BY <2>2, <2>3
<1>9. \A x \in gray' : x \in gray \/ x \in white
  BY <1>4
<1>10. \A x \in gray' : x \in gray \/ (x \in live /\ x \in Refs(o) /\ o \in live /\ Looks(x, youngOnly))
  BY <1>5, <1>9
<1>11. gray' \subseteq {x \in Obj : x \in gray \/ color'[x] # "white"}
  BY <1>5, <1>6, <1>9 DEF TypeOK
<1>12. \A x \in Obj : color'[x] # "white" =>
         color[x] # "white" \/ (x = o /\ o \in live) \/ (o \in live /\ x \in Refs(o) /\ Looks(x, youngOnly))
  BY <1>5, <1>6
<1> QED
  BY <1>6, <1>8, <1>10, <1>11, <1>12

-----------------------------------------------------------------------------
(* Script: no collection is under way but an incremental marking.          *)

LEMMA Scripted ==
  ASSUME IInv, HInv, Script
  PROVE  /\ TypeOK /\ pc = "run" /\ caller = "none" /\ minorPhase = "idle"
         /\ retained = {} /\ ~Requesting /\ Safe = live
<1>1. TypeOK /\ pc = "run" /\ caller = "none"
  BY DEF IInv, Control, Script
<1>2. minorPhase = "idle" /\ retained = {}
  BY <1>1 DEF HInv, Phases
<1> QED
  BY <1>1, <1>2, NoneDoomed DEF Requesting

LEMMA ScriptKeepsHInv ==
  ASSUME IInv, HInv, Script, UNCHANGED <<open, controlVars>>,
         \A r \in Root : root'[r] \in live \cup {Null},
         \A o \in live : Refs(o)' \subseteq live,
         \A o \in live : kind[o] # "struct" => Refs(o)' = Refs(o),
         Remembered',
         MajorMarking => Tricolor(FALSE)'
  PROVE  HInv'
<1> USE DEF sweepVars, phaseVars, controlVars
<1>1. /\ TypeOK /\ pc = "run" /\ caller = "none" /\ minorPhase = "idle"
      /\ retained = {} /\ ~Requesting /\ Safe = live
  BY Scripted
<1>2. UNCHANGED <<live, kind, gen, young, oldBytes, retained, sweepTodo, sweepKept, phase, minorPhase, pc, caller, req>>
  BY DEF Script
<1>3. Safe' = live /\ ~Requesting'
  BY <1>1, <1>2 DEF Safe, Doomed, Requesting
<1>4. KindsOnly'
  BY <1>2, <1>3 DEF HInv, KindsOnly
<1>5. Phases'
  BY <1>2 DEF HInv, Phases
<1>6. Lists'
  BY <1>2 DEF HInv, Lists, YoungListExact, OldBytesExact
<1>7. SafeClosed'
  BY <1>3 DEF SafeClosed
<1>8. Shapes'
  <2> SUFFICES ASSUME NEW o \in live
               PROVE  /\ kind[o] = "backing" => Refs(o)' = {}
                      /\ kind[o] = "string" => \A x \in Refs(o)' : kind[x] = "backing"
    BY <1>2, <1>3 DEF Shapes
  <2> QED
    BY <1>1 DEF HInv, Shapes
<1>9. MajorInv'
  BY <1>1, <1>2, <1>3 DEF MajorInv, MajorMarking
<1>10. MinorInv'
  BY <1>1, <1>2 DEF MinorInv
<1> QED
  BY <1>4, <1>5, <1>6, <1>7, <1>8, <1>9, <1>10 DEF HInv

(* Script that writes no object: what it moves was in a register or in an  *)
(* object it can reach.                                                    *)
LEMMA MoveKeepsHInv ==
  ASSUME IInv, HInv, Script, UNCHANGED <<field, open, pending, controlVars>>,
         NEW d \in Root, NEW v \in live \cup {Null}, root' = [root EXCEPT ![d] = v],
         MajorMarking => Tricolor(FALSE)'
  PROVE  HInv'
<1>1. /\ TypeOK /\ Safe = live /\ UNCHANGED <<live, gen, retained>>
  BY Scripted DEF Script
<1>2. \A o \in Obj : Refs(o)' = Refs(o)
  BY DEF Refs
<1>3. \A o \in live : Refs(o) \subseteq live
  BY <1>1 DEF HInv, SafeClosed
<1>4. \A r \in Root : root'[r] \in live \cup {Null}
  BY <1>1 DEF TypeOK, HInv, SafeClosed
<1>5. Remembered'
  BY <1>1, <1>2, Types DEF HInv, Remembered
<1> QED
  BY <1>1, <1>2, <1>3, <1>4, <1>5, Types, ScriptKeepsHInv

LEMMA StoreKeepsHInv ==
  ASSUME IInv, HInv, NEW d \in Reg, NEW f \in Field, NEW s \in Reg, Store(d, f, s)
  PROVE  HInv'
<1>1. /\ TypeOK /\ Safe = live /\ retained = {} /\ minorPhase = "idle"
      /\ UNCHANGED <<live, gen, retained, phase, minorPhase>>
  BY Scripted DEF Store, Script, phaseVars
<1>2. PICK t \in live, v \in live \cup {Null} :
        /\ t = root[d] /\ v = root[s]
        /\ t \in Obj /\ kind[t] = "struct" /\ field' = [field EXCEPT ![t][f] = v]
        /\ WriteBarrier(t, v)
  <2>1. root[d] \in live /\ root[d] \in Obj /\ kind[root[d]] = "struct"
    BY <1>1, Types DEF Store, InReg
  <2>2. root[s] \in live \cup {Null}
    BY <1>1, Types DEF HInv, SafeClosed
  <2> QED
    BY <2>1, <2>2 DEF Store
<1>3. /\ \A o \in Obj \ {t} : Refs(o)' = Refs(o)
      /\ \A x \in Refs(t)' : x \in Refs(t) \/ (x = v /\ v # Null)
  <2>1. /\ \A o \in Obj \ {t} : field'[o] = field[o]
        /\ \A g \in Field : field'[t][g] = IF g = f THEN v ELSE field[t][g]
    BY <1>1, <1>2 DEF TypeOK
  <2> QED
    BY <1>2, <2>1 DEF Refs
<1> DEFINE S == IF BarrierShades(t, v) THEN {v} ELSE {}
<1>4. ShadeGray(S) /\ S \in SUBSET Obj
  BY <1>1, <1>2, Types DEF WriteBarrier, BarrierShades
<1>5. pending' = IF Remembers(t, v) THEN pending \cup {t} ELSE pending
  BY <1>1, <1>2 DEF WriteBarrier
<1>6. \A o \in live : Refs(o) \subseteq live
  BY <1>1 DEF HInv, SafeClosed
<1>7. /\ BarrierShades(t, v) => S = {v}
      /\ \A o \in live : o \in Obj
  BY <1>1, Types
<1> HIDE DEF S
<1>8. Remembered'
  <2> SUFFICES ASSUME NEW o \in live, gen[o] = 1, NEW x \in Refs(o)', x \in live, gen[x] = 0
               PROVE  o \in pending'
    BY <1>1 DEF Remembered
  <2>1. CASE x \in Refs(o)
    BY <1>1, <1>5, <2>1 DEF HInv, Remembered
  <2>2. CASE o = t /\ x = v
    BY <1>2, <1>5, <2>2 DEF Remembers
  <2> QED
    BY <1>7, <1>3, <2>1, <2>2
<1>9. ASSUME MajorMarking PROVE Tricolor(FALSE)'
  <2>1. Tricolor(FALSE)
    BY <1>9 DEF HInv, MajorInv
  <2> SUFFICES ASSUME NEW o \in live
               PROVE  /\ color'[o] = "gray" => o \in gray'
                      /\ color'[o] = "black" => \A x \in Refs(o)' : color'[x] # "white"
    BY <1>1 DEF Tricolor
  <2>2. o \in Obj
    BY <1>1, Types
  <2>3. color'[o] = "gray" => o \in gray'
    BY <1>4, <2>1, <2>2, ShadeColors DEF Tricolor, Looks
  <2>4. ASSUME color'[o] = "black", NEW x \in Refs(o)' PROVE color'[x] # "white"
    <3>1. color[o] = "black"
      BY <1>4, <2>2, <2>4, ShadeColors
    <3>2. CASE x \in Refs(o)
      <4>1. color[x] # "white" /\ x \in Obj
        BY <1>1, <2>1, <2>2, <3>1, <3>2, RefsTypes DEF Tricolor, Looks
      <4> QED
        BY <1>4, <4>1, ShadeColors
    <3>3. CASE o = t /\ x = v /\ v # Null
      <4>1. v \in S /\ v \in Obj
        BY <1>7, <1>2, <1>9, <3>1, <3>3 DEF BarrierShades, MajorMarking
      <4>2. color[v] \in {"white", "gray", "black"}
        BY <1>1, <4>1, Types
      <4> QED
        BY <1>4, <3>3, <4>1, ShadeColors
    <3> QED
      BY <1>3, <2>2, <2>4, <3>2, <3>3
  <2> QED
    BY <2>3, <2>4
<1>10. \A o \in live : Refs(o)' \subseteq live
  BY <1>7, <1>2, <1>3, <1>6
<1>11. \A o \in live : kind[o] # "struct" => Refs(o)' = Refs(o)
  BY <1>7, <1>2, <1>3
<1>12. \A r \in Root : root'[r] \in live \cup {Null}
  BY <1>1 DEF Store, rootVars, HInv, SafeClosed
<1>13. Script /\ UNCHANGED <<open, controlVars>>
  BY DEF Store, rootVars
<1> QED
  BY <1>8, <1>9, <1>10, <1>11, <1>12, <1>13, ScriptKeepsHInv

LEMMA MutateKeepsHInv ==
  ASSUME IInv, HInv, Mutate
  PROVE  HInv'
<1>1. TypeOK /\ KindsOnly /\ SafeClosed /\ MajorInv
  BY DEF IInv, HInv
<1>2. ASSUME Script, UNCHANGED <<field, markVars>> PROVE MajorMarking => Tricolor(FALSE)'
  <2>1. \A o \in Obj : Refs(o)' = Refs(o)
    BY <1>2 DEF Refs
  <2> QED
    BY <1>1, <1>2, <2>1, Types DEF Script, MajorInv, Tricolor, Looks, markVars
<1>3. Script => \A r \in Root : root[r] \in live \cup {Null}
  BY <1>1, Scripted DEF SafeClosed
<1>4. ASSUME NEW d \in Reg, Clear(d) PROVE HInv'
  BY <1>1, <1>2, <1>4, MoveKeepsHInv, Types DEF Clear
<1>5. ASSUME NEW d \in Reg, NEW s \in Root, Move(d, s) PROVE HInv'
  BY <1>1, <1>2, <1>3, <1>5, MoveKeepsHInv, Types DEF Move
<1>6. ASSUME NEW d \in Reg, NEW s \in Reg, NEW f \in Field, Load(d, s, f) PROVE HInv'
  <2>1. root[s] \in live /\ Safe = live
    BY <1>6, Scripted DEF Load, InReg
  <2>2. field[root[s]][f] \in live \cup {Null}
    BY <1>1, <2>1 DEF SafeClosed, Refs
  <2> QED
    BY <1>1, <1>2, <1>6, <2>2, MoveKeepsHInv, Types DEF Load
<1>7. ASSUME NEW g \in Glob, NEW s \in Reg, SetGlobal(g, s) PROVE HInv'
  <2>1. root[s] \in live \cup {Null} /\ g \in Root
    BY <1>1, <1>3, <1>7, Types DEF SetGlobal, Root
  <2>2. ASSUME MajorMarking PROVE Tricolor(FALSE)'
    <3>1. PICK S \in SUBSET Obj : ShadeGray(S)
      BY <1>1, <1>7 DEF SetGlobal, WriteBarrierRoot, TypeOK
    <3> QED
      BY <1>1, <1>7, <2>2, <3>1, ShadeTricolor DEF SetGlobal, Script, MajorInv
  <2> QED
    BY <1>7, <2>1, <2>2, MoveKeepsHInv DEF SetGlobal
<1>8. ASSUME NEW t \in Reg, NEW s \in Reg, SumInit(t, s) PROVE FALSE
  BY <1>1, <1>8, Types DEF SumInit, InReg, KindsOnly, Kind
<1>9. ASSUME NEW d \in Reg, NEW c \in Reg, NEW u \in Obj, GetUpval(d, c, u) \/ SetUpval(c, u, d) PROVE FALSE
  BY <1>1, <1>9, Types DEF GetUpval, SetUpval, InReg, KindsOnly, Kind
<1>10. ASSUME NEW R \in SUBSET Reg, CloseUpvalues(R) PROVE FALSE
  BY <1>1, <1>10 DEF CloseUpvalues, KindsOnly
<1> QED
  BY <1>4, <1>5, <1>6, <1>7, <1>8, <1>9, <1>10, StoreKeepsHInv DEF Mutate

-----------------------------------------------------------------------------
(* Allocation and major collection: what changes is who runs, and marks.   *)

(* A step between minor collections that marks, or only calls or returns *)
LEMMA MajorKeepsHInv ==
  ASSUME HInv, minorPhase = "idle",
         UNCHANGED <<heapVars, rootVars, rememberedVars, sweepVars, minorPhase>>,
         KindsOnly', Phases', MajorInv'
  PROVE  HInv'
<1> USE DEF heapVars, rootVars, rememberedVars, sweepVars
<1>1. Safe = live /\ Safe' = live
  BY DEF Safe, Doomed
<1>2. \A o : Refs(o)' = Refs(o)
  BY DEF Refs
<1>3. Lists'
  BY DEF HInv, Lists, YoungListExact, OldBytesExact
<1>4. SafeClosed'
  BY <1>1, <1>2 DEF HInv, SafeClosed
<1>5. Shapes'
  BY <1>1, <1>2 DEF HInv, Shapes
<1>6. Remembered'
  BY <1>2 DEF HInv, Remembered
<1>7. MinorInv'
  BY DEF MinorInv
<1> QED
  BY <1>3, <1>4, <1>5, <1>6, <1>7 DEF HInv

(* The marks stay as they are. *)
LEMMA MarksKept ==
  ASSUME TypeOK, MajorInv, UNCHANGED <<heapVars, rootVars, markVars, phaseVars>>,
         pc' # "finish",
         MajorMarking /\ Requesting' /\ req'.kind = "string" => color[req'.init] # "white"
  PROVE  MajorInv'
<1>1. \A o : Refs(o)' = Refs(o)
  BY DEF Refs, heapVars
<1>2. MajorMarking' = MajorMarking
  BY DEF MajorMarking, phaseVars
<1>3. Tricolor(FALSE) => Tricolor(FALSE)'
  BY <1>1 DEF Tricolor, Looks, heapVars, markVars
<1> QED
  BY <1>2, <1>3 DEF MajorInv, markVars

(* The call of allocate *)
LEMMA BeginAllocKeepsHInv ==
  ASSUME IInv, HInv, NEW k \in {"struct", "backing"}, NEW d \in Reg, BeginAlloc(k, d, Null, Null)
  PROVE  HInv'
<1>1. /\ TypeOK /\ minorPhase = "idle"
      /\ UNCHANGED <<heapVars, rootVars, markVars, rememberedVars, sweepVars, phaseVars, caller>>
  BY Scripted DEF BeginAlloc, Script, heapVars, rootVars, markVars, rememberedVars
<1>2. pc' = "alloc" /\ req'.kind = k /\ req'.init = Null
  BY DEF BeginAlloc
<1>3. KindsOnly'
  BY <1>1, <1>2 DEF HInv, KindsOnly, Kind, heapVars, rootVars
<1>4. Phases'
  BY <1>1, <1>2 DEF HInv, Phases, phaseVars, rememberedVars
<1>5. MajorInv'
  BY <1>1, <1>2, MarksKept DEF HInv
<1> QED
  BY <1>1, <1>3, <1>4, <1>5, MajorKeepsHInv DEF phaseVars

LEMMA AllocateKeepsHInv ==
  ASSUME RecordsAndStrings, IInv, HInv, Allocate
  PROVE  HInv'
<1>1. ASSUME NEW d \in Reg, AllocPlain(d) \/ AllocString(d) PROVE HInv'
  <2>1. PICK k \in {"struct", "sum", "backing"} : BeginAlloc(k, d, Null, Null)
    BY <1>1 DEF AllocPlain, AllocString
  <2>2. k \in {"struct", "backing"}
    BY <2>1 DEF BeginAlloc, RecordsAndStrings
  <2> QED
    BY <2>1, <2>2, BeginAllocKeepsHInv
<1>2. ASSUME NEW d \in Reg, AllocClosure(d) PROVE FALSE
  BY <1>2 DEF AllocClosure, BeginAlloc, RecordsAndStrings
<1>3. ASSUME NEW d \in Reg, NEW s \in Reg, AllocView(d, s) PROVE FALSE
  BY <1>3 DEF AllocView, BeginAlloc, RecordsAndStrings
<1> QED
  BY <1>1, <1>2, <1>3 DEF Allocate

(* The request of the allocation in progress has a kind the program uses,  *)
(* and a string has its backing in the register it will be in.             *)
LEMMA RequestFacts ==
  ASSUME IInv, HInv, Requesting
  PROVE  /\ req.kind \in Kind /\ req.dest \in Reg /\ req.dest \in Root
         /\ req.kind # "string" => req.init = Null
         /\ req.kind = "string" =>
              /\ req.init = root[req.dest] /\ req.init # Null /\ req.init \in Safe
              /\ req.init \in Obj /\ kind[req.init] = "backing"
<1>1. req.dest \in Reg /\ req.dest \in Root
  BY DEF IInv, Control, Root
<1>2. root[req.dest] \in Safe \cup {Null} /\ root[req.dest] \in Obj \cup {Null}
  BY <1>1, Types DEF HInv, SafeClosed, IInv
<1> QED
  BY <1>1, <1>2 DEF HInv, KindsOnly

LEMMA ReserveKeepsHInv ==
  ASSUME IInv, HInv, Reserve
  PROVE  HInv'
<1> USE DEF heapVars, rootVars, markVars, rememberedVars, sweepVars, phaseVars
<1>1. /\ TypeOK /\ pc = "alloc" /\ Requesting /\ minorPhase = "idle"
      /\ UNCHANGED <<heapVars, rootVars, markVars, rememberedVars, sweepVars, phaseVars>>
  BY DEF IInv, HInv, Phases, Reserve, Requesting
<1>2. req'.kind = req.kind /\ req'.init = req.init /\ req'.dest = req.dest
  BY <1>1 DEF Reserve, TypeOK, Request
<1>3. pc' \in {"minor", "account"} /\ caller' \in {"none", "alloc"}
  BY DEF Reserve
<1>4. KindsOnly'
  BY <1>1, <1>2 DEF HInv, KindsOnly
<1>5. Phases'
  BY <1>1, <1>3 DEF HInv, Phases
<1>6. MajorInv'
  <2>1. MajorInv
    BY DEF HInv
  <2>2. MajorMarking /\ req.kind = "string" => color[req.init] # "white"
    BY <1>1, <2>1 DEF MajorInv
  <2> QED
    BY <1>1, <1>2, <1>3, <2>1, <2>2, MarksKept
<1> QED
  BY <1>1, <1>4, <1>5, <1>6, MajorKeepsHInv

LEMMA CollectMinorKeepsHInv ==
  ASSUME RecordsAndStrings, IInv, HInv, CollectMinor
  PROVE  HInv'
<1> USE DEF heapVars, rootVars, markVars, rememberedVars, sweepVars, phaseVars
<1>1. /\ TypeOK /\ minorPhase = "idle" /\ pc' = "minor" /\ caller' = "script"
      /\ UNCHANGED <<heapVars, rootVars, markVars, rememberedVars, sweepVars, phaseVars, req>>
  BY DEF IInv, HInv, Phases, CollectMinor, RecordsAndStrings
<1>2. ~Requesting'
  BY <1>1 DEF Requesting
<1>3. KindsOnly'
  BY <1>1, <1>2 DEF HInv, KindsOnly
<1>4. Phases'
  BY <1>1 DEF HInv, Phases
<1>5. MajorInv'
  BY <1>1, <1>2, MarksKept DEF HInv
<1> QED
  BY <1>1, <1>3, <1>4, <1>5, MajorKeepsHInv

(* start_major_gc and collect_major: everything is white but the roots. *)
LEMMA RootsGray ==
  ASSUME IInv, HInv, minorPhase = "idle",
         color' = Shaded(Whitened(live), RootTargets(FALSE)),
         RootTargets(FALSE) \subseteq gray',
         UNCHANGED <<live, field, gen, root>>
  PROVE  Tricolor(FALSE)' /\ RootsMarked(FALSE)'
<1>1. TypeOK /\ KindsOnly /\ SafeClosed /\ Safe = live
  BY NoneDoomed DEF IInv, HInv
<1>2. RootTargets(FALSE) = Roots \cap live /\ Roots = {root[r] : r \in Root} \ {Null}
  BY <1>1, RootsOnly DEF Looks
<1>3. \A o \in live : color'[o] = IF o \in RootTargets(FALSE) THEN "gray" ELSE "white"
  BY <1>1, Types DEF Shaded, Whitened
<1>4. Tricolor(FALSE)'
  BY <1>3 DEF Tricolor
<1>5. RootsMarked(FALSE)'
  <2> SUFFICES ASSUME NEW r \in Root, root[r] # Null PROVE color'[root[r]] # "white"
    BY DEF RootsMarked
  <2>1. root[r] \in live /\ root[r] \in Roots
    BY <1>1, <1>2 DEF SafeClosed
  <2> QED
    BY <1>2, <1>3, <2>1
<1> QED
  BY <1>4, <1>5

LEMMA OnAllocationKeepsHInv ==
  ASSUME IInv, HInv, OnAllocation
  PROVE  HInv'
<1> USE DEF heapVars, rootVars, rememberedVars, sweepVars
<1>1. /\ TypeOK /\ pc = "account" /\ Requesting /\ minorPhase = "idle" /\ caller = "none"
      /\ UNCHANGED <<heapVars, rootVars, rememberedVars, sweepVars, minorPhase, caller, req>>
  BY DEF IInv, Control, HInv, Phases, OnAllocation, Requesting
<1>2. pc' \in {"link", "mark"} /\ Requesting'
  BY DEF OnAllocation, Requesting
<1>3. KindsOnly'
  BY <1>1 DEF HInv, KindsOnly
<1>4. Phases'
  BY <1>1, <1>2 DEF HInv, Phases, OnAllocation
<1>5. MajorInv'
  <2>1. CASE LeavesMajorAlone
    <3>1. UNCHANGED <<markVars, phaseVars>>
      BY <1>1, <2>1 DEF OnAllocation, markVars, phaseVars
    <3> QED
      BY <1>1, <1>2, <3>1, MarksKept DEF HInv, MajorInv
  <2>2. CASE ~LeavesMajorAlone /\ StartsMajor
    <3>1. /\ color' = Shaded(Whitened(live), RootTargets(FALSE))
          /\ gray' = gray \cup Pushed(Whitened(live), RootTargets(FALSE))
      BY <2>2 DEF OnAllocation
    <3>2. RootTargets(FALSE) \subseteq gray'
      BY <1>1, <3>1, RootTargetsLive, Types DEF Pushed, Whitened
    <3>3. Tricolor(FALSE)' /\ RootsMarked(FALSE)'
      BY <1>1, <3>1, <3>2, RootsGray
    <3>4. req.kind = "string" => color'[req.init] # "white"
      BY <1>1, <3>3, RequestFacts DEF RootsMarked, Looks
    <3> QED
      BY <1>1, <3>3, <3>4 DEF MajorInv
  <2>3. CASE ~LeavesMajorAlone /\ ~StartsMajor
    <3>1. ShadeGray({}) /\ phase = "mark_incremental"
      BY <1>1, <2>3 DEF OnAllocation, ShadeGray, LeavesMajorAlone, HInv, Phases
    <3>2. /\ Tricolor(FALSE)
          /\ req.kind = "string" => color[req.init] # "white"
      BY <1>1, <3>1 DEF HInv, MajorInv, MajorMarking
    <3>3. Tricolor(FALSE)' /\ \A x \in Obj : color[x] # "white" => color'[x] # "white"
      BY <1>1, <3>1, <3>2, ShadeTricolor
    <3> QED
      BY <1>1, <1>2, <3>2, <3>3, RequestFacts DEF MajorInv
  <2> QED
    BY <2>1, <2>2, <2>3
<1> QED
  BY <1>1, <1>3, <1>4, <1>5, MajorKeepsHInv

LEMMA CollectMajorKeepsHInv ==
  ASSUME IInv, HInv, CollectMajor
  PROVE  HInv'
<1> USE DEF heapVars, rootVars, rememberedVars, sweepVars
<1>1. /\ TypeOK /\ minorPhase = "idle" /\ pc' = "finish" /\ caller' = "major" /\ phase' = "mark_incremental"
      /\ UNCHANGED <<heapVars, rootVars, rememberedVars, sweepVars, minorPhase, req>>
  BY DEF IInv, HInv, Phases, CollectMajor
<1>2. ~Requesting'
  BY <1>1 DEF Requesting
<1>3. KindsOnly'
  BY <1>1, <1>2 DEF HInv, KindsOnly
<1>4. Phases'
  BY <1>1 DEF HInv, Phases
<1>5. Tricolor(FALSE)' /\ RootsMarked(FALSE)'
  BY <1>1, RootsGray DEF CollectMajor
<1>6. MajorInv'
  BY <1>2, <1>5 DEF MajorInv
<1> QED
  BY <1>1, <1>3, <1>4, <1>6, MajorKeepsHInv

(* One object traced *)
LEMMA MajorPopKeepsHInv ==
  ASSUME IInv, HInv, NEW o \in Obj, MarkStep(o) \/ Drain(o) \/ CompleteMajor(o)
  PROVE  HInv'
<1> USE DEF heapVars, rootVars, rememberedVars, sweepVars
<1>1. /\ TypeOK /\ minorPhase = "idle" /\ phase = "mark_incremental" /\ PopGray(o, FALSE)
      /\ UNCHANGED <<heapVars, rootVars, rememberedVars, sweepVars, minorPhase, phase, pc, caller, req>>
  BY DEF IInv, Sweeping, HInv, Phases, MarkStep, Drain, CompleteMajor, InMinor, phaseVars, controlVars
<1>2. KindsOnly'
  BY <1>1 DEF HInv, KindsOnly, Requesting
<1>3. Phases'
  BY <1>1 DEF HInv, Phases
<1>4. KindsOnly /\ SafeClosed /\ Shapes /\ Tricolor(FALSE) /\ MajorInv /\ MajorMarking
  BY <1>1 DEF HInv, MajorInv, MajorMarking
<1>5. Tricolor(FALSE)' /\ \A x \in Obj : color[x] # "white" => color'[x] # "white"
  BY <1>1, <1>4, PopTricolor
<1>6. Requesting' = Requesting
  BY <1>1 DEF Requesting
<1>7. Requesting /\ req.kind = "string" => color'[req.init] # "white"
  BY <1>4, <1>5, RequestFacts DEF MajorInv
<1>8. RootsMarked(FALSE) => RootsMarked(FALSE)'
  BY <1>1, <1>5, Types DEF RootsMarked, Looks
<1>9. MajorInv'
  BY <1>1, <1>4, <1>5, <1>6, <1>7, <1>8 DEF MajorInv
<1> QED
  BY <1>1, <1>2, <1>3, <1>9, MajorKeepsHInv

(* The end of marking: the roots are scanned again. *)
LEMMA RescanKeepsHInv ==
  ASSUME IInv, HInv, MarkStepReturns \/ CompleteMajorReturns
  PROVE  HInv'
<1> USE DEF heapVars, rootVars, rememberedVars, sweepVars
<1>1. /\ TypeOK /\ minorPhase = "idle" /\ phase = "mark_incremental"
      /\ UNCHANGED <<heapVars, rootVars, rememberedVars, sweepVars, minorPhase, phase, caller, req>>
      /\ \/ pc' = "finish" /\ ShadeGray(RootTargets(FALSE))
         \/ pc' = "link" /\ UNCHANGED markVars
      /\ pc = "mark" \/ (pc = "minor" /\ pc' = "finish")
  BY DEF IInv, Sweeping, HInv, Phases, MarkStepReturns, CompleteMajorReturns, InMinor, phaseVars, Rescan
<1>2. Requesting' => Requesting
  BY <1>1 DEF Requesting, IInv, Control
<1>3. KindsOnly'
  BY <1>1, <1>2 DEF HInv, KindsOnly
<1>4. Phases'
  BY <1>1 DEF HInv, Phases
<1>5. KindsOnly /\ SafeClosed /\ Tricolor(FALSE) /\ MajorInv /\ MajorMarking /\ Safe = live
  BY <1>1, NoneDoomed DEF HInv, MajorInv, MajorMarking
<1>6. MajorInv'
  <2>1. CASE pc' = "link" /\ UNCHANGED markVars
    BY <1>1, <1>2, <1>5, <2>1, MarksKept DEF MajorInv, phaseVars
  <2>2. CASE pc' = "finish" /\ ShadeGray(RootTargets(FALSE))
    <3>1. RootTargets(FALSE) = Roots \cap live /\ Roots = {root[r] : r \in Root} \ {Null}
      BY <1>1, <1>5, RootsOnly DEF Looks
    <3>2. RootTargets(FALSE) \in SUBSET Obj
      BY <1>1, <3>1, Types
    <3>3. /\ Tricolor(FALSE)'
          /\ \A x \in Obj : color[x] # "white" \/ x \in RootTargets(FALSE) => color'[x] # "white"
      BY <1>1, <1>5, <2>2, <3>2, ShadeTricolor
    <3>4. RootsMarked(FALSE)'
      BY <1>1, <1>5, <3>1, <3>2, <3>3 DEF RootsMarked, SafeClosed
    <3>5. Requesting /\ req.kind = "string" => color'[req.init] # "white"
      BY <1>5, <3>3, RequestFacts DEF MajorInv
    <3> QED
      BY <1>1, <1>2, <3>3, <3>4, <3>5 DEF MajorInv
  <2> QED
    BY <1>1, <2>1, <2>2
<1> QED
  BY <1>1, <1>3, <1>4, <1>6, MajorKeepsHInv

(* The new object: nothing points to it, and it points to its backing if   *)
(* anything, which is in the register it takes.                            *)
LEMMA LinkKeepsHInv ==
  ASSUME IInv, HInv, Link
  PROVE  HInv'
<1>1. /\ TypeOK /\ minorPhase = "idle" /\ pc = "link" /\ Requesting /\ caller = "none" /\ Safe = live
      /\ UNCHANGED <<oldBytes, gray, pending, retained, sweepTodo, sweepKept, phase, minorPhase, caller>>
  BY NoneDoomed DEF IInv, Control, HInv, Phases, Link, Requesting, rememberedVars, sweepVars, phaseVars
<1>2. PICK a \in Obj : a = req.addr /\ a \notin live
  BY <1>1 DEF IInv, Control, Reserved
<1>3. PICK d \in Reg : d = req.dest /\ d \in Root
  BY <1>1, RequestFacts
<1>4. PICK k \in Kind, v \in live \cup {Null} :
        /\ k = req.kind /\ v = req.init
        /\ k # "string" => v = Null
        /\ k = "string" => v \in live /\ v \in Obj /\ kind[v] = "backing" /\ v = root[d]
  BY <1>1, <1>3, RequestFacts
<1>5. a # Null /\ a \notin live
  BY <1>2, SlotAssumption DEF SlotAssumption
<1>6. /\ live' = live \cup {a} /\ young' = young \cup {a}
      /\ kind' = [kind EXCEPT ![a] = k] /\ gen' = [gen EXCEPT ![a] = 0]
      /\ color' = [color EXCEPT ![a] = IF phase = "mark_incremental" THEN "black" ELSE "white"]
      /\ field' = [field EXCEPT ![a] = [f \in Field |-> v]]
      /\ root' = [root EXCEPT ![d] = a] /\ open' = open
      /\ IF k = "backing" THEN pc' = "alloc" /\ req' = [NoReq EXCEPT !.kind = "string", !.dest = d, !.init = a]
                          ELSE pc' = "run" /\ req' = NoReq
  <2>1. k # "closure" /\ k # "upvalue" /\ k # "sum"
    BY DEF Kind
  <2>2. /\ live' = live \cup {a} /\ young' = young \cup {a}
        /\ kind' = [kind EXCEPT ![a] = k] /\ gen' = [gen EXCEPT ![a] = 0]
        /\ color' = [color EXCEPT ![a] = IF phase = "mark_incremental" THEN "black" ELSE "white"]
    BY <1>2, <1>4 DEF Link
  <2>3. CASE k = "backing"
    BY <1>2, <1>3, <1>4, <2>1, <2>2, <2>3 DEF Link
  <2>4. CASE k \in {"struct", "string"}
    BY <1>2, <1>3, <1>4, <2>1, <2>2, <2>4 DEF Link
  <2> QED
    BY <2>2, <2>3, <2>4 DEF Kind
<1>7. /\ \A o \in Obj \ {a} : /\ kind'[o] = kind[o] /\ gen'[o] = gen[o] /\ color'[o] = color[o]
                              /\ Refs(o)' = Refs(o)
      /\ kind'[a] = k /\ gen'[a] = 0 /\ (phase = "mark_incremental" => color'[a] = "black")
      /\ \A x \in Refs(a)' : x = v /\ v # Null
  <2>1. /\ kind \in [Obj -> AllKinds] /\ gen \in [Obj -> {0, 1}] /\ color \in [Obj -> {"white", "gray", "black"}]
        /\ field \in [Obj -> [Field -> Obj \cup {Null}]]
    BY <1>1 DEF TypeOK
  <2>2. /\ \A o \in Obj \ {a} : field'[o] = field[o]
        /\ field'[a] = [f \in Field |-> v]
    BY <1>6, <2>1
  <2> QED
    BY <1>6, <2>1, <2>2 DEF Refs
<1>8. \A o \in live : o \in Obj /\ o # a
  BY <1>1, <1>2, Types
<1>9. /\ \A o \in live : Refs(o) \subseteq live
      /\ \A r \in Root : root[r] \in live \cup {Null}
  BY <1>1 DEF HInv, SafeClosed
<1>10. Safe' = live'
  BY <1>1, <1>6 DEF Safe, Doomed
<1>11. KindsOnly'
  <2>1. \A o \in Obj : kind'[o] \in Kind
    BY <1>7 DEF HInv, KindsOnly
  <2>2. \A r \in Reg : open'[r] = Null
    BY <1>6 DEF HInv, KindsOnly
  <2>3. CASE k = "backing"
    <3>1. req'.kind = "string" /\ req'.init = a /\ req'.dest = d /\ root'[d] = a
      BY <1>1, <1>3, <1>6, <2>3 DEF NoReq, TypeOK
    <3> QED
      BY <1>5, <1>7, <2>1, <2>2, <2>3, <3>1 DEF KindsOnly, Kind
  <2>4. CASE k # "backing"
    <3>1. ~Requesting'
      BY <1>1, <1>6, <2>4 DEF Requesting
    <3> QED
      BY <2>1, <2>2, <3>1 DEF KindsOnly
  <2> QED
    BY <2>3, <2>4
<1>12. Phases'
  BY <1>1, <1>6 DEF HInv, Phases
<1>13. Lists'
  <2>1. young' = {o \in live' : gen'[o] = 0}
    BY <1>6, <1>7, <1>8 DEF HInv, Lists, YoungListExact
  <2>2. {o \in live' : gen'[o] = 1} = {o \in live : gen[o] = 1}
    BY <1>6, <1>7, <1>8
  <2> QED
    BY <1>1, <2>1, <2>2 DEF HInv, Lists, YoungListExact, OldBytesExact
<1>14. SafeClosed'
  <2>1. \A r \in Root : root'[r] \in live' \cup {Null}
    BY <1>1, <1>6, <1>9 DEF TypeOK
  <2>2. \A o \in live' : Refs(o)' \subseteq live'
    BY <1>6, <1>7, <1>8, <1>9
  <2> QED
    BY <1>10, <2>1, <2>2 DEF SafeClosed
<1>15. Shapes'
  <2> SUFFICES ASSUME NEW o \in live'
               PROVE  /\ kind'[o] = "backing" => Refs(o)' = {}
                      /\ kind'[o] = "string" => \A x \in Refs(o)' : kind'[x] = "backing"
    BY <1>10 DEF Shapes
  <2>1. CASE o = a
    BY <1>4, <1>7, <1>8, <2>1
  <2>2. CASE o \in live
    BY <1>1, <1>7, <1>8, <1>9, <2>2 DEF HInv, Shapes
  <2> QED
    BY <1>6, <2>1, <2>2
<1>16. Remembered'
  <2> SUFFICES ASSUME NEW o \in live', gen'[o] = 1, NEW x \in Refs(o)', gen'[x] = 0
               PROVE  o \in pending \cup retained
    BY <1>1 DEF Remembered
  <2>1. o \in live /\ o # a
    BY <1>6, <1>7
  <2>2. x \in Refs(o) /\ x \in live /\ gen[x] = 0 /\ gen[o] = 1
    BY <1>7, <1>8, <1>9, <2>1
  <2> QED
    BY <2>1, <2>2 DEF HInv, Remembered
<1>17. MajorInv'
  <2> SUFFICES ASSUME MajorMarking
               PROVE  /\ Tricolor(FALSE)'
                      /\ Requesting' /\ req'.kind = "string" => color'[req'.init] # "white"
                      /\ pc' # "finish"
    BY <1>1 DEF MajorInv, MajorMarking
  <2>1. Tricolor(FALSE) /\ (k = "string" => color[v] # "white") /\ color'[a] = "black"
    BY <1>1, <1>4, <1>7 DEF HInv, MajorInv, MajorMarking
  <2>2. Tricolor(FALSE)'
    <3> SUFFICES ASSUME NEW o \in live'
                 PROVE  /\ color'[o] = "gray" => o \in gray
                        /\ color'[o] = "black" => \A x \in Refs(o)' : color'[x] # "white"
      BY <1>1 DEF Tricolor
    <3>1. CASE o = a
      BY <1>4, <1>7, <1>8, <2>1, <3>1
    <3>2. CASE o \in live
      BY <1>7, <1>8, <1>9, <2>1, <3>2 DEF Tricolor, Looks
    <3> QED
      BY <1>6, <3>1, <3>2
  <2>3. ASSUME Requesting', req'.kind = "string" PROVE color'[req'.init] # "white"
    <3>1. k = "backing"
      BY <1>1, <1>6, <2>3 DEF Requesting
    <3> QED
      BY <1>6, <2>1, <3>1 DEF NoReq
  <2>4. pc' # "finish"
    BY <1>6
  <2> QED
    BY <2>2, <2>3, <2>4
<1>18. MinorInv'
  BY <1>1 DEF MinorInv
<1> QED
  BY <1>11, <1>12, <1>13, <1>14, <1>15, <1>16, <1>17, <1>18 DEF HInv

(* When marking is over what is white is not a root, and no object that    *)
(* stays points to it.                                                     *)
LEMMA WhiteUnreached ==
  ASSUME IInv, HInv, SweepAll
  PROVE  /\ \A r \in Root : root[r] # Null => root[r] \in live /\ color[root[r]] # "white"
         /\ \A o \in live : color[o] # "white" => \A x \in Refs(o) : x \in live /\ color[x] # "white"
<1>1. /\ TypeOK /\ minorPhase = "idle" /\ pc = "finish" /\ phase = "mark_incremental" /\ gray = {}
      /\ Safe = live
  BY NoneDoomed DEF IInv, Sweeping, HInv, Phases, SweepAll
<1>2. Tricolor(FALSE) /\ RootsMarked(FALSE)
  BY <1>1 DEF HInv, MajorInv, MajorMarking
<1>3. /\ \A r \in Root : root[r] \in live \cup {Null}
      /\ \A o \in live : Refs(o) \subseteq live
  BY <1>1 DEF HInv, SafeClosed
<1>4. \A o \in live : color[o] # "white" => color[o] = "black"
  BY <1>1, <1>2, Types DEF Tricolor, Looks
<1> QED
  BY <1>2, <1>3, <1>4 DEF Tricolor, RootsMarked, Looks

LEMMA SweepAllKeepsHInv ==
  ASSUME IInv, HInv, SweepAll
  PROVE  HInv'
<1>1. /\ TypeOK /\ minorPhase = "idle" /\ pc = "finish" /\ Safe = live
      /\ UNCHANGED <<root, open, pending, retained, sweepTodo, sweepKept, minorPhase, req>>
      /\ phase' = "idle"
  BY NoneDoomed DEF IInv, Sweeping, HInv, Phases, SweepAll, rootVars, rememberedVars, sweepVars
<1>2. \A o : o \in live' <=> o \in live /\ color[o] # "white"
  BY DEF SweepAll, Wiped
<1>3. \A o \in live' : /\ gen'[o] = gen[o] /\ kind'[o] = kind[o] /\ Refs(o)' = Refs(o)
                       /\ o \in Obj /\ o \in live
  <2>1. \A o \in live' : o \in live /\ o \in Obj /\ o \notin {x \in live : color[x] = "white"}
    BY <1>1, <1>2, Types
  <2>2. \A o \in live' : gen'[o] = gen[o] /\ kind'[o] = kind[o] /\ field'[o] = field[o]
    BY <2>1 DEF SweepAll, Wiped
  <2> QED
    BY <2>1, <2>2 DEF Refs
<1>4. /\ \A r \in Root : root'[r] \in live' \cup {Null}
      /\ \A o \in live' : Refs(o) \subseteq live'
  BY <1>1, <1>2, WhiteUnreached
<1>5. Safe' = live'
  BY <1>1 DEF Safe, Doomed
<1>6. pc' \in {"link", "run", "minor"} /\ (Requesting' => Requesting) /\ caller' # "step"
  BY <1>1 DEF SweepAll, Requesting, HInv, Phases, IInv, Control
<1>7. KindsOnly'
  <2>1. \A o \in Obj : kind'[o] \in Kind
    BY <1>1 DEF HInv, KindsOnly, SweepAll, Wiped, Kind
  <2>2. ASSUME Requesting'
        PROVE  /\ req.kind \in Kind
               /\ req.kind # "string" => req.init = Null
               /\ req.kind = "string" =>
                    req.init = root[req.dest] /\ req.init # Null /\ kind'[req.init] = "backing"
    <3>1. req.kind = "string" => req.init \in live'
      BY <1>1, <1>4, <1>6, <2>2, RequestFacts
    <3> QED
      BY <1>3, <1>6, <2>2, <3>1, RequestFacts
  <2> QED
    BY <1>1, <2>1, <2>2 DEF HInv, KindsOnly
<1>8. Phases'
  BY <1>1, <1>6 DEF HInv, Phases
<1>9. Lists'
  <2>1. young' = {o \in live' : gen'[o] = 0}
    BY <1>3 DEF SweepAll
  <2>2. oldBytes' = Cardinality({o \in live' : gen'[o] = 1})
    <3>1. {o \in live' : gen[o] = 1} = {o \in live' : gen'[o] = 1}
      BY <1>3
    <3> QED
      BY <3>1 DEF SweepAll, OldSize
  <2> QED
    BY <1>1, <2>1, <2>2 DEF Lists, YoungListExact, OldBytesExact
<1>10. SafeClosed'
  BY <1>3, <1>4, <1>5 DEF SafeClosed
<1>11. Shapes'
  BY <1>1, <1>3, <1>4, <1>5 DEF HInv, Shapes
<1>12. Remembered'
  BY <1>1, <1>3, <1>4 DEF HInv, Remembered
<1>13. MajorInv' /\ MinorInv'
  BY <1>1 DEF MajorInv, MajorMarking, MinorInv
<1> QED
  BY <1>7, <1>8, <1>9, <1>10, <1>11, <1>12, <1>13 DEF HInv

-----------------------------------------------------------------------------
(* The minor collection, up to the sweep                                    *)

(* What the anchors reach is made of what they point to, step by step. *)
LEMMA AnchoredSteps ==
  ASSUME TypeOK
  PROVE  /\ \A x \in Anchors : Anchored(x)
         /\ \A o \in Obj : Anchored(o) => \A x \in Refs(o) : Anchored(x)
         /\ UNCHANGED <<live, gen, root, open, field>> => \A o : Anchored(o)' = Anchored(o)
<1>1. \A x \in Anchors : Anchored(x)
  BY DEF Anchored, AnchorClosed
<1>2. \A o \in Obj : Anchored(o) => \A x \in Refs(o) : Anchored(x)
  BY DEF Anchored, AnchorClosed
<1>3. ASSUME UNCHANGED <<live, gen, root, open, field>>, NEW o PROVE Anchored(o)' = Anchored(o)
  <2>1. Anchors' = Anchors
    BY <1>3 DEF Anchors, Roots
  <2>2. \A x : Refs(x)' = Refs(x)
    BY <1>3 DEF Refs
  <2>3. \A S : AnchorClosed(S)' <=> AnchorClosed(S)
    BY <2>1, <2>2 DEF AnchorClosed
  <2> QED
    BY <2>3 DEF Anchored
<1> QED
  BY <1>1, <1>2, <1>3

LEMMA BeginMinorKeepsHInv ==
  ASSUME IInv, HInv, BeginMinor
  PROVE  HInv'
<1> USE DEF heapVars, rootVars, controlVars
<1>1. /\ TypeOK /\ minorPhase = "idle" /\ pc = "minor" /\ retained = {} /\ Safe = live
      /\ minorPhase' = "mark_roots" /\ retained' = {} /\ gray' = {}
      /\ sweepTodo' = young /\ sweepKept' = FALSE
      /\ UNCHANGED <<heapVars, rootVars, pending, phase, controlVars>>
  BY NoneDoomed DEF IInv, HInv, Phases, BeginMinor, InMinor
<1>2. Safe' = live
  BY <1>1 DEF Safe, Doomed
<1>3. \A o : Refs(o)' = Refs(o)
  BY <1>1 DEF Refs
<1>4. KindsOnly'
  BY <1>1 DEF HInv, KindsOnly, Requesting
<1>5. Phases'
  BY <1>1 DEF HInv, Phases
<1>6. Lists'
  BY <1>1 DEF HInv, Lists, YoungListExact, OldBytesExact
<1>7. SafeClosed' /\ Shapes'
  BY <1>1, <1>2, <1>3 DEF HInv, SafeClosed, Shapes
<1>8. Remembered'
  BY <1>1, <1>3 DEF HInv, Remembered
<1>9. MajorInv'
  BY <1>1 DEF MajorInv, MajorMarking
<1>10. MinorInv'
  <2>1. \A o \in young : o \in live /\ gen[o] = 0 /\ o \in Obj
    BY <1>1, Types DEF IInv, Sweeping
  <2>2. \A o \in young : color'[o] = "white"
    BY <2>1 DEF BeginMinor, Whitened
  <2> QED
    BY <1>1, <2>2 DEF MinorInv
<1> QED
  BY <1>4, <1>5, <1>6, <1>7, <1>8, <1>9, <1>10 DEF HInv

(* A step of the marking: what changes is the marks and what is remembered. *)
LEMMA MinorKeepsHInv ==
  ASSUME HInv, minorPhase \in {"mark_roots", "scan_remembered", "trace_gray"},
         minorPhase' \in {"scan_remembered", "trace_gray"},
         UNCHANGED <<heapVars, rootVars, sweepVars, controlVars>>,
         minorPhase' = "trace_gray" => retained' = {},
         Remembered', MinorInv'
  PROVE  HInv'
<1> USE DEF heapVars, rootVars, sweepVars, controlVars
<1>1. Safe = live /\ Safe' = live
  BY DEF Safe, Doomed
<1>2. \A o : Refs(o)' = Refs(o)
  BY DEF Refs
<1>3. KindsOnly'
  BY DEF HInv, KindsOnly, Requesting
<1>4. Phases'
  BY DEF HInv, Phases
<1>5. Lists'
  BY DEF HInv, Lists, YoungListExact, OldBytesExact
<1>6. SafeClosed' /\ Shapes'
  BY <1>1, <1>2 DEF HInv, SafeClosed, Shapes
<1>7. MajorInv'
  BY DEF MajorInv, MajorMarking
<1> QED
  BY <1>3, <1>4, <1>5, <1>6, <1>7 DEF HInv

LEMMA MinorMarkRootsKeepsHInv ==
  ASSUME IInv, HInv, MinorMarkRoots
  PROVE  HInv'
<1> USE DEF heapVars, rootVars, rememberedVars
<1>1. /\ TypeOK /\ KindsOnly /\ minorPhase = "mark_roots" /\ minorPhase' = "scan_remembered"
      /\ Safe = live /\ retained = {} /\ gray = {} /\ \A o \in young : color[o] = "white"
      /\ ShadeGray(RootTargets(TRUE))
      /\ UNCHANGED <<heapVars, rootVars, rememberedVars, sweepVars, controlVars>>
  BY NoneDoomed DEF IInv, HInv, Phases, MinorInv, MinorMarkRoots, InMinor
<1>2. RootTargets(TRUE) = {x \in Roots \cap live : gen[x] = 0} /\ Roots = {root[r] : r \in Root} \ {Null}
  BY <1>1, RootsOnly DEF Looks
<1>3. \A x : x \in RootTargets(TRUE) => x \in young /\ x \in Obj /\ x \in Roots
  BY <1>1, <1>2, Types DEF HInv, Lists, YoungListExact
<1>4. /\ \A o \in live : Refs(o) \subseteq live /\ o \in Obj
      /\ \A r \in Root : root[r] \in live \cup {Null}
      /\ \A o : Refs(o)' = Refs(o)
      /\ \A o \in live : gen[o] = 0 => o \in young
  BY <1>1, Types DEF HInv, SafeClosed, Refs, Lists, YoungListExact
<1>5. RootTargets(TRUE) \in SUBSET Obj
  BY <1>3
<1>6. \A x \in Obj : /\ x \in young /\ color'[x] # "white" => color'[x] = "gray" /\ x \in RootTargets(TRUE) /\ x \in gray'
                     /\ x \in RootTargets(TRUE) => color'[x] # "white"
                     /\ x \in gray' => x \in RootTargets(TRUE)
  BY <1>1, <1>3, <1>5, ShadeColors
<1>7. MinorInv'
  <2>1. Tricolor(TRUE)'
    <3> SUFFICES ASSUME NEW o \in live, gen[o] = 0
                 PROVE  /\ color'[o] = "gray" => o \in gray'
                        /\ color'[o] # "black"
      BY <1>1, <1>4 DEF Tricolor, Looks
    <3> QED
      BY <1>4, <1>6
  <2>2. gray' \subseteq {o \in young' : color'[o] # "white"}
    <3>1. gray' \subseteq RootTargets(TRUE)
      BY <1>1, <1>5, ShadeColors
    <3> QED
      BY <1>1, <1>3, <1>6, <3>1
  <2>3. RootsMarked(TRUE)'
    <3> SUFFICES ASSUME NEW r \in Root, root[r] # Null, gen[root[r]] = 0 PROVE color'[root[r]] # "white"
      BY <1>1 DEF RootsMarked, Looks
    <3>1. root[r] \in live /\ root[r] \in Roots
      BY <1>2, <1>4
    <3>2. root[r] \in RootTargets(TRUE)
      BY <1>2, <3>1
    <3> QED
      BY <1>3, <1>6, <3>2
  <2>4. \A o \in live \ pending : gen[o] = 1 => \A x \in Refs(o) : gen[x] # 0
    BY <1>1, <1>4 DEF HInv, Remembered
  <2>5. \A o \in young : color'[o] # "white" => Anchored(o)
    <3> SUFFICES ASSUME NEW o \in young, color'[o] # "white" PROVE Anchored(o)
      OBVIOUS
    <3>1. o \in RootTargets(TRUE)
      BY <1>1, <1>6 DEF TypeOK
    <3> QED
      BY <1>1, <1>3, <3>1, AnchoredSteps DEF Anchors
  <2>6. ToScan' = pending
    BY <1>1 DEF ToScan
  <2> HIDE DEF HInv
  <2>7. \A o : Anchored(o)' = Anchored(o)
    BY <1>1, AnchoredSteps
  <2> QED
    BY <1>1, <1>4, <2>1, <2>2, <2>3, <2>4, <2>5, <2>6, <2>7 DEF MinorInv
<1>8. Remembered'
  BY <1>1, <1>4 DEF HInv, Remembered
<1> QED
  BY <1>1, <1>7, <1>8, MinorKeepsHInv

(* One entry of the remembered set *)
LEMMA ScanRememberedKeepsHInv ==
  ASSUME IInv, HInv, NEW o \in Obj, ScanRemembered(o)
  PROVE  HInv'
<1> USE DEF heapVars, rootVars
<1>1. /\ TypeOK /\ KindsOnly /\ SafeClosed /\ Shapes /\ Remembered /\ Safe = live
      /\ minorPhase = "scan_remembered" /\ minorPhase' = "scan_remembered"
      /\ Tricolor(TRUE) /\ RootsMarked(TRUE) /\ gray \subseteq {x \in young : color[x] # "white"}
      /\ \A y \in live \ pending : gen[y] = 1 => \A x \in Refs(y) : gen[x] = 0 => color[x] # "white"
      /\ \A x \in young : color[x] # "white" => Anchored(x)
      /\ UNCHANGED <<heapVars, rootVars, sweepVars, controlVars>>
  BY NoneDoomed DEF IInv, HInv, MinorInv, ToScan, ScanRemembered, InMinor
<1>2. /\ \A y \in live : Refs(y) \subseteq live /\ y \in Obj
      /\ \A y : Refs(y)' = Refs(y)
      /\ \A y \in Obj : Refs(y) \subseteq Obj
      /\ \A y \in live : gen[y] = 0 => y \in young
  BY <1>1, Types, RefsTypes DEF SafeClosed, Refs, HInv, Lists, YoungListExact
<1>3. PICK found \in SUBSET Obj :
        /\ found = IF ScanValid(o) THEN TraceTargets(o, TRUE) ELSE {}
        /\ \A x \in found : x \in live /\ x \in young /\ gen[x] = 0 /\ x \in Refs(o) /\ o \in live /\ gen[o] = 1
        /\ o \in live /\ gen[o] = 1 => \A x \in Refs(o) : gen[x] = 0 => x \in found
  <2>1. TraceTargets(o, TRUE) = {x \in Refs(o) \cap live : gen[x] = 0}
    BY <1>1, TracedIsRefs DEF Looks
  <2> DEFINE F == IF ScanValid(o) THEN TraceTargets(o, TRUE) ELSE {}
  <2>2. /\ F \in SUBSET Obj
        /\ \A x \in F : x \in live /\ x \in young /\ gen[x] = 0 /\ x \in Refs(o) /\ o \in live /\ gen[o] = 1
        /\ o \in live /\ gen[o] = 1 => \A x \in Refs(o) : gen[x] = 0 => x \in F
    BY <1>2, <2>1 DEF ScanValid
  <2> QED
    BY <2>2
<1>4. PICK white \in SUBSET Obj, direct \in SUBSET Obj :
        /\ white = {x \in found : color[x] = "white"}
        /\ direct = {x \in white : kind[o] = "string"}
        /\ o \in pending /\ pending' = pending \ {o}
        /\ retained' = IF found # {} THEN retained \cup {o} ELSE retained
        /\ color' = [x \in Obj |-> IF x \in direct THEN "black" ELSE IF x \in white THEN "gray" ELSE color[x]]
        /\ gray' = gray \cup (white \ direct)
  <2> DEFINE W == {x \in found : color[x] = "white"}
             D == {x \in W : kind[o] = "string"}
  <2>1. W \in SUBSET Obj /\ D \in SUBSET Obj
    OBVIOUS
  <2>2. /\ o \in pending /\ pending' = pending \ {o}
        /\ retained' = IF found # {} THEN retained \cup {o} ELSE retained
        /\ color' = [x \in Obj |-> IF x \in D THEN "black" ELSE IF x \in W THEN "gray" ELSE color[x]]
        /\ gray' = gray \cup (W \ D)
    BY <1>3 DEF ScanRemembered, Advanced
  <2> HIDE DEF W, D
  <2> QED
    BY <2>1, <2>2 DEF W, D
<1>5. /\ \A x \in direct : x \in white /\ Refs(x) = {}
      /\ \A x \in white : x \in found /\ x \in young /\ gen[x] = 0
      /\ \A x \in found : x \in white \/ color[x] # "white"
  <2>1. \A x \in direct : x \in white /\ kind[x] = "backing" /\ x \in live
    BY <1>1, <1>3, <1>4 DEF Shapes
  <2> QED
    BY <1>1, <1>3, <1>4, <2>1 DEF Shapes
<1>6. \A x \in Obj : /\ color[x] # "white" => color'[x] = color[x]
                     /\ x \in found => color'[x] # "white"
                     /\ color'[x] # "white" => color[x] # "white" \/ x \in found
                     /\ color'[x] = "gray" => color[x] = "gray" \/ x \in gray'
                     /\ color'[x] = "black" => color[x] = "black" \/ x \in direct
  BY <1>4, <1>5
<1>7. MinorInv'
  <2>1. Tricolor(TRUE)'
    <3> SUFFICES ASSUME NEW y \in live, gen[y] = 0
                 PROVE  /\ color'[y] = "gray" => y \in gray'
                        /\ color'[y] = "black" => \A x \in Refs(y) : gen[x] = 0 => color'[x] # "white"
      BY <1>1, <1>2 DEF Tricolor, Looks
    <3>1. /\ y \in Obj /\ Refs(y) \subseteq Obj
          /\ color[y] = "gray" => y \in gray
          /\ color[y] = "black" => \A x \in Refs(y) : gen[x] = 0 => color[x] # "white"
      BY <1>1, <1>2 DEF Tricolor, Looks
    <3> QED
      BY <1>4, <1>5, <1>6, <3>1
  <2>2. gray' \subseteq {x \in young' : color'[x] # "white"}
    <3>1. \A x \in gray : x \in young /\ color[x] # "white" /\ x \in Obj
      BY <1>1 DEF TypeOK
    <3>2. \A x \in gray' : x \in gray \/ x \in white
      BY <1>4
    <3> QED
      BY <1>1, <1>5, <1>6, <3>1, <3>2
  <2>3. RootsMarked(TRUE)'
    BY <1>1, <1>6, Types DEF RootsMarked, Looks
  <2>4. \A y \in live \ (pending \ {o}) : gen[y] = 1 => \A x \in Refs(y) : gen[x] = 0 => color'[x] # "white"
    BY <1>1, <1>2, <1>3, <1>6
  <2>5. \A x \in young : color'[x] # "white" => Anchored(x)
    <3> SUFFICES ASSUME NEW x \in young, color'[x] # "white", color[x] = "white" PROVE Anchored(x)
      BY <1>1
    <3>1. x \in Obj
      BY <1>1 DEF TypeOK
    <3>2. x \in found
      BY <1>6, <3>1
    <3>3. x \in Refs(o) /\ o \in Anchors
      BY <1>3, <3>2 DEF Anchors
    <3> QED
      BY <1>1, <3>3, AnchoredSteps
  <2>6. ToScan' = pending \ {o}
    BY <1>1, <1>4 DEF ToScan
  <2>7. \A x : Anchored(x)' = Anchored(x)
    BY <1>1, AnchoredSteps
  <2> QED
    BY <1>1, <1>2, <2>1, <2>2, <2>3, <2>4, <2>5, <2>6, <2>7 DEF MinorInv
<1>8. Remembered'
  <2> SUFFICES ASSUME NEW y \in live, gen[y] = 1, NEW x \in Refs(y), x \in live, gen[x] = 0
               PROVE  y \in pending' \cup retained'
    BY <1>1, <1>2 DEF Remembered
  <2>1. y \in pending \cup retained
    BY <1>1 DEF Remembered
  <2>2. y = o => x \in found
    BY <1>3
  <2> QED
    BY <1>4, <2>1, <2>2
<1> QED
  BY <1>1, <1>7, <1>8, MinorKeepsHInv

LEMMA ScanRememberedDoneKeepsHInv ==
  ASSUME IInv, HInv, ScanRememberedDone
  PROVE  HInv'
<1> USE DEF heapVars, rootVars, markVars
<1>1. /\ TypeOK /\ minorPhase = "scan_remembered" /\ minorPhase' = "trace_gray"
      /\ pending = {} /\ pending' = retained /\ retained' = {} /\ ToScan = {} /\ ToScan' = {}
      /\ MinorInv /\ Remembered
      /\ UNCHANGED <<heapVars, rootVars, markVars, sweepVars, controlVars>>
  BY DEF IInv, HInv, ScanRememberedDone, InMinor, ToScan
<1>2. \A o : Refs(o)' = Refs(o) /\ Anchored(o)' = Anchored(o)
  BY <1>1, AnchoredSteps DEF Refs
<1>3. MinorInv'
  <2>1. Tricolor(TRUE) => Tricolor(TRUE)'
    BY <1>1, <1>2 DEF Tricolor, Looks
  <2>2. RootsMarked(TRUE) => RootsMarked(TRUE)'
    BY <1>1 DEF RootsMarked, Looks
  <2> QED
    BY <1>1, <1>2, <2>1, <2>2 DEF MinorInv
<1>4. Remembered'
  BY <1>1, <1>2 DEF Remembered
<1> QED
  BY <1>1, <1>3, <1>4, MinorKeepsHInv

(* One young object traced *)
LEMMA TraceGrayKeepsHInv ==
  ASSUME IInv, HInv, NEW o \in Obj, TraceGray(o)
  PROVE  HInv'
<1> USE DEF heapVars, rootVars, rememberedVars
<1>1. /\ TypeOK /\ KindsOnly /\ SafeClosed /\ Shapes /\ Remembered /\ Safe = live
      /\ minorPhase = "trace_gray" /\ minorPhase' = "trace_gray" /\ retained = {}
      /\ Tricolor(TRUE) /\ RootsMarked(TRUE) /\ gray \subseteq {x \in young : color[x] # "white"}
      /\ \A y \in live : gen[y] = 1 => \A x \in Refs(y) : gen[x] = 0 => color[x] # "white"
      /\ \A x \in young : color[x] # "white" => Anchored(x)
      /\ PopGray(o, TRUE)
      /\ UNCHANGED <<heapVars, rootVars, rememberedVars, sweepVars, controlVars>>
  BY NoneDoomed DEF IInv, HInv, Phases, MinorInv, ToScan, TraceGray, InMinor
<1>2. /\ \A y \in live : Refs(y) \subseteq live /\ y \in Obj
      /\ \A y : Refs(y)' = Refs(y)
      /\ \A y \in live : gen[y] = 0 <=> y \in young
      /\ \A y \in young : y \in Obj
  BY <1>1, Types DEF SafeClosed, Refs, HInv, Lists, YoungListExact
<1>3. /\ Tricolor(TRUE)'
      /\ \A x \in Obj : color[x] # "white" => color'[x] # "white"
      /\ \A x \in gray' : x \in gray \/ (x \in live /\ x \in Refs(o) /\ o \in live /\ Looks(x, TRUE))
      /\ gray' \subseteq {x \in Obj : x \in gray \/ color'[x] # "white"}
      /\ \A x \in Obj : color'[x] # "white" =>
           color[x] # "white" \/ (x = o /\ o \in live) \/ (o \in live /\ x \in Refs(o) /\ Looks(x, TRUE))
  BY <1>1, PopTricolor
<1>4. o \in young /\ color[o] # "white" /\ Anchored(o)
  BY <1>1 DEF PopGray
<1>5. MinorInv'
  <2>1. \A x \in gray' : x \in young /\ color'[x] # "white"
    <3>1. \A x \in gray : x \in young /\ x \in Obj /\ color[x] # "white"
      BY <1>1, <1>2
    <3>2. \A x \in gray' : x \in Obj /\ x \in young
      BY <1>2, <1>3, <3>1 DEF Looks
    <3> QED
      BY <1>3, <3>1, <3>2
  <2>2. RootsMarked(TRUE)'
    BY <1>1, <1>3, Types DEF RootsMarked, Looks
  <2>3. \A y \in live : gen[y] = 1 => \A x \in Refs(y) : gen[x] = 0 => color'[x] # "white"
    BY <1>1, <1>2, <1>3
  <2>4. \A x \in young : color'[x] # "white" => Anchored(x)
    <3>1. \A x \in Refs(o) : Anchored(x)
      BY <1>1, <1>4, AnchoredSteps
    <3> QED
      BY <1>1, <1>2, <1>3, <1>4, <3>1
  <2>5. ToScan' = {}
    BY <1>1 DEF ToScan
  <2>6. \A x : Anchored(x)' = Anchored(x)
    BY <1>1, AnchoredSteps
  <2> QED
    BY <1>1, <1>2, <1>3, <2>1, <2>2, <2>3, <2>4, <2>5, <2>6 DEF MinorInv
<1>6. Remembered'
  BY <1>1, <1>2 DEF Remembered
<1> QED
  BY <1>1, <1>5, <1>6, MinorKeepsHInv

(* Marking is over: what is white is doomed, and nothing else leads to it. *)
LEMMA TraceGrayDoneKeepsHInv ==
  ASSUME IInv, HInv, TraceGrayDone
  PROVE  HInv'
<1> USE DEF heapVars, rootVars, markVars, rememberedVars, sweepVars, controlVars
<1>1. /\ TypeOK /\ KindsOnly /\ SafeClosed /\ Shapes /\ Remembered /\ Safe = live
      /\ minorPhase = "trace_gray" /\ minorPhase' = "sweep_promote" /\ retained = {} /\ gray = {}
      /\ Tricolor(TRUE) /\ RootsMarked(TRUE) /\ sweepTodo = young /\ pc = "minor"
      /\ \A y \in live : gen[y] = 1 => \A x \in Refs(y) : gen[x] = 0 => color[x] # "white"
      /\ \A x \in young : color[x] # "white" => Anchored(x)
      /\ UNCHANGED <<heapVars, rootVars, markVars, rememberedVars, sweepVars, controlVars>>
  BY NoneDoomed DEF IInv, HInv, Phases, Lists, MinorInv, ToScan, TraceGrayDone, InMinor
<1>2. /\ \A y \in live : Refs(y) \subseteq live /\ y \in Obj
      /\ \A y : Refs(y)' = Refs(y) /\ Anchored(y)' = Anchored(y)
      /\ \A y : y \in young <=> y \in live /\ gen[y] = 0
      /\ \A r \in Root : root[r] \in live \cup {Null}
  <2>1. \A y : Anchored(y)' = Anchored(y)
    BY <1>1, AnchoredSteps
  <2> QED
    BY <1>1, <2>1, Types DEF SafeClosed, Refs, HInv, Lists, YoungListExact
<1>3. \A y : y \in Safe' <=> y \in live /\ (gen[y] = 0 => color[y] # "white")
  BY <1>1, <1>2 DEF Safe, Doomed
<1>4. SafeClosed'
  <2>1. \A r \in Root : root[r] \in Safe' \cup {Null}
    BY <1>1, <1>2, <1>3 DEF RootsMarked, Looks
  <2>2. ASSUME NEW y \in Safe', NEW x \in Refs(y) PROVE x \in Safe'
    <3>1. y \in live /\ x \in live /\ y \in Obj
      BY <1>2, <1>3, <2>2
    <3>2. ASSUME gen[x] = 0 PROVE color[x] # "white"
      <4>1. CASE gen[y] = 1
        BY <1>1, <2>2, <3>1, <3>2, <4>1
      <4>2. CASE gen[y] = 0
        <5>1. color[y] = "black"
          BY <1>1, <1>3, <3>1, <4>2, Types DEF Tricolor, Looks
        <5> QED
          BY <1>1, <2>2, <3>1, <3>2, <4>2, <5>1 DEF Tricolor, Looks
      <4> QED
        BY <1>1, <3>1, <4>1, <4>2, Types
    <3> QED
      BY <1>3, <3>1, <3>2
  <2> QED
    BY <1>1, <1>2, <2>1, <2>2 DEF SafeClosed
<1>5. Shapes'
  BY <1>1, <1>2, <1>3 DEF Shapes
<1>6. KindsOnly'
  BY <1>1 DEF KindsOnly, Requesting
<1>7. Phases'
  BY <1>1 DEF HInv, Phases
<1>8. Lists'
  BY <1>1 DEF HInv, Lists, YoungListExact, OldBytesExact
<1>9. Remembered'
  BY <1>1, <1>2 DEF Remembered
<1>10. MajorInv'
  BY <1>1 DEF MajorInv, MajorMarking
<1>11. MinorInv'
  BY <1>1, <1>2 DEF MinorInv
<1> QED
  BY <1>4, <1>5, <1>6, <1>7, <1>8, <1>9, <1>10, <1>11 DEF HInv

LEMMA FinishMinorKeepsHInv ==
  ASSUME IInv, HInv, FinishMinor
  PROVE  HInv'
<1> USE DEF heapVars, rootVars, rememberedVars
<1>1. /\ TypeOK /\ minorPhase' = "idle" /\ phase' = "idle" /\ retained = {} /\ sweepTodo = {}
      /\ UNCHANGED <<heapVars, rootVars, rememberedVars, req>>
      /\ pc' \in {"alloc", "run"} /\ caller' # "step" /\ (Requesting' => Requesting)
  BY DEF IInv, HInv, Phases, FinishMinor, InMinor, Requesting
<1>2. Safe = live /\ Safe' = live
  BY <1>1 DEF Safe, Doomed
<1>3. \A o : Refs(o)' = Refs(o)
  BY <1>1 DEF Refs
<1>4. KindsOnly'
  BY <1>1 DEF HInv, KindsOnly
<1>5. Phases'
  BY <1>1 DEF Phases
<1>6. Lists'
  BY <1>1 DEF HInv, Lists, YoungListExact, OldBytesExact
<1>7. SafeClosed' /\ Shapes'
  BY <1>1, <1>2, <1>3 DEF HInv, SafeClosed, Shapes
<1>8. Remembered'
  BY <1>1, <1>3 DEF HInv, Remembered
<1>9. MajorInv' /\ MinorInv'
  BY <1>1 DEF MajorInv, MajorMarking, MinorInv
<1> QED
  BY <1>4, <1>5, <1>6, <1>7, <1>8, <1>9 DEF HInv

-----------------------------------------------------------------------------
(* The minor sweep: one object of the list                                  *)

(* What is the same whichever way the object goes *)
LEMMA SweepKeepsHInv ==
  ASSUME IInv, HInv, NEW o \in Obj, InMinor("sweep_promote"), o \in sweepTodo,
         sweepTodo' = sweepTodo \ {o}, UNCHANGED <<rootVars, retained, minorPhase, controlVars>>,
         Safe' = Safe,
         \A x \in Safe : Refs(x)' = Refs(x) /\ kind'[x] = kind[x],
         \A x \in Obj : kind'[x] \in Kind,
         live' \subseteq live, live \ {o} \subseteq live',
         \A x \in live' : x # o => gen'[x] = gen[x] /\ color'[x] = color[x] /\ Refs(x)' = Refs(x),
         o \in live' => gen'[o] = 0 \/ o \in pending',
         pending \subseteq pending',
         \A x \in sweepTodo' : Anchored(x) => Anchored(x)',
         Lists'
  PROVE  HInv'
<1> USE DEF rootVars, controlVars
<1>1. /\ TypeOK /\ minorPhase = "sweep_promote" /\ minorPhase' = "sweep_promote" /\ pc = "minor" /\ pc' = "minor"
      /\ UNCHANGED <<root, open, retained, caller, req>>
  BY DEF IInv, InMinor
<1>2. SafeClosed'
  BY <1>1 DEF HInv, SafeClosed
<1>3. Shapes'
  <2> SUFFICES ASSUME NEW x \in Safe
               PROVE  /\ kind'[x] = "backing" => Refs(x)' = {}
                      /\ kind'[x] = "string" => \A y \in Refs(x)' : kind'[y] = "backing"
    BY DEF Shapes
  <2>1. Refs(x) \subseteq Safe
    BY DEF HInv, SafeClosed
  <2> QED
    BY <2>1 DEF HInv, Shapes
<1>4. KindsOnly'
  <2>1. Requesting' = Requesting
    BY <1>1 DEF Requesting
  <2>2. ASSUME Requesting PROVE req.kind = "string" => kind'[req.init] = "backing"
    BY <2>2, RequestFacts
  <2> QED
    BY <1>1, <2>1, <2>2 DEF HInv, KindsOnly
<1>5. Phases'
  BY <1>1 DEF HInv, Phases
<1>6. Remembered'
  <2> SUFFICES ASSUME NEW y \in live', gen'[y] = 1, NEW x \in Refs(y)', x \in live', gen'[x] = 0
               PROVE  y \in pending' \cup retained'
    BY DEF Remembered
  <2>1. o \in sweepTodo /\ gen[o] = 0 /\ o \in live
    BY DEF IInv, Sweeping, SweepTodoYoung
  <2>2. CASE y = o
    BY <2>2
  <2>3. CASE y # o
    <3>1. y \in live /\ gen[y] = 1 /\ x \in Refs(y) /\ x \in live /\ gen[x] = 0
      BY <2>1, <2>3
    <3> QED
      BY <1>1, <3>1 DEF HInv, Remembered
  <2> QED
    BY <2>2, <2>3
<1>7. MajorInv'
  BY <1>1 DEF MajorInv, MajorMarking
<1>8. MinorInv'
  <2> SUFFICES ASSUME NEW x \in sweepTodo', color'[x] # "white" PROVE Anchored(x)'
    BY <1>1 DEF MinorInv
  <2>1. x \in sweepTodo /\ x # o /\ x \in live'
    BY DEF IInv, Sweeping, SweepTodoYoung
  <2> QED
    BY <1>1, <2>1 DEF HInv, MinorInv
<1> QED
  BY <1>2, <1>3, <1>4, <1>5, <1>6, <1>7, <1>8 DEF HInv

(* A white object is freed: no object that stays has a pointer to it. *)
LEMMA SweepFreeKeepsHInv ==
  ASSUME IInv, HInv, NEW o \in Obj, SweepYoung(o), SweepFree(o)
  PROVE  HInv'
<1>1. /\ TypeOK /\ InMinor("sweep_promote") /\ minorPhase = "sweep_promote" /\ o \in sweepTodo
      /\ sweepTodo' = sweepTodo \ {o}
      /\ UNCHANGED <<rootVars, retained, minorPhase, controlVars, gen, color, oldBytes, pending, sweepKept>>
      /\ color[o] = "white" /\ live' = live \ {o} /\ young' = Unlinked(o)
      /\ field' = [x \in Obj |-> IF x \in {o} THEN [f \in Field |-> Null] ELSE field[x]]
      /\ kind' = [x \in Obj |-> IF x \in {o} THEN "struct" ELSE kind[x]]
  BY DEF IInv, SweepYoung, SweepFree, Wiped, InMinor
<1>2. \A x \in Obj \ {o} : Refs(x)' = Refs(x) /\ kind'[x] = kind[x]
  <2>1. \A x \in Obj \ {o} : field'[x] = field[x] /\ kind'[x] = kind[x]
    BY <1>1
  <2> QED
    BY <2>1 DEF Refs
<1>3. /\ o \in live /\ gen[o] = 0 /\ o \notin Safe
      /\ \A x \in live : x \in Obj
      /\ Safe \subseteq live
  BY <1>1, Types DEF IInv, Sweeping, SweepTodoYoung, Safe, Doomed
<1>4. Safe' = Safe
  BY <1>1 DEF Safe, Doomed
<1>5. ASSUME NEW x, Anchored(x) PROVE Anchored(x)'
  <2>1. Anchors \subseteq Anchors'
    <3>1. Roots' = Roots
      BY <1>1 DEF Roots, rootVars
    <3> QED
      BY <1>1, <1>3, <3>1 DEF Anchors
  <2>2. Anchors \subseteq Safe
    <3>1. Roots \subseteq Safe
      BY <1>1, RootsOnly DEF HInv, SafeClosed
    <3>2. \A y \in live : gen[y] = 1 => y \in Safe
      BY DEF IInv, Sweeping, SweepTodoYoung, Safe, Doomed
    <3> QED
      BY <3>1, <3>2 DEF Anchors
  <2> SUFFICES ASSUME NEW S \in SUBSET Obj, AnchorClosed(S)' PROVE x \in S
    BY DEF Anchored
  <2>3. Anchors \subseteq S \cap Safe
    BY <2>1, <2>2 DEF AnchorClosed
  <2>4. ASSUME NEW y \in S \cap Safe PROVE Refs(y) \subseteq S \cap Safe
    <3>1. Refs(y)' = Refs(y)
      BY <1>2, <1>3, <2>4
    <3>2. Refs(y)' \subseteq S
      BY <2>4 DEF AnchorClosed
    <3> QED
      BY <2>4, <3>1, <3>2 DEF HInv, SafeClosed
  <2>5. AnchorClosed(S \cap Safe)
    BY <2>3, <2>4 DEF AnchorClosed
  <2> QED
    BY <1>5, <2>5 DEF Anchored
<1>6. Lists'
  <2>1. young = {x \in live : gen[x] = 0} /\ OldBytesExact /\ (~sweepKept => sweepTodo = young)
    BY <1>1 DEF HInv, Lists, YoungListExact
  <2>2. young' = young \ {o}
    BY <1>1, <2>1 DEF Unlinked
  <2>3. {x \in live' : gen[x] = 1} = {x \in live : gen[x] = 1}
    BY <1>1, <1>3
  <2>4. OldBytesExact'
    BY <1>1, <2>1, <2>3 DEF OldBytesExact
  <2>5. YoungListExact'
    BY <1>1, <2>1, <2>2 DEF YoungListExact
  <2> QED
    BY <1>1, <2>1, <2>2, <2>4, <2>5 DEF Lists
<1>7. \A x \in Obj : kind'[x] \in Kind
  BY <1>1 DEF HInv, KindsOnly, Kind
<1>8. \A x \in Safe : Refs(x)' = Refs(x) /\ kind'[x] = kind[x]
  BY <1>2, <1>3
<1>9. \A x \in live' : x # o => gen'[x] = gen[x] /\ color'[x] = color[x] /\ Refs(x)' = Refs(x)
  BY <1>1, <1>2, <1>3
<1> QED
  BY <1>1, <1>4, <1>5, <1>6, <1>7, <1>8, <1>9, SweepKeepsHInv

(* A marked object is promoted: it is remembered. *)
LEMMA SweepPromoteKeepsHInv ==
  ASSUME IInv, HInv, NEW o \in Obj, SweepYoung(o), SweepPromote(o)
  PROVE  HInv'
<1>1. /\ TypeOK /\ InMinor("sweep_promote") /\ minorPhase = "sweep_promote" /\ o \in sweepTodo
      /\ sweepTodo' = sweepTodo \ {o}
      /\ UNCHANGED <<rootVars, retained, minorPhase, controlVars, live, kind, field, sweepKept>>
      /\ color[o] # "white" /\ pending' = pending \cup {o} /\ young' = Unlinked(o) /\ oldBytes' = oldBytes + 1
      /\ gen' = [gen EXCEPT ![o] = 1] /\ color' = [color EXCEPT ![o] = "white"]
  BY DEF IInv, SweepYoung, SweepPromote, EnqueuePromoted, InMinor
<1>2. \A x : Refs(x)' = Refs(x)
  BY <1>1 DEF Refs
<1>3. /\ \A x \in Obj \ {o} : gen'[x] = gen[x] /\ color'[x] = color[x]
      /\ gen'[o] = 1 /\ gen[o] = 0 /\ o \in live
      /\ \A x \in live : x \in Obj
      /\ \A x \in sweepTodo : x \in Obj
  BY <1>1, Types DEF TypeOK, IInv, Sweeping, SweepTodoYoung
<1>4. Safe' = Safe
  BY <1>1, <1>3 DEF Safe, Doomed
<1>5. ASSUME NEW x, Anchored(x) PROVE Anchored(x)'
  <2>1. Anchors \subseteq Anchors'
    <3>1. Roots' = Roots
      BY <1>1 DEF Roots, rootVars
    <3> QED
      BY <1>1, <1>3, <3>1 DEF Anchors
  <2>2. \A S : AnchorClosed(S)' => AnchorClosed(S)
    BY <1>2, <2>1 DEF AnchorClosed
  <2> QED
    BY <1>5, <2>2 DEF Anchored
<1>6. Lists'
  <2>1. young = {x \in live : gen[x] = 0} /\ OldBytesExact /\ (~sweepKept => sweepTodo = young)
    BY <1>1 DEF HInv, Lists, YoungListExact
  <2>2. young' = young \ {o}
    BY <1>1, <2>1 DEF Unlinked
  <2>3. OldBytesExact'
    <3>1. {x \in live : gen'[x] = 1} = {x \in live : gen[x] = 1} \cup {o} /\ o \notin {x \in live : gen[x] = 1}
      BY <1>3
    <3>2. IsFiniteSet({x \in live : gen[x] = 1})
      <4>1. {x \in live : gen[x] = 1} \subseteq Obj
        BY <1>3
      <4> QED
        BY <4>1, FS_Subset, HeapAssumption DEF HeapAssumption
    <3>3. Cardinality({x \in live : gen[x] = 1} \cup {o}) = Cardinality({x \in live : gen[x] = 1}) + 1
      BY <3>1, <3>2, FS_AddElement
    <3> QED
      BY <1>1, <2>1, <3>1, <3>3 DEF OldBytesExact
  <2>4. YoungListExact'
    BY <1>1, <1>3, <2>1, <2>2 DEF YoungListExact
  <2> QED
    BY <1>1, <2>1, <2>2, <2>3, <2>4 DEF Lists
<1>7. \A x \in Obj : kind'[x] \in Kind
  BY <1>1 DEF HInv, KindsOnly
<1> QED
  BY <1>1, <1>2, <1>3, <1>4, <1>5, <1>6, <1>7, SweepKeepsHInv

(* A marked object stays young. *)
LEMMA SweepKeepKeepsHInv ==
  ASSUME IInv, HInv, NEW o \in Obj, SweepYoung(o), SweepKeep(o)
  PROVE  HInv'
<1>1. /\ TypeOK /\ InMinor("sweep_promote") /\ minorPhase = "sweep_promote" /\ o \in sweepTodo
      /\ sweepTodo' = sweepTodo \ {o} /\ sweepKept' = TRUE
      /\ UNCHANGED <<rootVars, retained, minorPhase, controlVars, live, kind, field, gen, oldBytes, pending, young>>
      /\ color[o] # "white" /\ color' = [color EXCEPT ![o] = "white"]
  BY DEF IInv, SweepYoung, SweepKeep, InMinor
<1>2. \A x : Refs(x)' = Refs(x) /\ Anchored(x)' = Anchored(x)
  BY <1>1, AnchoredSteps DEF Refs, rootVars
<1>3. /\ \A x \in Obj \ {o} : color'[x] = color[x]
      /\ gen[o] = 0
      /\ \A x \in live : x \in Obj
      /\ \A x \in sweepTodo : x \in Obj
  BY <1>1, Types DEF TypeOK, IInv, Sweeping, SweepTodoYoung
<1>4. Safe' = Safe
  BY <1>1, <1>3 DEF Safe, Doomed
<1>5. Lists'
  BY <1>1 DEF HInv, Lists, YoungListExact, OldBytesExact
<1>6. \A x \in Obj : kind'[x] \in Kind
  BY <1>1 DEF HInv, KindsOnly
<1> QED
  BY <1>1, <1>2, <1>3, <1>4, <1>5, <1>6, SweepKeepsHInv

-----------------------------------------------------------------------------
(* HInv is an inductive invariant of such programs.                         *)

LEMMA InitHInv == Init => HInv
<1> SUFFICES ASSUME Init PROVE HInv
  OBVIOUS
<1>1. /\ live = {} /\ young = {} /\ oldBytes = 0 /\ sweepTodo = {} /\ retained = {} /\ caller = "none"
      /\ phase = "idle" /\ minorPhase = "idle" /\ pc = "run"
      /\ kind = [o \in Obj |-> "struct"] /\ root = [r \in Root |-> Null] /\ open = [r \in Reg |-> Null]
  BY DEF Init
<1>2. KindsOnly
  BY <1>1 DEF KindsOnly, Kind, Requesting
<1>3. Phases
  BY <1>1 DEF Phases
<1>4. Lists
  <2>1. {o \in live : gen[o] = 1} = {} /\ {o \in live : gen[o] = 0} = {}
    BY <1>1
  <2>2. Cardinality({}) = 0
    BY FS_EmptySet
  <2> QED
    BY <1>1, <2>1, <2>2 DEF Lists, YoungListExact, OldBytesExact
<1>5. SafeClosed /\ Shapes
  BY <1>1 DEF SafeClosed, Shapes, Safe
<1>6. Remembered
  BY <1>1 DEF Remembered
<1>7. MajorInv /\ MinorInv
  BY <1>1 DEF MajorInv, MajorMarking, MinorInv
<1> QED
  BY <1>2, <1>3, <1>4, <1>5, <1>6, <1>7 DEF HInv

LEMMA StutterKeepsHInv ==
  ASSUME HInv, UNCHANGED vars
  PROVE  HInv'
<1>1. /\ UNCHANGED <<live, kind, field, gen, age, young, oldBytes, root, open, color, gray, pending, retained>>
      /\ UNCHANGED <<sweepTodo, sweepKept, phase, minorPhase, pc, caller, budget, req>>
  BY DEF vars, heapVars, rootVars, markVars, rememberedVars, sweepVars, phaseVars, controlVars
<1>2. (\A o : Refs(o)' = Refs(o)) /\ Safe' = Safe /\ ToScan' = ToScan /\ Anchors' = Anchors
  BY <1>1 DEF Refs, Safe, Doomed, ToScan, Anchors, Roots
<1>3. \A o : Anchored(o) => Anchored(o)'
  BY <1>2 DEF Anchored, AnchorClosed
<1>4. \A youngOnly : Tricolor(youngOnly) => Tricolor(youngOnly)'
  BY <1>1, <1>2 DEF Tricolor, Looks
<1>5. \A youngOnly : RootsMarked(youngOnly) => RootsMarked(youngOnly)'
  BY <1>1 DEF RootsMarked, Looks
<1>6. KindsOnly' /\ Phases'
  BY <1>1 DEF HInv, KindsOnly, Requesting, Phases
<1>7. Lists'
  BY <1>1 DEF HInv, Lists, YoungListExact, OldBytesExact
<1>8. SafeClosed' /\ Shapes' /\ Remembered'
  BY <1>1, <1>2 DEF HInv, SafeClosed, Shapes, Remembered
<1>9. MajorInv'
  BY <1>1, <1>4, <1>5 DEF HInv, MajorInv, MajorMarking, Requesting
<1>10. MinorInv'
  BY <1>1, <1>2, <1>3, <1>4, <1>5 DEF HInv, MinorInv
<1> QED
  BY <1>6, <1>7, <1>8, <1>9, <1>10 DEF HInv

LEMMA NextHInv ==
  ASSUME RecordsAndStrings, IInv, HInv, [Next]_vars
  PROVE  HInv'
<1>1. CASE UNCHANGED vars
  BY <1>1, StutterKeepsHInv
<1>2. CASE Mutate
  BY <1>2, MutateKeepsHInv
<1>3. CASE Allocate
  BY <1>3, AllocateKeepsHInv
<1>4. CASE Call
  BY <1>4, CollectMajorKeepsHInv, CollectMinorKeepsHInv DEF Call
<1>5. CASE Reserve \/ OnAllocation \/ Link \/ SweepAll
  BY <1>5, ReserveKeepsHInv, OnAllocationKeepsHInv, LinkKeepsHInv, SweepAllKeepsHInv
<1>6. CASE MarkStepReturns \/ CompleteMajorReturns
  BY <1>6, RescanKeepsHInv
<1>7. CASE BeginMinor \/ MinorMarkRoots \/ ScanRememberedDone \/ TraceGrayDone \/ FinishMinor
  BY <1>7, BeginMinorKeepsHInv, MinorMarkRootsKeepsHInv, ScanRememberedDoneKeepsHInv,
     TraceGrayDoneKeepsHInv, FinishMinorKeepsHInv
<1>8. CASE StepReturns
  BY <1>8 DEF StepReturns, HInv, Phases
<1>9. CASE \E o \in Obj : MarkStep(o) \/ Drain(o) \/ CompleteMajor(o)
  BY <1>9, MajorPopKeepsHInv
<1>10. CASE \E o \in Obj : ScanRemembered(o) \/ TraceGray(o)
  BY <1>10, ScanRememberedKeepsHInv, TraceGrayKeepsHInv
<1>11. CASE \E o \in Obj : SweepYoung(o)
  <2>1. PICK o \in Obj : SweepYoung(o)
    BY <1>11
  <2>2. SweepFree(o) \/ SweepPromote(o) \/ SweepKeep(o)
    BY <2>1 DEF SweepYoung
  <2> QED
    BY <2>1, <2>2, SweepFreeKeepsHInv, SweepPromoteKeepsHInv, SweepKeepKeepsHInv
<1> QED
  BY <1>1, <1>2, <1>3, <1>4, <1>5, <1>6, <1>7, <1>8, <1>9, <1>10, <1>11 DEF Next, Collector

LEMMA AlwaysHInv ==
  ASSUME RecordsAndStrings
  PROVE  Spec => [](IInv /\ HInv)
<1>1. Init => HInv
  BY InitHInv
<1>2. IInv /\ HInv /\ [Next]_vars => HInv'
  BY NextHInv
<1>3. Spec => []IInv
  BY AlwaysIInv DEF RecordsAndStrings, SeparateEntryPoints
<1> QED
  BY <1>1, <1>2, <1>3, PTL DEF Spec

-----------------------------------------------------------------------------
(* The theorems                                                             *)

(* No object the script can reach has been freed: neither a minor nor a    *)
(* major collection, nor any interleaving of their increments with stores, *)
(* frees one (sweep_all, sweep_and_promote_young_step).  Safe is a set     *)
(* that holds the roots and is closed, so it holds what can be reached.    *)
THEOREM ReachableStaysLive ==
  ASSUME RecordsAndStrings
  PROVE  Spec => []ReachableLive
<1>1. IInv /\ HInv => ReachableLive
  <2> SUFFICES ASSUME IInv, HInv, NEW o \in Reachable PROVE o \in live
    BY DEF ReachableLive
  <2>1. TypeOK /\ KindsOnly /\ SafeClosed
    BY DEF IInv, HInv
  <2>2. Roots \subseteq Safe
    BY <2>1, RootsOnly DEF SafeClosed
  <2>3. Safe \in SUBSET Obj /\ Safe \subseteq live
    BY <2>1, Types DEF Safe
  <2>4. \A S \in SUBSET Obj : Roots \subseteq S /\ (\A x \in S : Refs(x) \subseteq S) => o \in S
    BY DEF Reachable
  <2> QED
    BY <2>1, <2>2, <2>3, <2>4 DEF SafeClosed
<1> QED
  BY <1>1, AlwaysHInv, PTL

(* Between minor collections the remembered set has every old object with a *)
(* young child: write_barrier, promotion and the scan, which drops entries, *)
(* miss none.                                                               *)
THEOREM OldToYoungStaysRemembered ==
  ASSUME RecordsAndStrings
  PROVE  Spec => []OldToYoungRemembered
<1>1. IInv /\ HInv => OldToYoungRemembered
  <2> SUFFICES ASSUME IInv, HInv, minorPhase = "idle",
                      NEW o \in live, gen[o] = 1, NEW x \in Traced(o) \cap live, gen[x] = 0
               PROVE  o \in pending
    BY DEF OldToYoungRemembered
  <2>1. TypeOK /\ KindsOnly /\ Remembered /\ retained = {}
    BY DEF IInv, HInv, Phases
  <2>2. Traced(o) = Refs(o)
    BY <2>1, TracedIsRefs, Types
  <2> QED
    BY <2>1, <2>2 DEF Remembered
<1> QED
  BY <1>1, AlwaysHInv, PTL

(* The young list has the young objects and no other, in the middle of a    *)
(* sweep too: sweep_and_promote_young_step unlinks what it frees or         *)
(* promotes, sweep_all builds the list anew.                                *)
THEOREM YoungListStaysExact ==
  ASSUME RecordsAndStrings
  PROVE  Spec => []YoungListExact
<1>1. HInv => YoungListExact
  BY DEF HInv, Lists
<1> QED
  BY <1>1, AlwaysHInv, PTL

(* old_bytes_ is the size of the old generation: promotion adds to it and   *)
(* sweep_all counts again, so that major collections start when they should.*)
THEOREM OldBytesStayExact ==
  ASSUME RecordsAndStrings
  PROVE  Spec => []OldBytesExact
<1>1. HInv => OldBytesExact
  BY DEF HInv, Lists
<1> QED
  BY <1>1, AlwaysHInv, PTL

(* While a major collection marks, between its increments too, no black     *)
(* object points to a white one: the barrier of every store, and the black  *)
(* colour of new objects, keep what the collection has traced traced.       *)
THEOREM BlackNeverSeesWhite ==
  ASSUME RecordsAndStrings
  PROVE  Spec => []BlackSeesNoWhite
<1>1. IInv /\ HInv => BlackSeesNoWhite
  <2> SUFFICES ASSUME IInv, HInv, MajorMarking, NEW o \in live, NEW f \in Field,
                      color[o] = "black", field[o][f] \in live
               PROVE  color[field[o][f]] # "white"
    BY DEF BlackSeesNoWhite
  <2>1. Tricolor(FALSE)
    BY DEF HInv, MajorInv
  <2>2. field[o][f] \in Refs(o)
    BY Types, SlotAssumption DEF Refs, SlotAssumption, IInv
  <2> QED
    BY <2>1, <2>2 DEF Tricolor, Looks
<1> QED
  BY <1>1, AlwaysHInv, PTL

(* The assertion of finish_major_gc: after the roots were scanned again and *)
(* what that found was traced, no root is white.                            *)
THEOREM RescanReachesFixpoint ==
  ASSUME RecordsAndStrings
  PROVE  Spec => []RescanFixpoint
<1>1. IInv /\ HInv => RescanFixpoint
  <2> SUFFICES ASSUME IInv, HInv, pc = "finish", NEW o \in RootTargets(FALSE)
               PROVE  color[o] # "white"
    BY DEF RescanFixpoint
  <2>1. MajorMarking
    BY DEF IInv, Sweeping, HInv, Phases, MajorMarking
  <2>2. RootsMarked(FALSE)
    BY <2>1 DEF HInv, MajorInv
  <2>3. o \in Roots /\ Roots = {root[r] : r \in Root} \ {Null}
    BY RootsOnly DEF IInv, HInv
  <2> QED
    BY <2>2, <2>3 DEF RootsMarked, Looks
<1> QED
  BY <1>1, AlwaysHInv, PTL

(* What a minor sweep keeps is reachable from the roots or from an old      *)
(* object, while the sweep frees and promotes other objects.                *)
THEOREM MinorStaysPrecise ==
  ASSUME RecordsAndStrings
  PROVE  Spec => []MinorPrecise
<1>1. HInv => MinorPrecise
  BY DEF HInv, MinorInv, MinorPrecise, Anchored, AnchorClosed, Anchors
<1> QED
  BY <1>1, AlwaysHInv, PTL

-----------------------------------------------------------------------------
(* The collected heap is a ManagedHeap                                      *)

(* What a script can reach in the managed heap is made of roots and of what *)
(* they point to, and is in every closed set: in Safe for one.              *)
LEMMA ManagedReach ==
  ASSUME IInv, HInv
  PROVE  /\ \A r \in Root : root[r] \in Managed!Reachable \cup {Null}
         /\ \A o \in Managed!Reachable \cap live : Refs(o) \subseteq Managed!Reachable
         /\ \A S \in SUBSET Obj :
              /\ \A r \in Root : root[r] \in S \cup {Null}
              /\ \A o \in S : o \in live /\ Refs(o) \subseteq S
              => Managed!Reachable \subseteq S
         /\ Managed!Reachable \subseteq Safe
<1>1. TypeOK /\ SafeClosed
  BY DEF IInv, HInv
<1>2. /\ DOMAIN [o \in live |-> field[o]] = live
      /\ \A o \in live : Managed!Targets(o) = Refs(o)
  BY DEF Managed!Targets, Refs
<1>3. \A r \in Root : root[r] \in Managed!Reachable \cup {Null}
  BY <1>1, Types DEF Managed!Reachable, Managed!Closed, Managed!Roots
<1>4. \A o \in Managed!Reachable \cap live : Refs(o) \subseteq Managed!Reachable
  <2> SUFFICES ASSUME NEW o \in Managed!Reachable, o \in live, NEW x \in Refs(o),
                      NEW S \in SUBSET Obj, Managed!Closed(S)
               PROVE  x \in S
    BY <1>1, RefsTypes DEF Managed!Reachable
  <2>1. o \in S
    BY DEF Managed!Reachable
  <2> QED
    BY <1>2, <2>1 DEF Managed!Closed
<1>5. ASSUME NEW S \in SUBSET Obj, \A r \in Root : root[r] \in S \cup {Null},
             \A o \in S : o \in live /\ Refs(o) \subseteq S
      PROVE  Managed!Reachable \subseteq S
  <2>1. Managed!Closed(S)
    BY <1>2, <1>5 DEF Managed!Closed, Managed!Roots
  <2> QED
    BY <2>1 DEF Managed!Reachable
<1>6. Managed!Reachable \subseteq Safe
  <2>1. Safe \in SUBSET Obj /\ \A o \in Safe : o \in live
    BY <1>1, Types DEF Safe
  <2> QED
    BY <1>1, <1>5, <2>1 DEF SafeClosed
<1> QED
  BY <1>3, <1>4, <1>5, <1>6

(* Script assigns a root or writes a field. *)
LEMMA MutateManaged ==
  ASSUME IInv, HInv, Mutate
  PROVE  Managed!Next
<1> DEFINE heap == [o \in live |-> field[o]]
<1>1. TypeOK /\ KindsOnly
  BY DEF IInv, HInv
<1>2. ASSUME NEW d \in Root, NEW v \in Managed!Reachable \cup {Null}, Script,
             UNCHANGED field, root' = [root EXCEPT ![d] = v]
      PROVE  Managed!Next
  <2>1. heap' = heap
    BY <1>2 DEF Script
  <2>2. Managed!Assign(d, v)
    BY <1>2, <2>1 DEF Managed!Assign
  <2>3. v \in Obj \cup {Null}
    BY DEF Managed!Reachable
  <2> QED
    BY <2>2, <2>3 DEF Managed!Next
<1>3. ASSUME NEW d \in Reg, Clear(d) PROVE Managed!Next
  BY <1>1, <1>2, <1>3, Types DEF Clear
<1>4. ASSUME NEW d \in Reg, NEW s \in Root, Move(d, s) PROVE Managed!Next
  BY <1>1, <1>2, <1>4, Types, ManagedReach DEF Move
<1>5. ASSUME NEW d \in Reg, NEW s \in Reg, NEW f \in Field, Load(d, s, f) PROVE Managed!Next
  <2>1. root[s] \in live /\ root[s] \in Managed!Reachable
    BY <1>1, <1>5, Types, ManagedReach, SlotAssumption DEF Load, InReg, SlotAssumption
  <2>2. field[root[s]][f] \in Refs(root[s]) \cup {Null}
    BY DEF Refs
  <2>3. field[root[s]][f] \in Managed!Reachable \cup {Null}
    BY <2>1, <2>2, ManagedReach
  <2> QED
    BY <1>1, <1>2, <1>5, <2>3, Types DEF Load
<1>6. ASSUME NEW g \in Glob, NEW s \in Reg, SetGlobal(g, s) PROVE Managed!Next
  BY <1>1, <1>2, <1>6, Types, ManagedReach DEF SetGlobal, Root
<1>7. ASSUME NEW d \in Reg, NEW f \in Field, NEW s \in Reg, Store(d, f, s) PROVE Managed!Next
  <2>1. PICK t \in live, v \in Obj \cup {Null} :
          /\ t = root[d] /\ v = root[s] /\ t \in Obj
          /\ field' = [field EXCEPT ![t][f] = v] /\ live' = live /\ root' = root
    <3>1. root[d] \in live /\ root[d] \in Obj /\ root[s] \in Obj \cup {Null}
      BY <1>1, <1>7, Types DEF Store, InReg
    <3> QED
      BY <1>7, <3>1 DEF Store, Script, rootVars
  <2>2. {t, v} \subseteq Managed!Reachable \cup {Null}
    BY <1>1, <2>1, Types, ManagedReach
  <2>3. heap' = [heap EXCEPT ![t][f] = v]
    BY <1>1, <2>1 DEF TypeOK
  <2>4. Managed!Write(t, f, v)
    BY <2>1, <2>2, <2>3 DEF Managed!Write
  <2> QED
    BY <2>1, <2>4 DEF Managed!Next
<1>8. ASSUME NEW t \in Reg, NEW s \in Reg, SumInit(t, s) PROVE FALSE
  BY <1>1, <1>8, Types DEF SumInit, InReg, KindsOnly, Kind
<1>9. ASSUME NEW d \in Reg, NEW c \in Reg, NEW u \in Obj, GetUpval(d, c, u) \/ SetUpval(c, u, d) PROVE FALSE
  BY <1>1, <1>9, Types DEF GetUpval, SetUpval, InReg, KindsOnly, Kind
<1>10. ASSUME NEW R \in SUBSET Reg, CloseUpvalues(R) PROVE FALSE
  BY <1>1, <1>10 DEF CloseUpvalues, KindsOnly
<1> QED
  BY <1>3, <1>4, <1>5, <1>6, <1>7, <1>8, <1>9, <1>10 DEF Mutate

(* What is freed cannot be reached. *)
LEMMA FreedManaged ==
  ASSUME IInv, HInv, NEW S \in SUBSET live, S \cap Managed!Reachable = {},
         live' = live \ S, root' = root, \A o \in live' : field'[o] = field[o]
  PROVE  Managed!Next
<1> DEFINE heap == [o \in live |-> field[o]]
<1>1. heap' = Managed!Restrict(heap, DOMAIN heap \ S)
  BY DEF Managed!Restrict
<1>2. Managed!Reclaim(S) /\ S \in SUBSET DOMAIN heap
  BY <1>1 DEF Managed!Reclaim
<1> QED
  BY <1>2 DEF Managed!Next

LEMMA SweepAllManaged ==
  ASSUME IInv, HInv, SweepAll
  PROVE  Managed!Next
<1> DEFINE white == {o \in live : color[o] = "white"}
<1>1. Managed!Reachable \subseteq live \ white
  <2>1. live \ white \in SUBSET Obj
    BY Types DEF IInv
  <2> QED
    BY <2>1, WhiteUnreached, ManagedReach
<1>2. live' = live \ white /\ root' = root /\ \A o \in live' : field'[o] = field[o]
  <2>1. /\ live' = live \ white /\ root' = root
        /\ field' = [o \in Obj |-> IF o \in white THEN [f \in Field |-> Null] ELSE field[o]]
    BY DEF SweepAll, Wiped, rootVars
  <2>2. live \subseteq Obj
    BY Types DEF IInv
  <2> QED
    BY <2>1, <2>2
<1>3. white \in SUBSET live /\ white \cap Managed!Reachable = {}
  BY <1>1
<1> HIDE DEF white
<1> QED
  BY <1>2, <1>3, FreedManaged

LEMMA SweepFreeManaged ==
  ASSUME IInv, HInv, NEW o \in Obj, SweepYoung(o), SweepFree(o)
  PROVE  Managed!Next
<1>1. /\ o \in sweepTodo /\ minorPhase = "sweep_promote" /\ color[o] = "white"
      /\ live' = live \ {o} /\ root' = root
      /\ field' = [x \in Obj |-> IF x \in {o} THEN [f \in Field |-> Null] ELSE field[x]]
  BY DEF SweepYoung, SweepFree, Wiped, InMinor, rootVars
<1>2. o \in live /\ o \notin Safe /\ live \subseteq Obj
  BY <1>1, Types DEF IInv, Sweeping, SweepTodoYoung, Safe, Doomed
<1>3. \A x \in live' : field'[x] = field[x]
  BY <1>1, <1>2
<1>4. {o} \in SUBSET live /\ {o} \cap Managed!Reachable = {}
  BY <1>2, ManagedReach
<1> QED
  BY <1>1, <1>3, <1>4, FreedManaged

LEMMA LinkManaged ==
  ASSUME IInv, HInv, Link
  PROVE  Managed!Next
<1> DEFINE heap == [o \in live |-> field[o]]
<1>1. TypeOK /\ pc = "link" /\ Requesting
  BY DEF IInv, Link, Requesting
<1>2. PICK a \in Obj : a = req.addr /\ a \notin live
  BY <1>1 DEF IInv, Control, Reserved
<1>3. PICK d \in Root : d = req.dest
  BY <1>1, RequestFacts
<1>4. PICK v \in Obj \cup {Null} :
        /\ v \in Managed!Reachable \cup {Null}
        /\ req.kind # "string" => v = Null
        /\ v = req.init
  <2>1. CASE req.kind = "string"
    BY <1>1, <2>1, RequestFacts, ManagedReach
  <2>2. CASE req.kind # "string"
    BY <1>1, <2>2, RequestFacts
  <2> QED
    BY <2>1, <2>2
<1>5. /\ live' = live \cup {a}
      /\ field' = [field EXCEPT ![a] = [f \in Field |-> v]]
      /\ root' = [root EXCEPT ![d] = a]
  <2>1. req.kind \in {"struct", "backing", "string"}
    BY <1>1, RequestFacts DEF Kind
  <2> QED
    BY <1>2, <1>3, <1>4, <2>1 DEF Link
<1>6. heap' = [x \in DOMAIN heap \cup {a} |-> IF x = a THEN [f \in Field |-> v] ELSE heap[x]]
  <2>1. \A x \in live' : field'[x] = IF x = a THEN [f \in Field |-> v] ELSE field[x]
    BY <1>1, <1>2, <1>5 DEF TypeOK
  <2> QED
    BY <1>2, <1>5, <2>1
<1>7. Managed!New(d, a, v)
  BY <1>2, <1>4, <1>5, <1>6 DEF Managed!New
<1> QED
  BY <1>7 DEF Managed!Next

(* The rest of what allocation and collection do is not seen. *)
LEMMA StepManaged ==
  ASSUME RecordsAndStrings, IInv, HInv, [Next]_vars
  PROVE  Managed!Next \/ UNCHANGED <<[o \in live |-> field[o]], root>>
<1> USE DEF heapVars, rootVars
<1> DEFINE Unseen == UNCHANGED <<live, field, root>>
<1>1. Unseen => UNCHANGED <<[o \in live |-> field[o]], root>>
  OBVIOUS
<1>2. CASE UNCHANGED vars
  BY <1>1, <1>2 DEF vars
<1>3. CASE Mutate
  BY <1>3, MutateManaged
<1>4. CASE Allocate
  <2>1. ASSUME NEW k, NEW d, NEW from, NEW init, BeginAlloc(k, d, from, init) PROVE Unseen
    BY <2>1 DEF BeginAlloc, Script
  <2> QED
    BY <1>1, <1>4, <2>1 DEF Allocate, AllocPlain, AllocString, AllocClosure, AllocView
<1>5. CASE Call
  BY <1>1, <1>5 DEF Call, CollectMajor, CollectMinor
<1>6. CASE Reserve \/ OnAllocation \/ MarkStepReturns \/ CompleteMajorReturns
  BY <1>1, <1>6 DEF Reserve, OnAllocation, MarkStepReturns, CompleteMajorReturns
<1>7. CASE Link
  BY <1>7, LinkManaged
<1>8. CASE SweepAll
  BY <1>8, SweepAllManaged
<1>9. CASE BeginMinor \/ MinorMarkRoots \/ ScanRememberedDone \/ TraceGrayDone \/ FinishMinor \/ StepReturns
  BY <1>1, <1>9 DEF BeginMinor, MinorMarkRoots, ScanRememberedDone, TraceGrayDone, FinishMinor, StepReturns
<1>10. ASSUME NEW o \in Obj, MarkStep(o) \/ Drain(o) \/ CompleteMajor(o) \/ ScanRemembered(o) \/ TraceGray(o)
       PROVE  Unseen
  BY <1>10 DEF MarkStep, Drain, CompleteMajor, ScanRemembered, TraceGray
<1>11. ASSUME NEW o \in Obj, SweepYoung(o)
       PROVE  Managed!Next \/ Unseen
  <2>1. CASE SweepFree(o)
    BY <1>11, <2>1, SweepFreeManaged
  <2>2. CASE SweepPromote(o) \/ SweepKeep(o)
    BY <1>11, <2>2 DEF SweepYoung, SweepPromote, SweepKeep
  <2> QED
    BY <1>11, <2>1, <2>2 DEF SweepYoung
<1> HIDE DEF Unseen
<1> QED
  BY <1>1, <1>2, <1>3, <1>4, <1>5, <1>6, <1>7, <1>8, <1>9, <1>10, <1>11 DEF Next, Collector

(* Scripts of records and strings see a heap without a collector: no call   *)
(* of it changes a root or a record they can reach, or reclaims one, and    *)
(* allocate hands out no address they can reach.                            *)
THEOREM ManagedHeapImplemented ==
  ASSUME RecordsAndStrings
  PROVE  Spec => ImplementsManagedHeap
<1>1. Init => Managed!Init
  <2> SUFFICES ASSUME Init PROVE Managed!Init
    OBVIOUS
  <2>1. live = {} /\ root = [r \in Root |-> Null]
    BY DEF Init
  <2>2. [o \in live |-> field[o]] = [o \in {} |-> Managed!Empty]
    BY <2>1
  <2> QED
    BY <2>1, <2>2 DEF Managed!Init
<1>2. IInv /\ HInv /\ [Next]_vars => [Managed!Next]_(Managed!vars)
  BY StepManaged DEF Managed!vars
<1>3. Spec => [](IInv /\ HInv)
  BY AlwaysHInv
<1> QED
  BY <1>1, <1>2, <1>3, PTL DEF Spec, ImplementsManagedHeap, Managed!Spec

=============================================================================
